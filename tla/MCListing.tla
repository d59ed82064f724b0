----------------------------- MODULE MCListing ------------------------------
(***************************************************************************)
(* Model checking of Listing: one domain and two, one with a gap in the    *)
(* numbers of domains, one with ports of two characters.                    *)
(***************************************************************************)
EXTENDS Listing

R(d, route) == [dom |-> d, route |-> route]

Tree == {R(0, <<>>), R(0, <<1>>), R(0, <<1, 3>>), R(0, <<3>>)}
Two  == Tree \cup {R(1, <<>>), R(1, <<1>>)}
Gap  == {R(1, <<>>), R(1, <<1>>)}

Wide == Tree \cup {R(0, <<11>>), R(0, <<16>>), R(0, <<16, 1>>)}

MCPopulations == {Two, Tree, Gap, Wide, {}}
MCMovable == {R(0, <<1>>), R(0, <<1, 3>>), R(1, <<>>), R(1, <<1>>)}
MCRetimers == {[at |-> R(0, <<>>), port |-> 1], [at |-> R(0, <<1>>), port |-> 3]}

Num(n) == Plain(Text(n, NoName))
Dev(d, route) == Plain(Text(-1, Name(d, route)))
Junk == Plain(Text(-1, NoName))
O(s) == Letters(s)

MCCommandLines ==
  {<<>>,
   <<O(<<"D">>), Num(1)>>,
   <<O(<<"d">>), Num(1)>>,
   <<O(<<"d">>), Num(0), O(<<"d">>), Num(2), O(<<"D">>), Num(0)>>,
   <<O(<<"s">>), Dev(0, <<1, 3>>)>>,
   <<O(<<"s">>), Dev(0, <<5>>)>>,
   <<O(<<"t">>)>>,
   <<O(<<"t">>), O(<<"d">>), Num(1)>>,
   <<O(<<"t", "v", "s">>), Dev(0, <<1>>)>>,
   <<O(<<"t", "s">>), Dev(0, <<5>>)>>,
   <<O(<<"r">>)>>,
   <<O(<<"r", "s">>), Dev(0, <<1>>)>>,
   <<O(<<"r", "d">>), Num(0)>>,
   <<O(<<"v">>)>>,
   <<O(<<"v", "v", "d">>), Num(2)>>,
   <<O(<<"v", "v", "v">>), O(<<"D">>), Num(0)>>,
   <<O(<<"v", "v", "v", "v">>), O(<<"r", "t", "r">>)>>,
   <<O(<<"D">>), O(<<"d">>), Num(1)>>,
   <<O(<<"D", "d">>)>>,
   <<O(<<"s">>), Dev(0, <<1>>), O(<<"d">>), Num(1)>>,
   <<O(<<"D">>), Num(2)>>,
   <<O(<<"d">>), Num(8)>>,
   <<O(<<"D">>), Junk>>,
   <<O(<<"r", "t">>)>>,
   <<O(<<"t", "D">>)>>,
   <<O(<<"h", "x">>)>>,
   <<O(<<>>)>>,
   <<O(<<"V">>)>>,
   <<Plain(Text(-1, NoName)), O(<<"v">>)>>,
   <<Plain([Text(-1, NoName) EXCEPT !.opt = "unprintable"])>>}
=============================================================================
