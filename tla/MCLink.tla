------------------------------- MODULE MCLink -------------------------------
(***************************************************************************)
(* Instance of Link for TLC: bytes of 32 values, so that a text of 16      *)
(* bytes is too long, and a socket that holds one reply but not two.       *)
(***************************************************************************)
EXTENDS Link

One == <<1, 2, 3, 4>>
Zero == <<0, 0, 0, 0>>

Plain(type) == [type |-> type, source |-> <<>>, text |-> <<>>, vars |-> <<>>]
Chat(source, text) == [Plain(Message) EXCEPT !.source = source, !.text = text]
Update(vs) == [Plain(UpdateGame) EXCEPT !.vars = vs]
Var(type, value) == [type |-> type, value |-> value]

Long == [i \in 1..16 |-> 3]

\* Chat, with a source or a text that is too long, too; updates with a value of
\* every kind; positions reported by one coordinate and by two; both teleports.
MCRequests ==
    {Chat(<<5, 5>>, <<9, 0, 9>>), Chat(<<>>, Long), Chat(Long, <<9>>),
     Update(<<Var(PositionX, One)>>),
     Update(<<Var(PositionY, One), Var(14, <<2>>), Var(24, <<>>), Var(0, <<1>>)>>),
     Plain(SavePosition), Plain(LoadPosition)}

MCUsername == <<5>>
MCSpawn == [x \in Axis |-> Zero]
MCGoAway == <<30, 30>>
MCLeftover == {31}
=============================================================================
