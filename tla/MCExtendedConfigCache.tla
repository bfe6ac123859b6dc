----------------------- MODULE MCExtendedConfigCache -----------------------
(* Instances of ExtendedConfigCache for TLC.                               *)
EXTENDS ExtendedConfigCache, TLC

CONSTANTS r1, r2, b, c

Text(v, s) == [version |-> v, extends |-> s]
Only(s) == {Text(0, s)}
Either(s, t) == {Text(0, s), Text(0, t)}
Versions == {Text(0, <<>>), Text(1, <<>>)}

Texts4(t1, t2, tb, tc) == (r1 :> t1) @@ (r2 :> t2) @@ (b :> tb) @@ (c :> tc)

(* Two roots that reach c by way of b and directly; no request keeps an    *)
(* older snapshot.                                                         *)
Diamond == [texts |-> Texts4(Either(<<>>, <<b>>), Either(<<>>, <<c, b>>), Only(<<c>>), Versions),
            requests |-> 0]

(* One root that extends b or nothing; requests keep older snapshots.      *)
Flat == [texts |-> Texts4(Either(<<>>, <<b>>), Only(<<>>), Versions, Only(<<>>)), requests |-> 1]

(* The root extends b, and b extends itself by way of c.                   *)
Circle == [texts |-> Texts4(Either(<<>>, <<b>>), Only(<<>>), Only(<<c>>), Either(<<>>, <<b>>)),
           requests |-> 0]

AllWorlds == {Diamond, Flat}
Circular == {Circle}
=============================================================================
