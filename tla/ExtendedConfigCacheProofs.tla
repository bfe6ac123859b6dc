--------------------- MODULE ExtendedConfigCacheProofs ---------------------
(***************************************************************************)
(* Proof that parsing with the cache of extended configurations yields     *)
(* what parsing without it does, for every set of files, roots, requests   *)
(* and entries and every order of edits, parsers and releases, as long as  *)
(* no file extends itself by way of others.                                *)
(***************************************************************************)
EXTENDS ExtendedConfigCache, FiniteSetTheorems, TLAPS

(* Most steps are first-order reasoning about sets, functions and records, *)
(* which is Zenon's; those with arithmetic in them cite SMT.               *)
USE Zenon

Last(s) == s[Len(s)]
Front(s) == SubSeq(s, 1, Len(s) - 1)

(* No file extends itself, directly or by way of others.                   *)
Ranks(rank) ==
    rank \in [Files -> Nat] /\ \A f \in Files : \A g \in Range(files[f].extends) : rank[g] < rank[f]
Acyclic == \E rank \in [Files -> Nat] : Ranks(rank)

(* What parsing f yields: texts, with all that they extend; and of these   *)
(* files.                                                                  *)
Closed(v, f) == f \in DOMAIN v /\ \A g \in DOMAIN v : Range(v[g].extends) \subseteq DOMAIN v
Fresh(v, f, fs) == Closed(v, f) /\ \A g \in DOMAIN v : v[g] = fs[g]

Frames == [path : Files, entry : Objects \cup {None}, acc : Values, todo : Seq(Configs)]
CloneFields == {"pc", "id", "fs", "cmds", "pending", "todo", "loaded"}
JobFields == {"snapshot", "id", "todo", "loaded"}

CloneShape ==
    /\ DOMAIN clone = CloneFields /\ clone.pc \in {"idle", "parse", "own"}
    /\ clone.fs = files /\ clone.cmds \in [Roots -> Values] /\ clone.pending \in SUBSET Roots
JobShape ==
    /\ DOMAIN job = Procs
    /\ \A p \in Procs : /\ DOMAIN job[p] = JobFields /\ job[p].snapshot \in Ids \cup {None}
                        /\ job[p].todo # <<>> => job[p].snapshot = None
Shape ==
    /\ world \in Worlds /\ files \in [Files -> Texts]
    /\ entries \in [Configs -> Objects \cup {None}]
    /\ heap \in [Objects -> [owners : SUBSET Ids, value : Values \cup {None}, mu : Roots \cup {None}]]
    /\ snapshots \in [Ids -> SnapshotsOf(world) \cup {None}]
    /\ current \in Ids
    /\ parser \in [Roots -> [frames : Seq(Frames), waitsFor : Objects \cup {None}]]
    /\ CloneShape /\ JobShape

(* A frame has parsed what its file extends but for what is to do.         *)
FrameOK(fr) ==
    /\ fr.path \in DOMAIN fr.acc
    /\ \A g \in DOMAIN fr.acc : /\ fr.acc[g] = files[g]
                                /\ g # fr.path => Range(files[g].extends) \subseteq DOMAIN fr.acc
    /\ Range(files[fr.path].extends) \subseteq DOMAIN fr.acc \cup Range(fr.todo)
    /\ Range(fr.todo) \subseteq Range(files[fr.path].extends)

(* Each frame parses the next file of the frame below, so that no file is  *)
(* there twice.                                                            *)
GoodStack(r, s) ==
    /\ s \in Seq(Frames)
    /\ \A k \in DOMAIN s : FrameOK(s[k])
    /\ 1 \in DOMAIN s => s[1].path = r
    /\ \A k \in DOMAIN s : k # 1 =>
          s[k].entry \in Objects /\ s[k - 1].todo # <<>> /\ Head(s[k - 1].todo) = s[k].path
    /\ \A rank : Ranks(rank) => \A j, k \in DOMAIN s : j < k => rank[s[k].path] < rank[s[j].path]
StacksOK == \A r \in Roots : GoodStack(r, parser[r].frames)

(* What an entry is the entry of, to the map, to those who wait for its    *)
(* lock and to those who parse it.  They agree, though entries leave the   *)
(* map and their memory is used again.                                     *)
WaitKey(r, o, f) == parser[r].waitsFor = o /\ Head(Last(parser[r].frames).todo) = f
ParseKey(r, o, f) ==
    \E k \in DOMAIN parser[r].frames : parser[r].frames[k].entry = o /\ parser[r].frames[k].path = f
Key(o, f) ==
    \/ f \in Configs /\ entries[f] = o
    \/ \E r \in Roots : WaitKey(r, o, f) \/ ParseKey(r, o, f)
KeysOK == \A o \in Objects : \A f, g : Key(o, f) /\ Key(o, g) => f = g
ValuesOK == ~panicked => \A o \in Objects : \A f : Key(o, f) /\ heap[o].owners # {} =>
                               heap[o].value \in Values /\ Closed(heap[o].value, f)

(* Configurations are parsed only in a clone; a clone that has parsed all  *)
(* is fresh.                                                               *)
CloneOK ==
    /\ clone.pc # "parse" => \A r \in Roots : parser[r] = Parked
    /\ panicked => clone.pc = "own"
    /\ \A r \in Roots : parser[r].waitsFor # None =>
          parser[r].frames # <<>> /\ Last(parser[r].frames).todo # <<>>
    /\ clone.pc # "idle" =>
          /\ clone.id \in Ids /\ snapshots[clone.id] = None
          /\ \A r \in Roots \ clone.pending : parser[r].frames = <<>> => Fresh(clone.cmds[r], r, files)

SnapshotsOK ==
    \A i \in Ids : snapshots[i] # None =>
        \A r \in Roots \ snapshots[i].pending : Fresh(snapshots[i].cmds[r], r, snapshots[i].fs)

(* The references to a snapshot are the session's and those of requests.   *)
Holders(i) == {q \in Requests : job[q].snapshot = i} \cup (IF i = current THEN {Updater} ELSE {})
RefsOK ==
    /\ \A i \in Ids : Holders(i) # {} => snapshots[i] # None /\ snapshots[i].refs = Cardinality(Holders(i))
    /\ job[Updater].snapshot = None

(* The inductive invariant.                                                *)
IInv == Shape /\ StacksOK /\ KeysOK /\ ValuesOK /\ CloneOK /\ SnapshotsOK /\ RefsOK

----------------------------------------------------------------------------
(* Sequences and values *)

(* A list of files is its head and the rest.                               *)
LEMMA ListFacts ==
    ASSUME NEW C, NEW s \in Seq(C), s # <<>>
    PROVE  /\ Head(s) \in C /\ Tail(s) \in Seq(C) /\ Head(s) \in Range(s)
           /\ Range(s) \subseteq C /\ Range(Tail(s)) \subseteq Range(s)
           /\ Range(s) \subseteq {Head(s)} \cup Range(Tail(s))
<1>1. PICK t, h : t = Tail(s) /\ h = Head(s)
  OBVIOUS
<1>2. /\ h \in C /\ t \in Seq(C) /\ 1 \in DOMAIN s /\ s[1] = h
      /\ \A k \in DOMAIN s : s[k] \in C /\ (k = 1 \/ (k - 1 \in DOMAIN t /\ s[k] = t[k - 1]))
      /\ \A k \in DOMAIN t : k + 1 \in DOMAIN s /\ t[k] = s[k + 1]
  BY <1>1, SMT
<1>3. Range(s) \subseteq {h} \cup Range(t)
  <2>1. ASSUME NEW k \in DOMAIN s
        PROVE  s[k] \in {h} \cup {t[i] : i \in DOMAIN t}
    <3>1. CASE k = 1
      BY <1>2, <3>1
    <3>2. CASE k - 1 \in DOMAIN t /\ s[k] = t[k - 1]
      BY <3>2
    <3> QED
      BY <1>2, <2>1, <3>1, <3>2
  <2> QED
    BY <2>1 DEF Range
<1>4. Range(t) \subseteq Range(s)
  <2>1. \A k \in DOMAIN t : t[k] \in {s[i] : i \in DOMAIN s}
    BY <1>2
  <2> QED
    BY <2>1 DEF Range
<1>5. h \in Range(s) /\ Range(s) \subseteq C
  BY <1>2 DEF Range
<1> QED
  BY <1>1, <1>2, <1>3, <1>4, <1>5

(* Nothing is in the empty list.                                           *)
LEMMA EmptyList == Range(<<>>) = {}
<1>1. DOMAIN <<>> = {}
  BY SMT
<1> QED
  BY <1>1 DEF Range

(* The last element of a sequence.                                         *)
LEMMA LastFacts ==
    ASSUME NEW X, NEW s \in Seq(X), s # <<>>
    PROVE  /\ Last(s) = s[Len(s)] /\ Last(s) \in X /\ Len(s) \in DOMAIN s /\ 1 \in DOMAIN s
           /\ \A k \in DOMAIN s : k # Len(s) => k < Len(s)
           /\ \A k \in DOMAIN s : s[k] \in X
<1>1. s[Len(s)] \in X /\ Len(s) \in DOMAIN s /\ 1 \in DOMAIN s
  BY SMT
<1>2. \A k \in DOMAIN s : k # Len(s) => k < Len(s)
  BY SMT
<1>3. \A k \in DOMAIN s : s[k] \in X
  BY SMT
<1> QED
  BY <1>1, <1>2, <1>3 DEF Last

(* Texts extend lists of files that are no roots.                          *)
LEMMA TextFacts ==
    ASSUME Shape
    PROVE  \A f \in Files : files[f] \in Texts /\ files[f].extends \in Seq(Configs)
<1>1. \A t \in Texts : t.extends \in Seq(Configs)
  <2>1. world \in Worlds
    BY DEF Shape
  <2>2. \A f \in Files : \A t \in world.texts[f] : t.extends \in Seq(Configs)
    BY <2>1, ConfigAssumption
  <2> QED
    BY <2>2 DEF Texts, TextsOf
<1> QED
  BY <1>1 DEF Shape

(* Values are functions from files to texts, and merging gives one.        *)
LEMMA MergeFacts ==
    ASSUME NEW v \in Values, NEW w \in Values
    PROVE  /\ Merge(v, w) \in Values /\ DOMAIN Merge(v, w) = DOMAIN v \cup DOMAIN w
           /\ \A f \in DOMAIN v : Merge(v, w)[f] = v[f]
           /\ \A f \in DOMAIN w \ DOMAIN v : Merge(v, w)[f] = w[f]
<1>1. PICK S \in SUBSET Files, T \in SUBSET Files : v \in [S -> Texts] /\ w \in [T -> Texts]
  BY DEF Values, ValuesOf, Texts
<1>2. Merge(v, w) \in [S \cup T -> Texts]
  BY <1>1 DEF Merge
<1>3. S \cup T \in SUBSET Files
  BY <1>1
<1>4. Merge(v, w) \in Values
  BY <1>2, <1>3 DEF Values, ValuesOf, Texts
<1> QED
  BY <1>4 DEF Merge

(* The call for the next file of a frame returns.                          *)
LEMMA ReturnedOK ==
    ASSUME NEW fr \in Frames, FrameOK(fr), fr.todo # <<>>, NEW v \in Values, Fresh(v, Head(fr.todo), files)
    PROVE  LET new == Returned(fr, v)
           IN  new \in Frames /\ FrameOK(new) /\ new.path = fr.path /\ new.entry = fr.entry
<1>1. PICK new, m : new = Returned(fr, v) /\ m = Merge(fr.acc, v)
  OBVIOUS
<1>2. fr.todo \in Seq(Configs) /\ fr.acc \in Values /\ fr.path \in Files
  BY DEF Frames
<1>3. /\ Tail(fr.todo) \in Seq(Configs)
      /\ Range(Tail(fr.todo)) \subseteq Range(fr.todo)
      /\ Range(fr.todo) \subseteq {Head(fr.todo)} \cup Range(Tail(fr.todo))
  BY <1>2, ListFacts
<1>4. /\ m \in Values /\ DOMAIN m = DOMAIN fr.acc \cup DOMAIN v
      /\ \A f \in DOMAIN fr.acc : m[f] = fr.acc[f]
      /\ \A f \in DOMAIN v \ DOMAIN fr.acc : m[f] = v[f]
  BY <1>1, <1>2, MergeFacts
<1>5. new = [fr EXCEPT !.acc = m, !.todo = Tail(fr.todo)]
  BY <1>1 DEF Returned
<1>6. new \in Frames /\ new.acc = m /\ new.todo = Tail(fr.todo) /\ new.path = fr.path /\ new.entry = fr.entry
  BY <1>2, <1>3, <1>4, <1>5 DEF Frames
<1>7. ASSUME NEW g \in DOMAIN m
      PROVE  m[g] = files[g] /\ (g # fr.path => Range(files[g].extends) \subseteq DOMAIN m)
  <2>1. CASE g \in DOMAIN fr.acc
    BY <1>4, <2>1 DEF FrameOK
  <2>2. CASE g \in DOMAIN v \ DOMAIN fr.acc
    BY <1>4, <2>2 DEF Fresh, Closed
  <2> QED
    BY <1>4, <1>7, <2>1, <2>2
<1>8. Range(files[fr.path].extends) \subseteq DOMAIN m \cup Range(Tail(fr.todo))
  BY <1>3, <1>4 DEF FrameOK, Fresh, Closed
<1>9. fr.path \in DOMAIN m /\ Range(Tail(fr.todo)) \subseteq Range(files[fr.path].extends)
  BY <1>3, <1>4 DEF FrameOK
<1>10. FrameOK(new)
  BY <1>6, <1>7, <1>8, <1>9 DEF FrameOK
<1> QED
  BY <1>1, <1>6, <1>10

(* A frame with nothing to do has the value of its file.                   *)
LEMMA DoneFresh ==
    ASSUME NEW fr \in Frames, FrameOK(fr), fr.todo = <<>>
    PROVE  Fresh(fr.acc, fr.path, files)
<1>1. Range(fr.todo) = {}
  BY EmptyList
<1>2. \A g \in DOMAIN fr.acc : fr.acc[g] = files[g] /\ Range(files[g].extends) \subseteq DOMAIN fr.acc
  BY <1>1 DEF FrameOK
<1> QED
  BY <1>2 DEF FrameOK, Fresh, Closed

(* A new frame has the text of its file and all of its list to do.         *)
LEMMA StartOK ==
    ASSUME Shape, NEW f \in Files, NEW o \in Objects \cup {None}, NEW s,
           \A k \in DOMAIN s : s[k].path # f, NEW new, new = Frame(f, o, files, s)
    PROVE  new \in Frames /\ FrameOK(new) /\ new.path = f /\ new.entry = o
<1>1. PICK a : a = [g \in {f} |-> files[f]]
  OBVIOUS
<1>2. new = [path |-> f, entry |-> o, acc |-> a, todo |-> files[f].extends]
  BY <1>1 DEF Frame
<1>4. files[f] \in Texts /\ files[f].extends \in Seq(Configs)
  BY TextFacts
<1>5. a \in Values
  <2>1. a \in [{f} -> Texts] /\ {f} \in SUBSET Files
    BY <1>1, <1>4
  <2> QED
    BY <2>1 DEF Values, ValuesOf, Texts
<1>6. new \in Frames /\ new.path = f /\ new.entry = o /\ new.acc = a /\ new.todo = files[f].extends
  BY <1>2, <1>4, <1>5, SMT DEF Frames
<1>7. DOMAIN a = {f} /\ a[f] = files[f]
  BY <1>1
<1>8. FrameOK(new)
  BY <1>6, <1>7 DEF FrameOK
<1> QED
  BY <1>6, <1>8

----------------------------------------------------------------------------
(* Stacks *)

(* t is the value of an expression.                                        *)
Named(t, e) == t = e

(* The shape of a longer, a changed and a shorter stack.                   *)
LEMMA AppendShape ==
    ASSUME NEW X, NEW s \in Seq(X), NEW x \in X, NEW t, Named(t, Append(s, x))
    PROVE  /\ t \in Seq(X) /\ t # <<>> /\ Last(t) = x /\ Len(t) \notin DOMAIN s
           /\ DOMAIN t = DOMAIN s \cup {Len(t)} /\ t[Len(t)] = x
           /\ \A k \in DOMAIN s : t[k] = s[k] /\ k < Len(t) /\ ~(Len(t) < k)
           /\ Len(t) - 1 = Len(s) /\ ~(Len(t) < Len(t)) /\ (s # <<>> => Len(t) # 1)
           /\ \A k \in DOMAIN s : k # 1 => k - 1 \in DOMAIN s
<1>1. t = Append(s, x)
  BY DEF Named
<1>2. /\ t \in Seq(X) /\ t # <<>> /\ t[Len(t)] = x /\ Len(t) \notin DOMAIN s
      /\ DOMAIN t = DOMAIN s \cup {Len(t)}
      /\ Len(t) - 1 = Len(s) /\ ~(Len(t) < Len(t)) /\ (s # <<>> => Len(t) # 1)
  BY <1>1, SMT
<1>3. \A k \in DOMAIN s : t[k] = s[k] /\ k < Len(t) /\ ~(Len(t) < k)
  BY <1>1, SMT
<1>4. \A k \in DOMAIN s : k # 1 => k - 1 \in DOMAIN s
  BY SMT
<1> QED
  BY <1>1, <1>2, <1>3, <1>4 DEF Last

LEMMA ChangeShape ==
    ASSUME NEW X, NEW s \in Seq(X), s # <<>>, NEW x \in X, NEW t, t = [s EXCEPT ![Len(s)] = x]
    PROVE  /\ t \in Seq(X) /\ t # <<>> /\ DOMAIN t = DOMAIN s /\ t[Len(s)] = x
           /\ \A k \in DOMAIN s : k # Len(s) => t[k] = s[k]
           /\ \A k \in DOMAIN s : k # 1 => k - 1 \in DOMAIN s /\ k - 1 # Len(s)
<1>1. PICK n : n = Len(s)
  OBVIOUS
<1>2. n \in Nat /\ n \in DOMAIN s /\ s \in [1 .. n -> X] /\ DOMAIN s = 1 .. n
  BY <1>1, SMT
<1>3. t = [s EXCEPT ![n] = x]
  BY <1>1
<1>4. t \in [1 .. n -> X] /\ DOMAIN t = DOMAIN s /\ t[n] = x /\ \A k \in DOMAIN s : k # n => t[k] = s[k]
  BY <1>2, <1>3
<1>5. t \in Seq(X) /\ t # <<>>
  <2>1. \A f \in [1 .. n -> X] : f \in Seq(X)
    BY <1>2, SMT
  <2>2. DOMAIN <<>> = {}
    BY SMT
  <2> QED
    BY <1>2, <1>4, <2>1, <2>2
<1>6. \A k \in DOMAIN s : k # 1 => k - 1 \in DOMAIN s /\ k - 1 # n
  BY <1>2, SMT
<1> QED
  BY <1>1, <1>3, <1>4, <1>5, <1>6

LEMMA FrontShape ==
    ASSUME NEW X, NEW s \in Seq(X), Len(s) > 1, NEW t, t = Front(s)
    PROVE  /\ t \in Seq(X) /\ t # <<>> /\ Len(t) = Len(s) - 1 /\ Last(t) = s[Len(s) - 1]
           /\ s # <<>> /\ Len(s) \in DOMAIN s /\ Len(s) # 1
           /\ \A k \in DOMAIN t : k \in DOMAIN s /\ t[k] = s[k] /\ (k # 1 => k - 1 \in DOMAIN t)
<1>1. PICK n : n = Len(s)
  OBVIOUS
<1>2. t = SubSeq(s, 1, n - 1) /\ n \in Nat /\ n > 1
  BY <1>1, SMT DEF Front
<1>3. /\ t \in Seq(X) /\ t # <<>> /\ Len(t) = n - 1 /\ t[n - 1] = s[n - 1]
      /\ s # <<>> /\ n \in DOMAIN s /\ n # 1
  <2>1. s # <<>> /\ n \in DOMAIN s /\ n # 1 /\ n - 1 \in 1 .. Len(s)
    BY <1>1, <1>2, SMT
  <2>2. t \in Seq(X) /\ Len(t) = n - 1
    BY <1>1, <1>2, <2>1, SMT
  <2>3. Len(t) # 0 /\ Len(<<>>) = 0
    BY <1>2, <2>2, SMT
  <2>4. t[n - 1] = s[n - 1]
    BY <1>1, <1>2, <2>1, SMT
  <2> QED
    BY <2>1, <2>2, <2>3, <2>4
<1>4. \A k \in DOMAIN t : k \in DOMAIN s /\ t[k] = s[k] /\ (k # 1 => k - 1 \in DOMAIN t)
  BY <1>1, <1>2, SMT
<1>5. Last(t) = s[n - 1]
  BY <1>3 DEF Last
<1> QED
  BY <1>1, <1>3, <1>4, <1>5

(* The stack with a frame for f.                                           *)
Pushed(s, f, o) == Append(s, Frame(f, o, files, s))
Grown(t, s, f, o) ==
    /\ t # <<>>
    /\ \A k \in DOMAIN t : (k \in DOMAIN s /\ t[k] = s[k]) \/ (t[k].path = f /\ t[k].entry = o)

(* A file that the top frame has to do is not on the stack: it can be      *)
(* parsed in a frame of its own, with all that it extends.                 *)
LEMMA StackPush ==
    ASSUME Shape, Acyclic, NEW r, NEW s, GoodStack(r, s), s # <<>>, Last(s).todo # <<>>, NEW o \in Objects,
           NEW f, Named(f, Head(Last(s).todo))
    PROVE  GoodStack(r, Pushed(s, f, o)) /\ Grown(Pushed(s, f, o), s, f, o)
<1>1. PICK fr, n, new, t : /\ fr = Last(s) /\ n = Len(s) /\ f = Head(Last(s).todo)
                           /\ new = Frame(f, o, files, s) /\ t = Append(s, new)
  BY DEF Named
<1>2. s \in Seq(Frames) /\ fr \in Frames /\ n \in DOMAIN s /\ s[n] = fr /\ FrameOK(fr) /\ 1 \in DOMAIN s
  BY <1>1, LastFacts DEF GoodStack
<1>3. f \in Range(fr.todo) /\ f \in Configs /\ f \in Files
  BY <1>1, <1>2, ListFacts DEF Frames, Files
<1>4. f \in Range(files[fr.path].extends) /\ fr.path \in Files
  BY <1>2, <1>3 DEF FrameOK, Frames
<1>5. ASSUME NEW rank, Ranks(rank), NEW k \in DOMAIN s
      PROVE  rank[f] < rank[s[k].path]
  <2>1. rank[f] < rank[fr.path]
    BY <1>4, <1>5 DEF Ranks
  <2>2. CASE k = n
    BY <1>2, <2>1, <2>2
  <2>3. CASE k # n
    <3>1. k < n
      BY <1>1, <1>2, <1>5, <2>3, LastFacts
    <3>2. rank[fr.path] < rank[s[k].path]
      BY <1>2, <1>5, <3>1 DEF GoodStack
    <3>3. s[k] \in Frames
      BY <1>2, <1>5, LastFacts, <1>1
    <3>4. rank[f] \in Nat /\ rank[fr.path] \in Nat /\ rank[s[k].path] \in Nat
      BY <1>3, <1>4, <1>5, <3>3 DEF Ranks, Frames
    <3> QED
      BY <2>1, <3>2, <3>4, SMT
  <2> QED
    BY <2>2, <2>3
<1>6. \A k \in DOMAIN s : s[k].path # f
  <2>1. PICK rank \in [Files -> Nat] : Ranks(rank)
    BY DEF Acyclic
  <2>2. rank[f] \in Nat
    BY <1>3, <2>1
  <2>3. ~(rank[f] < rank[f])
    BY <2>2, SMT
  <2> QED
    BY <1>5, <2>1, <2>3
<1>7. new \in Frames /\ FrameOK(new) /\ new.path = f /\ new.entry = o
  BY <1>1, <1>3, <1>6, StartOK, SMT
<1>8. /\ t \in Seq(Frames) /\ t # <<>> /\ Last(t) = new /\ Len(t) \notin DOMAIN s
      /\ DOMAIN t = DOMAIN s \cup {Len(t)} /\ t[Len(t)] = new
      /\ \A k \in DOMAIN s : t[k] = s[k] /\ k < Len(t) /\ ~(Len(t) < k)
      /\ Len(t) - 1 = n /\ ~(Len(t) < Len(t)) /\ Len(t) # 1
      /\ \A k \in DOMAIN s : k # 1 => k - 1 \in DOMAIN s
  <2>1. Named(t, Append(s, new))
    BY <1>1 DEF Named
  <2>2. /\ t \in Seq(Frames) /\ t # <<>> /\ Last(t) = new /\ Len(t) \notin DOMAIN s
        /\ DOMAIN t = DOMAIN s \cup {Len(t)} /\ t[Len(t)] = new
        /\ \A k \in DOMAIN s : t[k] = s[k] /\ k < Len(t) /\ ~(Len(t) < k)
        /\ Len(t) - 1 = Len(s) /\ ~(Len(t) < Len(t)) /\ (s # <<>> => Len(t) # 1)
        /\ \A k \in DOMAIN s : k # 1 => k - 1 \in DOMAIN s
    BY <1>2, <1>7, <2>1, AppendShape
  <2> QED
    BY <1>1, <2>2
<1>9. \A k \in DOMAIN t : FrameOK(t[k])
  BY <1>7, <1>8 DEF GoodStack
<1>10. t[1].path = r
  BY <1>2, <1>8 DEF GoodStack
<1>11. ASSUME NEW k \in DOMAIN t, k # 1
       PROVE  t[k].entry \in Objects /\ t[k - 1].todo # <<>> /\ Head(t[k - 1].todo) = t[k].path
  <2>1. CASE k \in DOMAIN s
    BY <1>8, <1>11, <2>1 DEF GoodStack
  <2>2. CASE k = Len(t)
    BY <1>1, <1>2, <1>7, <1>8, <2>2
  <2> QED
    BY <1>8, <1>11, <2>1, <2>2
<1>12. ASSUME NEW rank, Ranks(rank), NEW j \in DOMAIN t, NEW k \in DOMAIN t, j < k
       PROVE  rank[t[k].path] < rank[t[j].path]
  <2>1. CASE k \in DOMAIN s
    <3>1. j \in DOMAIN s
      BY <1>8, <1>12, <2>1
    <3> QED
      BY <1>8, <1>12, <2>1, <3>1 DEF GoodStack
  <2>2. CASE k = Len(t)
    <3>1. j \in DOMAIN s
      BY <1>8, <1>12, <2>2
    <3> QED
      BY <1>5, <1>7, <1>8, <1>12, <2>2, <3>1
  <2> QED
    BY <1>8, <1>12, <2>1, <2>2
<1>13. GoodStack(r, t)
  BY <1>8, <1>9, <1>10, <1>11, <1>12 DEF GoodStack
<1>14. \A k \in DOMAIN t : \/ k \in DOMAIN s /\ t[k] = s[k]
                           \/ t[k].path = f /\ t[k].entry = o
  BY <1>7, <1>8
<1>15. t = Pushed(s, f, o)
  BY <1>1 DEF Pushed
<1> QED
  BY <1>8, <1>13, <1>14, <1>15 DEF Grown

(* The call that the top frame made returns.                               *)
LEMMA StackReturn ==
    ASSUME NEW r, NEW s, GoodStack(r, s), s # <<>>, Last(s).todo # <<>>,
           NEW v \in Values, NEW f, f = Head(Last(s).todo), Fresh(v, f, files)
    PROVE  /\ GoodStack(r, ReturnTo(s, v)) /\ ReturnTo(s, v) # <<>>
           /\ \A k \in DOMAIN ReturnTo(s, v) :
                 /\ k \in DOMAIN s
                 /\ ReturnTo(s, v)[k].path = s[k].path /\ ReturnTo(s, v)[k].entry = s[k].entry
<1>1. PICK n, fr, new, t : n = Len(s) /\ fr = s[n] /\ new = Returned(fr, v) /\ t = [s EXCEPT ![n] = new]
  OBVIOUS
<1>2. /\ s \in Seq(Frames) /\ Last(s) = fr /\ fr \in Frames /\ n \in DOMAIN s /\ FrameOK(fr) /\ 1 \in DOMAIN s
  BY <1>1, LastFacts DEF GoodStack
<1>3. new \in Frames /\ FrameOK(new) /\ new.path = fr.path /\ new.entry = fr.entry
  BY <1>1, <1>2, ReturnedOK
<1>4. /\ t \in Seq(Frames) /\ t # <<>> /\ DOMAIN t = DOMAIN s /\ t[n] = new
      /\ \A k \in DOMAIN s : k # n => t[k] = s[k]
      /\ \A k \in DOMAIN s : k # 1 => k - 1 \in DOMAIN s /\ k - 1 # n
  BY <1>1, <1>2, <1>3, ChangeShape, SMT
<1>5. \A k \in DOMAIN t : FrameOK(t[k]) /\ t[k].path = s[k].path /\ t[k].entry = s[k].entry
  BY <1>1, <1>3, <1>4 DEF GoodStack
<1>6. ASSUME NEW k \in DOMAIN t, k # 1
      PROVE  t[k].entry \in Objects /\ t[k - 1].todo # <<>> /\ Head(t[k - 1].todo) = t[k].path
  <2>1. t[k - 1] = s[k - 1] /\ k \in DOMAIN s
    BY <1>4, <1>6
  <2> QED
    BY <1>5, <1>6, <2>1 DEF GoodStack
<1>7. t[1].path = r
  BY <1>2, <1>4, <1>5 DEF GoodStack
<1>8. \A rank : Ranks(rank) => \A j, k \in DOMAIN t : j < k => rank[t[k].path] < rank[t[j].path]
  BY <1>4, <1>5 DEF GoodStack
<1>9. GoodStack(r, t)
  BY <1>4, <1>5, <1>6, <1>7, <1>8 DEF GoodStack
<1>10. t = ReturnTo(s, v)
  BY <1>1 DEF ReturnTo
<1> QED
  BY <1>4, <1>5, <1>9, <1>10

(* The top frame goes.                                                     *)
LEMMA StackPop ==
    ASSUME NEW r, NEW s, GoodStack(r, s), Len(s) > 1
    PROVE  /\ GoodStack(r, Front(s)) /\ Front(s) # <<>> /\ s # <<>>
           /\ Last(Front(s)).todo # <<>> /\ Head(Last(Front(s)).todo) = Last(s).path
           /\ Last(s).entry \in Objects
           /\ \A k \in DOMAIN Front(s) : k \in DOMAIN s /\ Front(s)[k] = s[k]
<1>1. PICK n, t : n = Len(s) /\ t = Front(s)
  OBVIOUS
<1>2. s \in Seq(Frames)
  BY DEF GoodStack
<1>3. /\ t \in Seq(Frames) /\ t # <<>> /\ Len(t) = n - 1 /\ Last(t) = s[n - 1]
      /\ s # <<>> /\ n \in DOMAIN s /\ n # 1
      /\ \A k \in DOMAIN t : k \in DOMAIN s /\ t[k] = s[k] /\ (k # 1 => k - 1 \in DOMAIN t)
  BY <1>1, <1>2, FrontShape, SMT
<1>4. Last(s) = s[n]
  BY <1>1 DEF Last
<1>5. s[n].entry \in Objects /\ s[n - 1].todo # <<>> /\ Head(s[n - 1].todo) = s[n].path
  BY <1>3 DEF GoodStack
<1>6. \A k \in DOMAIN t : k # 1 =>
          t[k].entry \in Objects /\ t[k - 1].todo # <<>> /\ Head(t[k - 1].todo) = t[k].path
  BY <1>3 DEF GoodStack
<1>7. 1 \in DOMAIN t => t[1].path = r
  BY <1>3 DEF GoodStack
<1>8. (\A k \in DOMAIN t : FrameOK(t[k]))
      /\ \A rank : Ranks(rank) => \A j, k \in DOMAIN t : j < k => rank[t[k].path] < rank[t[j].path]
  BY <1>3 DEF GoodStack
<1>9. GoodStack(r, t)
  BY <1>3, <1>6, <1>7, <1>8 DEF GoodStack
<1> QED
  BY <1>1, <1>3, <1>4, <1>5, <1>9

(* A stack without frames is good.                                         *)
LEMMA EmptyStack == \A r : GoodStack(r, <<>>)
<1>1. DOMAIN <<>> = {} /\ <<>> \in Seq(Frames)
  BY SMT
<1> QED
  BY <1>1 DEF GoodStack

----------------------------------------------------------------------------
(* Parsing *)

Parsers == [frames : Seq(Frames), waitsFor : Objects \cup {None}]
Heaps == [Objects -> [owners : SUBSET Ids, value : Values \cup {None}, mu : Roots \cup {None}]]

(* What is said of a stack is about the files only.                        *)
LEMMA StackSame ==
    ASSUME UNCHANGED <<files, world>>, NEW r, NEW s, GoodStack(r, s)
    PROVE  GoodStack(r, s)'
<1>1. Frames' = Frames
  BY DEF Frames, Values
<1>2. \A rank : Ranks(rank)' <=> Ranks(rank)
  BY DEF Ranks
<1>3. \A k \in DOMAIN s : FrameOK(s[k])'
  BY DEF GoodStack, FrameOK
<1> QED
  BY <1>1, <1>2, <1>3 DEF GoodStack

(* The record of a parser of which one field changes.                      *)
LEMMA ParserForms ==
    ASSUME NEW x \in Parsers, NEW t, NEW w
    PROVE  /\ [x EXCEPT !.frames = t] = [frames |-> t, waitsFor |-> x.waitsFor]
           /\ [x EXCEPT !.waitsFor = w] = [frames |-> x.frames, waitsFor |-> w]
           /\ x.frames \in Seq(Frames) /\ x.waitsFor \in Objects \cup {None}
<1>1. PICK S, O : S = Seq(Frames) /\ O = Objects \cup {None}
  OBVIOUS
<1>2. x \in [frames : S, waitsFor : O]
  BY <1>1 DEF Parsers
<1> QED
  BY <1>1, <1>2, SMT

(* The parser of one root moves.                                           *)
LEMMA ParserMove ==
    ASSUME IInv, UNCHANGED <<files, snapshots, current, clone, job, panicked, world>>,
           NEW r \in Roots, NEW t, NEW w \in Objects \cup {None}, parser[r].frames # <<>>,
           parser' = [parser EXCEPT ![r] = [frames |-> t, waitsFor |-> w]],
           GoodStack(r, t), t # <<>>, w # None => Last(t).todo # <<>>,
           entries' \in [Configs -> Objects \cup {None}], heap' \in Heaps
    PROVE  /\ Shape' /\ StacksOK' /\ CloneOK' /\ SnapshotsOK' /\ RefsOK'
           /\ parser'[r].frames = t /\ parser'[r].waitsFor = w
           /\ \A q \in Roots : q # r => parser'[q] = parser[q]
<1>1. PICK x : x = [frames |-> t, waitsFor |-> w]
  OBVIOUS
<1>2. t \in Seq(Frames)
  BY DEF GoodStack
<1>3. x \in Parsers /\ x.frames = t /\ x.waitsFor = w
  BY <1>1, <1>2 DEF Parsers
<1>4. parser \in [Roots -> Parsers]
  BY DEF IInv, Shape, Parsers
<1>5. parser' \in [Roots -> Parsers] /\ parser'[r] = x /\ \A q \in Roots : q # r => parser'[q] = parser[q]
  BY <1>1, <1>3, <1>4
<1>6. Frames' = Frames /\ Values' = Values /\ Texts' = Texts
  BY DEF Frames, Values, Texts
<1>7. CloneShape' /\ JobShape'
  BY <1>6 DEF IInv, Shape, CloneShape, JobShape
<1>8. Shape'
  BY <1>5, <1>6, <1>7 DEF IInv, Shape, Parsers, Heaps
<1>9. ASSUME NEW q \in Roots
      PROVE  GoodStack(q, parser[q].frames)'
  <2>1. PICK s : s = parser'[q].frames
    OBVIOUS
  <2>2. GoodStack(q, s)
    BY <1>3, <1>5, <2>1 DEF IInv, StacksOK
  <2>3. GoodStack(q, s)'
    BY <2>2, StackSame
  <2> QED
    BY <2>1, <2>3
<1>10. StacksOK'
  BY <1>9 DEF StacksOK
<1>11. clone.pc = "parse"
  <2>1. Parked.frames = <<>>
    BY DEF Parked
  <2> QED
    BY <2>1 DEF IInv, CloneOK
<1>12. ASSUME NEW q \in Roots, parser'[q].waitsFor # None
       PROVE  parser'[q].frames # <<>> /\ Last(parser'[q].frames).todo # <<>>
  BY <1>3, <1>5, <1>12 DEF IInv, CloneOK
<1>13. ASSUME NEW q \in Roots \ clone.pending, parser'[q].frames = <<>>
       PROVE  Fresh(clone.cmds[q], q, files)
  BY <1>3, <1>5, <1>11, <1>13 DEF IInv, CloneOK
<1>14. /\ clone'.pc = "parse" /\ ~panicked' /\ clone'.id \in Ids /\ snapshots'[clone'.id] = None
  BY <1>11 DEF IInv, CloneOK
<1>15. CloneOK'
  BY <1>12, <1>13, <1>14 DEF CloneOK
<1>16. SnapshotsOK'
  BY DEF IInv, SnapshotsOK
<1>17. RefsOK'
  BY DEF IInv, RefsOK, Holders
<1> QED
  BY <1>3, <1>5, <1>8, <1>10, <1>15, <1>16, <1>17

(* No entry becomes that of a file, and none is changed that has an owner. *)
LEMMA KeysKeep ==
    ASSUME IInv, panicked' = panicked, world' = world,
           \A o \in Objects : \A f : Key(o, f)' => Key(o, f),
           \A o \in Objects : heap'[o].owners # {} => heap[o].owners # {} /\ heap'[o].value = heap[o].value
    PROVE  KeysOK' /\ ValuesOK'
<1>1. Values' = Values
  BY DEF Values
<1>2. KeysOK'
  BY DEF IInv, KeysOK
<1>3. ASSUME ~panicked', NEW o \in Objects, NEW f, Key(o, f)', heap'[o].owners # {}
      PROVE  heap'[o].value \in Values' /\ Closed(heap'[o].value, f)
  <2>1. Key(o, f) /\ ~panicked /\ heap[o].owners # {} /\ heap'[o].value = heap[o].value
    BY <1>3
  <2>2. heap[o].value \in Values /\ Closed(heap[o].value, f)
    BY <2>1 DEF IInv, ValuesOK
  <2> QED
    BY <1>1, <2>1, <2>2
<1>4. ValuesOK'
  BY <1>3 DEF ValuesOK
<1> QED
  BY <1>2, <1>4

(* Only what one parser waits for and parses changes.                      *)
LEMMA KeyMove ==
    ASSUME entries' = entries, NEW r \in Roots, \A q \in Roots : q # r => parser'[q] = parser[q], NEW o, NEW f,
           WaitKey(r, o, f)' => Key(o, f), ParseKey(r, o, f)' => Key(o, f), Key(o, f)'
    PROVE  Key(o, f)
<1>1. CASE f \in Configs /\ entries'[f] = o
  BY <1>1 DEF Key
<1>2. CASE \E q \in Roots : WaitKey(q, o, f)' \/ ParseKey(q, o, f)'
  <2>1. PICK q \in Roots : WaitKey(q, o, f)' \/ ParseKey(q, o, f)'
    BY <1>2
  <2>2. CASE q = r
    BY <2>1, <2>2
  <2>3. CASE q # r
    <3>1. WaitKey(q, o, f) \/ ParseKey(q, o, f)
      BY <2>1, <2>3 DEF WaitKey, ParseKey
    <3> QED
      BY <3>1 DEF Key
  <2> QED
    BY <2>2, <2>3
<1> QED
  BY <1>1, <1>2 DEF Key

(* LoadOrStore finds an entry, whose lock the parser then waits for, or    *)
(* stores a new one and parses it.                                         *)
LEMMA StepLoadOrStore ==
    ASSUME IInv, Acyclic, NEW r \in Roots, LoadOrStore(r), world' = world
    PROVE  IInv'
<1>1. PICK s, f, x : s = parser[r].frames /\ f = Head(Last(s).todo) /\ x = parser[r]
  OBVIOUS
<1>2. /\ s # <<>> /\ x.waitsFor = None /\ Last(s).todo # <<>> /\ GoodStack(r, s)
      /\ UNCHANGED <<files, snapshots, current, clone, job, panicked, world>>
  BY <1>1 DEF LoadOrStore, Top, Last, IInv, StacksOK
<1>3. parser \in [Roots -> Parsers] /\ x \in Parsers /\ x.frames = s
  BY <1>1 DEF IInv, Shape, Parsers
<1>4. heap \in Heaps /\ entries \in [Configs -> Objects \cup {None}] /\ None \notin Objects
  BY ConfigAssumption DEF IInv, Shape, Heaps
<1>5. f \in Configs
  <2>1. Last(s) \in Frames
    BY <1>1, <1>2, LastFacts DEF GoodStack
  <2>2. Last(s).todo \in Seq(Configs)
    BY <2>1 DEF Frames
  <2> QED
    BY <1>1, <1>2, <2>2, ListFacts
<1>6. CASE entries[f] # None
  <2>1. PICK w \in Objects : w = entries[f]
    BY <1>4, <1>5, <1>6
  <2>2. parser' = [parser EXCEPT ![r].waitsFor = w] /\ UNCHANGED <<entries, heap>>
    BY <1>1, <1>6, <2>1 DEF LoadOrStore, Top, Last
  <2>3. parser' = [parser EXCEPT ![r] = [frames |-> s, waitsFor |-> w]]
    <3>1. [x EXCEPT !.waitsFor = w] = [frames |-> s, waitsFor |-> w]
      BY <1>3, ParserForms
    <3>2. parser' = [parser EXCEPT ![r] = [x EXCEPT !.waitsFor = w]]
      BY <1>1, <2>2
    <3> QED
      BY <3>1, <3>2
  <2>4. /\ Shape' /\ StacksOK' /\ CloneOK' /\ SnapshotsOK' /\ RefsOK'
        /\ parser'[r].frames = s /\ parser'[r].waitsFor = w
        /\ \A q \in Roots : q # r => parser'[q] = parser[q]
    BY <1>1, <1>2, <1>4, <2>2, <2>3, ParserMove
  <2>5. ASSUME NEW o \in Objects, NEW g, Key(o, g)'
        PROVE  Key(o, g)
    <3>1. WaitKey(r, o, g)' => Key(o, g)
      <4>1. WaitKey(r, o, g)' => o = w /\ g = f
        BY <1>1, <2>4 DEF WaitKey
      <4> QED
        BY <1>5, <2>1, <4>1 DEF Key
    <3>2. ParseKey(r, o, g)' => Key(o, g)
      <4>1. ParseKey(r, o, g)' => ParseKey(r, o, g)
        BY <1>1, <2>4 DEF ParseKey
      <4> QED
        BY <4>1 DEF Key
    <3> QED
      BY <2>2, <2>4, <2>5, <3>1, <3>2, KeyMove
  <2>6. KeysOK' /\ ValuesOK'
    BY <1>2, <2>2, <2>5, KeysKeep
  <2> QED
    BY <2>4, <2>6 DEF IInv
<1>7. CASE entries[f] = None
  <2>1. PICK o \in FreeObjects :
           /\ entries' = [entries EXCEPT ![f] = o]
           /\ heap' = [heap EXCEPT ![o] = [Unused EXCEPT !.mu = r]]
           /\ parser' = [parser EXCEPT ![r].frames = Push(r, f, o)]
    BY <1>1, <1>7 DEF LoadOrStore, Top, Last
  <2>2. o \in Objects
    BY <2>1 DEF FreeObjects
  <2>3. PICK e : e = [Unused EXCEPT !.mu = r]
    OBVIOUS
  <2>4. e \in [owners : SUBSET Ids, value : Values \cup {None}, mu : Roots \cup {None}] /\ e.owners = {}
    BY <2>3 DEF Unused
  <2>5. heap' \in Heaps /\ heap'[o].owners = {} /\ \A u \in Objects : u # o => heap'[u] = heap[u]
    BY <1>4, <2>1, <2>2, <2>3, <2>4 DEF Heaps
  <2>6. entries' \in [Configs -> Objects \cup {None}] /\ \A g \in Configs : g # f => entries'[g] = entries[g]
    BY <1>4, <1>5, <2>1, <2>2
  <2>7. PICK t : t = Pushed(s, f, o)
    OBVIOUS
  <2>8. Push(r, f, o) = t
    BY <1>1, <2>7 DEF Push, Pushed, IInv, Shape, CloneShape
  <2>9. parser' = [parser EXCEPT ![r] = [frames |-> t, waitsFor |-> None]]
    <3>1. [x EXCEPT !.frames = t] = [frames |-> t, waitsFor |-> None]
      BY <1>2, <1>3, ParserForms
    <3>2. parser' = [parser EXCEPT ![r] = [x EXCEPT !.frames = t]]
      BY <1>1, <2>1, <2>8
    <3> QED
      BY <3>1, <3>2
  <2>10. /\ GoodStack(r, t) /\ t # <<>>
         /\ \A k \in DOMAIN t : (k \in DOMAIN s /\ t[k] = s[k]) \/ (t[k].path = f /\ t[k].entry = o)
    <3>1. GoodStack(r, Pushed(s, f, o)) /\ Grown(Pushed(s, f, o), s, f, o)
      <4>1. Shape /\ GoodStack(r, s) /\ s # <<>> /\ Last(s).todo # <<>> /\ Named(f, Head(Last(s).todo))
        BY <1>1, <1>2 DEF IInv, Named
      <4> QED
        BY <2>2, <4>1, StackPush
    <3> QED
      BY <2>7, <3>1 DEF Grown
  <2>12. None \in Objects \cup {None}
    OBVIOUS
  <2>13. /\ Shape' /\ StacksOK' /\ CloneOK' /\ SnapshotsOK' /\ RefsOK'
         /\ parser'[r].frames = t /\ parser'[r].waitsFor = None
         /\ \A q \in Roots : q # r => parser'[q] = parser[q]
    <3>1. GoodStack(r, t) /\ heap' \in Heaps /\ entries' \in [Configs -> Objects \cup {None}]
          /\ parser[r].frames # <<>>
      BY <1>1, <1>2, <2>5, <2>6, <2>10
    <3> QED
      BY <1>2, <2>9, <2>10, <2>12, <3>1, ParserMove
  <2>14. ASSUME NEW u \in Objects, NEW g, Key(u, g)'
         PROVE  (u = o /\ g = f) \/ (u # o /\ Key(u, g))
    <3>1. CASE g \in Configs /\ entries'[g] = u
      <4>1. CASE g = f
        BY <1>4, <1>5, <2>1, <3>1, <4>1
      <4>2. CASE g # f
        <5>1. entries[g] = u
          BY <2>6, <3>1, <4>2
        <5> QED
          BY <2>1, <3>1, <5>1 DEF FreeObjects, Key
      <4> QED
        BY <4>1, <4>2
    <3>2. ASSUME NEW q \in Roots, q # r, WaitKey(q, u, g)' \/ ParseKey(q, u, g)'
          PROVE  u # o /\ Key(u, g)
      <4>1. WaitKey(q, u, g) \/ ParseKey(q, u, g)
        BY <2>13, <3>2 DEF WaitKey, ParseKey
      <4>2. u # o
        BY <2>1, <4>1 DEF WaitKey, ParseKey, FreeObjects
      <4> QED
        BY <4>1, <4>2 DEF Key
    <3>3. ~(WaitKey(r, u, g)')
      BY <1>4, <2>13, <2>14 DEF WaitKey
    <3>4. CASE ParseKey(r, u, g)'
      <4>1. PICK k \in DOMAIN t : t[k].entry = u /\ t[k].path = g
        BY <2>13, <3>4 DEF ParseKey
      <4>2. CASE t[k].path = f /\ t[k].entry = o
        BY <4>1, <4>2
      <4>3. CASE k \in DOMAIN s /\ t[k] = s[k]
        <5>1. ParseKey(r, u, g) /\ u # o
          BY <1>1, <2>1, <4>1, <4>3 DEF ParseKey, FreeObjects
        <5> QED
          BY <5>1 DEF Key
      <4> QED
        BY <2>10, <4>2, <4>3
    <3> QED
      BY <2>14, <3>1, <3>2, <3>3, <3>4 DEF Key
  <2>15. KeysOK'
    BY <2>14 DEF IInv, KeysOK
  <2>16. ASSUME ~panicked', NEW u \in Objects, NEW g, Key(u, g)', heap'[u].owners # {}
         PROVE  heap'[u].value \in Values' /\ Closed(heap'[u].value, g)
    <3>1. u # o /\ Key(u, g) /\ heap'[u] = heap[u]
      BY <2>5, <2>14, <2>16
    <3>2. heap[u].value \in Values /\ Closed(heap[u].value, g)
      BY <1>2, <2>16, <3>1 DEF IInv, ValuesOK
    <3>3. Values' = Values
      BY DEF Values
    <3> QED
      BY <3>1, <3>2, <3>3
  <2>17. ValuesOK'
    BY <2>16 DEF ValuesOK
  <2> QED
    BY <2>13, <2>15, <2>17 DEF IInv
<1> QED
  BY <1>6, <1>7

(* The lock of an entry that exists: the call starts again, the entry is   *)
(* parsed anew, or its value, which is not expired, is used.               *)
LEMMA StepLockExisting ==
    ASSUME IInv, Acyclic, NEW r \in Roots, LockExisting(r), world' = world
    PROVE  IInv'
<1>1. PICK s, f, x, o : s = parser[r].frames /\ f = Head(Last(s).todo) /\ x = parser[r] /\ o = parser[r].waitsFor
  OBVIOUS
<1>2. parser \in [Roots -> Parsers] /\ x \in Parsers /\ x.frames = s /\ x.waitsFor = o
  BY <1>1 DEF IInv, Shape, Parsers
<1>3. heap \in Heaps /\ entries \in [Configs -> Objects \cup {None}] /\ None \notin Objects
  BY ConfigAssumption DEF IInv, Shape, Heaps
<1>4. /\ UNCHANGED <<files, entries, snapshots, current, clone, job, panicked, world>> /\ o # None
  BY <1>1 DEF LockExisting
<1>5. o \in Objects /\ s # <<>> /\ Last(s).todo # <<>> /\ GoodStack(r, s) /\ WaitKey(r, o, f) /\ Key(o, f)
  <2>1. o \in Objects
    BY <1>2, <1>4, ParserForms
  <2>2. s # <<>> /\ Last(s).todo # <<>> /\ GoodStack(r, s) /\ WaitKey(r, o, f)
    BY <1>1, <1>4 DEF IInv, CloneOK, StacksOK, WaitKey
  <2> QED
    BY <2>1, <2>2 DEF Key
<1>6. clone.pc = "parse" /\ ~panicked /\ clone.id \in Ids /\ clone.fs = files
  <2>1. Parked.waitsFor = None
    BY DEF Parked
  <2> QED
    BY <1>1, <1>4, <2>1 DEF IInv, CloneOK, Shape, CloneShape
<1>7. heap[o] \in [owners : SUBSET Ids, value : Values \cup {None}, mu : Roots \cup {None}]
  BY <1>3, <1>5 DEF Heaps
<1>8. None \in Objects \cup {None}
  OBVIOUS
<1>9. CASE parser' = [parser EXCEPT ![r].waitsFor = None] /\ UNCHANGED heap
  <2>1. parser' = [parser EXCEPT ![r] = [frames |-> s, waitsFor |-> None]]
    <3>1. [x EXCEPT !.waitsFor = None] = [frames |-> s, waitsFor |-> None]
      BY <1>2, ParserForms
    <3>2. parser' = [parser EXCEPT ![r] = [x EXCEPT !.waitsFor = None]]
      BY <1>1, <1>9
    <3> QED
      BY <3>1, <3>2
  <2>2. /\ Shape' /\ StacksOK' /\ CloneOK' /\ SnapshotsOK' /\ RefsOK'
        /\ parser'[r].frames = s /\ parser'[r].waitsFor = None
        /\ \A q \in Roots : q # r => parser'[q] = parser[q]
    BY <1>1, <1>3, <1>4, <1>5, <1>8, <1>9, <2>1, ParserMove
  <2>3. ASSUME NEW u \in Objects, NEW g, Key(u, g)'
        PROVE  Key(u, g)
    <3>1. ~(WaitKey(r, u, g)')
      BY <1>3, <2>2, <2>3 DEF WaitKey
    <3>2. ParseKey(r, u, g)' => ParseKey(r, u, g)
      BY <1>1, <2>2 DEF ParseKey
    <3>3. ParseKey(r, u, g)' => Key(u, g)
      BY <3>2 DEF Key
    <3> QED
      BY <1>4, <2>2, <2>3, <3>1, <3>3, KeyMove
  <2>4. KeysOK' /\ ValuesOK'
    BY <1>4, <1>9, <2>3, KeysKeep
  <2> QED
    BY <2>2, <2>4 DEF IInv
<1>10. CASE /\ parser' = [parser EXCEPT ![r] = [waitsFor |-> None, frames |-> Push(r, f, o)]]
            /\ heap' = [heap EXCEPT ![o].mu = r]
  <2>1. PICK t : t = Pushed(s, f, o)
    OBVIOUS
  <2>2. Push(r, f, o) = t
    BY <1>1, <1>6, <2>1 DEF Push, Pushed
  <2>3. /\ GoodStack(r, t) /\ t # <<>>
        /\ \A k \in DOMAIN t : (k \in DOMAIN s /\ t[k] = s[k]) \/ (t[k].path = f /\ t[k].entry = o)
    <3>1. GoodStack(r, Pushed(s, f, o)) /\ Grown(Pushed(s, f, o), s, f, o)
      <4>1. Shape /\ GoodStack(r, s) /\ s # <<>> /\ Last(s).todo # <<>> /\ Named(f, Head(Last(s).todo))
        BY <1>1, <1>5 DEF IInv, Named
      <4> QED
        BY <1>5, <4>1, StackPush
    <3> QED
      BY <2>1, <3>1 DEF Grown
  <2>5. heap' \in Heaps /\ \A u \in Objects : heap'[u].owners = heap[u].owners /\ heap'[u].value = heap[u].value
    <3>1. PICK e : e = [heap[o] EXCEPT !.mu = r]
      OBVIOUS
    <3>2. /\ e \in [owners : SUBSET Ids, value : Values \cup {None}, mu : Roots \cup {None}]
          /\ e.owners = heap[o].owners /\ e.value = heap[o].value
      BY <1>7, <3>1
    <3>3. heap' = [heap EXCEPT ![o] = e]
      BY <1>10, <3>1
    <3> QED
      BY <1>3, <1>5, <3>2, <3>3 DEF Heaps
  <2>6. parser' = [parser EXCEPT ![r] = [frames |-> t, waitsFor |-> None]]
    BY <1>10, <2>2
  <2>7. /\ Shape' /\ StacksOK' /\ CloneOK' /\ SnapshotsOK' /\ RefsOK'
        /\ parser'[r].frames = t /\ parser'[r].waitsFor = None
        /\ \A q \in Roots : q # r => parser'[q] = parser[q]
    BY <1>1, <1>3, <1>4, <1>5, <1>8, <2>3, <2>5, <2>6, ParserMove
  <2>8. ASSUME NEW u \in Objects, NEW g, Key(u, g)'
        PROVE  Key(u, g)
    <3>1. ~(WaitKey(r, u, g)')
      BY <1>3, <2>7, <2>8 DEF WaitKey
    <3>2. ASSUME ParseKey(r, u, g)'
          PROVE  Key(u, g)
      <4>1. PICK k \in DOMAIN t : t[k].entry = u /\ t[k].path = g
        BY <2>7, <3>2 DEF ParseKey
      <4>2. CASE t[k].path = f /\ t[k].entry = o
        BY <1>5, <4>1, <4>2
      <4>3. CASE k \in DOMAIN s /\ t[k] = s[k]
        <5>1. ParseKey(r, u, g)
          BY <1>1, <4>1, <4>3 DEF ParseKey
        <5> QED
          BY <5>1 DEF Key
      <4> QED
        BY <2>3, <4>2, <4>3
    <3> QED
      BY <1>4, <2>7, <2>8, <3>1, <3>2, KeyMove
  <2>9. KeysOK' /\ ValuesOK'
    BY <1>4, <2>5, <2>8, KeysKeep
  <2> QED
    BY <2>7, <2>9 DEF IInv
<1>11. CASE /\ heap[o].owners # {} /\ ~isExpired(f, heap[o].value, clone.fs)
            /\ heap' = [heap EXCEPT ![o].owners = @ \cup {clone.id}]
            /\ parser' = [parser EXCEPT ![r] =
                   [waitsFor |-> None, frames |-> ReturnTo(@.frames, heap[o].value)]]
  <2>1. PICK v, t : v = heap[o].value /\ t = ReturnTo(s, v)
    OBVIOUS
  <2>2. v \in Values /\ Closed(v, f)
    BY <1>5, <1>6, <1>11, <2>1 DEF IInv, ValuesOK
  <2>3. Fresh(v, f, files)
    BY <1>6, <1>11, <2>1, <2>2 DEF Fresh, isExpired
  <2>4. /\ GoodStack(r, t) /\ t # <<>>
        /\ \A k \in DOMAIN t : k \in DOMAIN s /\ t[k].path = s[k].path /\ t[k].entry = s[k].entry
    <3>1. /\ GoodStack(r, ReturnTo(s, v)) /\ ReturnTo(s, v) # <<>>
          /\ \A k \in DOMAIN ReturnTo(s, v) :
                /\ k \in DOMAIN s
                /\ ReturnTo(s, v)[k].path = s[k].path /\ ReturnTo(s, v)[k].entry = s[k].entry
      <4>1. GoodStack(r, s) /\ s # <<>> /\ Last(s).todo # <<>> /\ f = Head(Last(s).todo)
        BY <1>1, <1>5
      <4> QED
        BY <2>2, <2>3, <4>1, StackReturn
    <3> QED
      BY <2>1, <3>1
  <2>5. parser' = [parser EXCEPT ![r] = [frames |-> t, waitsFor |-> None]]
    BY <1>1, <1>11, <2>1
  <2>6. /\ heap' \in Heaps
        /\ \A u \in Objects : (heap'[u].owners # {} => heap[u].owners # {}) /\ heap'[u].value = heap[u].value
    <3>1. PICK e : e = [heap[o] EXCEPT !.owners = heap[o].owners \cup {clone.id}]
      OBVIOUS
    <3>2. /\ e \in [owners : SUBSET Ids, value : Values \cup {None}, mu : Roots \cup {None}]
          /\ e.value = heap[o].value
      BY <1>6, <1>7, <3>1
    <3>3. heap' = [heap EXCEPT ![o] = e]
      BY <1>11, <3>1
    <3> QED
      BY <1>3, <1>5, <1>11, <3>2, <3>3 DEF Heaps
  <2>7. /\ Shape' /\ StacksOK' /\ CloneOK' /\ SnapshotsOK' /\ RefsOK'
        /\ parser'[r].frames = t /\ parser'[r].waitsFor = None
        /\ \A q \in Roots : q # r => parser'[q] = parser[q]
    BY <1>1, <1>3, <1>4, <1>5, <1>8, <2>4, <2>5, <2>6, ParserMove
  <2>8. ASSUME NEW u \in Objects, NEW g, Key(u, g)'
        PROVE  Key(u, g)
    <3>1. ~(WaitKey(r, u, g)')
      BY <1>3, <2>7, <2>8 DEF WaitKey
    <3>2. ParseKey(r, u, g)' => ParseKey(r, u, g)
      BY <1>1, <2>4, <2>7 DEF ParseKey
    <3>3. ParseKey(r, u, g)' => Key(u, g)
      BY <3>2 DEF Key
    <3> QED
      BY <1>4, <2>7, <2>8, <3>1, <3>3, KeyMove
  <2>9. KeysOK' /\ ValuesOK'
    BY <1>4, <2>6, <2>8, KeysKeep
  <2> QED
    BY <2>7, <2>9 DEF IInv
<1> QED
  BY <1>1, <1>9, <1>10, <1>11 DEF LockExisting, Top, Last

(* LoadAndAcquire ends: the entry has the value of its file, which is      *)
(* returned to the caller.                                                 *)
LEMMA StepAcquired ==
    ASSUME IInv, NEW r \in Roots, Acquired(r), world' = world
    PROVE  IInv'
<1>1. PICK s, fr, x, o, n : /\ s = parser[r].frames /\ fr = Last(s) /\ x = parser[r]
                            /\ o = fr.entry /\ n = Len(s)
  OBVIOUS
<1>2. parser \in [Roots -> Parsers] /\ x \in Parsers /\ x.frames = s
  BY <1>1 DEF IInv, Shape, Parsers
<1>3. heap \in Heaps /\ entries \in [Configs -> Objects \cup {None}] /\ None \notin Objects
  BY ConfigAssumption DEF IInv, Shape, Heaps
<1>4. /\ UNCHANGED <<files, entries, snapshots, current, clone, job, panicked, world>>
      /\ n > 1 /\ x.waitsFor = None /\ fr.todo = <<>> /\ GoodStack(r, s)
  BY <1>1 DEF Acquired, Top, Last, IInv, StacksOK
<1>5. PICK t0 : t0 = Front(s)
  OBVIOUS
<1>6. /\ GoodStack(r, t0) /\ t0 # <<>> /\ s # <<>>
      /\ Last(t0).todo # <<>> /\ Head(Last(t0).todo) = fr.path /\ o \in Objects
      /\ \A k \in DOMAIN t0 : k \in DOMAIN s /\ t0[k] = s[k]
  <2>1. /\ GoodStack(r, Front(s)) /\ Front(s) # <<>> /\ s # <<>>
        /\ Last(Front(s)).todo # <<>> /\ Head(Last(Front(s)).todo) = Last(s).path
        /\ Last(s).entry \in Objects
        /\ \A k \in DOMAIN Front(s) : k \in DOMAIN s /\ Front(s)[k] = s[k]
    <3>1. Len(s) > 1
      BY <1>1, <1>4
    <3> QED
      BY <1>4, <3>1, StackPop
  <2> QED
    BY <1>1, <1>5, <2>1
<1>7. fr \in Frames /\ FrameOK(fr) /\ n \in DOMAIN s /\ s[n] = fr
  BY <1>1, <1>4, <1>6, LastFacts DEF GoodStack
<1>8. fr.acc \in Values /\ Fresh(fr.acc, fr.path, files) /\ Closed(fr.acc, fr.path)
  BY <1>4, <1>7, DoneFresh DEF Frames, Fresh
<1>9. PICK t, v : v = fr.acc /\ t = ReturnTo(t0, v)
  OBVIOUS
<1>10. /\ GoodStack(r, t) /\ t # <<>>
       /\ \A k \in DOMAIN t : k \in DOMAIN t0 /\ t[k].path = t0[k].path /\ t[k].entry = t0[k].entry
  <2>1. Head(Last(t0).todo) = fr.path /\ v \in Values /\ Fresh(v, fr.path, files)
    BY <1>6, <1>8, <1>9
  <2>2. /\ GoodStack(r, ReturnTo(t0, v)) /\ ReturnTo(t0, v) # <<>>
        /\ \A k \in DOMAIN ReturnTo(t0, v) :
              /\ k \in DOMAIN t0
              /\ ReturnTo(t0, v)[k].path = t0[k].path /\ ReturnTo(t0, v)[k].entry = t0[k].entry
    BY <1>6, <2>1, StackReturn
  <2> QED
    BY <1>9, <2>2
<1>11. parser' = [parser EXCEPT ![r] = [frames |-> t, waitsFor |-> None]]
  <2>1. [x EXCEPT !.frames = t] = [frames |-> t, waitsFor |-> None]
    BY <1>2, <1>4, ParserForms
  <2>2. parser' = [parser EXCEPT ![r].frames = ReturnTo(Front(@), fr.acc)]
    BY <1>1 DEF Acquired, Top, Last, Front
  <2>3. parser' = [parser EXCEPT ![r] = [x EXCEPT !.frames = t]]
    BY <1>1, <1>5, <1>9, <2>2
  <2> QED
    BY <2>1, <2>3
<1>12. PICK e : e = [owners |-> heap[o].owners \cup {clone.id}, value |-> v, mu |-> None]
  OBVIOUS
<1>13. heap' = [heap EXCEPT ![o] = e]
  BY <1>1, <1>9, <1>12 DEF Acquired, Top, Last
<1>14. clone.id \in Ids
  <2>1. Parked.frames = <<>>
    BY DEF Parked
  <2>2. clone.pc = "parse"
    BY <1>1, <1>6, <2>1 DEF IInv, CloneOK
  <2> QED
    BY <2>2 DEF IInv, CloneOK
<1>15. heap[o].owners \in SUBSET Ids
  BY <1>3, <1>6 DEF Heaps
<1>16. e \in [owners : SUBSET Ids, value : Values \cup {None}, mu : Roots \cup {None}] /\ e.value = v
  BY <1>8, <1>9, <1>12, <1>14, <1>15
<1>17. heap' \in Heaps /\ heap'[o].value = v /\ \A u \in Objects : u # o => heap'[u] = heap[u]
  BY <1>3, <1>6, <1>13, <1>16 DEF Heaps
<1>18. None \in Objects \cup {None}
  OBVIOUS
<1>19. /\ Shape' /\ StacksOK' /\ CloneOK' /\ SnapshotsOK' /\ RefsOK'
       /\ parser'[r].frames = t /\ parser'[r].waitsFor = None
       /\ \A q \in Roots : q # r => parser'[q] = parser[q]
  <2>1. GoodStack(r, t) /\ heap' \in Heaps /\ entries' \in [Configs -> Objects \cup {None}]
        /\ parser[r].frames # <<>>
    BY <1>1, <1>3, <1>4, <1>6, <1>10, <1>17
  <2> QED
    BY <1>4, <1>10, <1>11, <1>18, <2>1, ParserMove
<1>20. ASSUME NEW u \in Objects, NEW g, Key(u, g)'
       PROVE  Key(u, g)
  <2>1. ~(WaitKey(r, u, g)')
    BY <1>3, <1>19, <1>20 DEF WaitKey
  <2>2. ParseKey(r, u, g)' => ParseKey(r, u, g)
    BY <1>1, <1>6, <1>10, <1>19 DEF ParseKey
  <2>3. ParseKey(r, u, g)' => Key(u, g)
    BY <2>2 DEF Key
  <2> QED
    BY <1>4, <1>19, <1>20, <2>1, <2>3, KeyMove
<1>21. KeysOK'
  BY <1>20 DEF IInv, KeysOK
<1>22. Key(o, fr.path)
  <2>1. ParseKey(r, o, fr.path)
    BY <1>1, <1>7 DEF ParseKey
  <2> QED
    BY <2>1 DEF Key
<1>23. ASSUME ~panicked', NEW u \in Objects, NEW g, Key(u, g)', heap'[u].owners # {}
       PROVE  heap'[u].value \in Values' /\ Closed(heap'[u].value, g)
  <2>1. Values' = Values /\ Key(u, g)
    BY <1>20, <1>23 DEF Values
  <2>2. CASE u = o
    <3>1. g = fr.path
      BY <1>6, <1>22, <2>1, <2>2 DEF IInv, KeysOK
    <3> QED
      BY <1>8, <1>9, <1>17, <2>1, <2>2, <3>1
  <2>3. CASE u # o
    <3>1. heap'[u] = heap[u] /\ heap[u].owners # {} /\ ~panicked
      BY <1>4, <1>17, <1>23, <2>3
    <3>2. heap[u].value \in Values /\ Closed(heap[u].value, g)
      BY <2>1, <3>1 DEF IInv, ValuesOK
    <3> QED
      BY <2>1, <3>1, <3>2
  <2> QED
    BY <2>2, <2>3
<1>24. ValuesOK'
  BY <1>23 DEF ValuesOK
<1> QED
  BY <1>19, <1>21, <1>24 DEF IInv

(* The parsing of a root ends, with what its files say.                    *)
LEMMA StepParsed ==
    ASSUME IInv, NEW r \in Roots, Parsed(r), world' = world
    PROVE  IInv'
<1>1. PICK s, fr, v : s = parser[r].frames /\ fr = Last(s) /\ v = fr.acc
  OBVIOUS
<1>2. /\ UNCHANGED <<files, entries, heap, snapshots, current, job, panicked, world>>
      /\ Len(s) = 1 /\ fr.todo = <<>> /\ GoodStack(r, s)
      /\ clone' = [clone EXCEPT !.cmds[r] = v] /\ parser' = [parser EXCEPT ![r] = Parked]
  BY <1>1 DEF Parsed, Top, Last, IInv, StacksOK
<1>3. s # <<>>
  BY <1>2, SMT
<1>4. fr \in Frames /\ FrameOK(fr) /\ fr.path = r
  BY <1>1, <1>2, <1>3, LastFacts DEF GoodStack
<1>5. v \in Values /\ Fresh(v, r, files)
  BY <1>1, <1>2, <1>4, DoneFresh DEF Frames
<1>6. DOMAIN clone = CloneFields /\ clone.cmds \in [Roots -> Values]
  BY DEF IInv, Shape, CloneShape
<1>7. PICK a : a = [clone.cmds EXCEPT ![r] = v]
  OBVIOUS
<1>8. a \in [Roots -> Values] /\ a[r] = v /\ \A q \in Roots : q # r => a[q] = clone.cmds[q]
  BY <1>5, <1>6, <1>7
<1>9. clone' = [clone EXCEPT !.cmds = a]
  BY <1>2, <1>7
<1>10. /\ DOMAIN clone' = CloneFields /\ clone'.pc = clone.pc /\ clone'.id = clone.id /\ clone'.fs = clone.fs
       /\ clone'.cmds = a /\ clone'.pending = clone.pending
  <2>1. PICK c : c = clone'
    OBVIOUS
  <2>2. /\ DOMAIN c = CloneFields /\ c.pc = clone.pc /\ c.id = clone.id /\ c.fs = clone.fs
        /\ c.cmds = a /\ c.pending = clone.pending
    BY <1>6, <1>9, <2>1, SMT DEF CloneFields
  <2> QED
    BY <2>1, <2>2
<1>11. Parked \in Parsers /\ Parked.frames = <<>> /\ Parked.waitsFor = None
  <2>1. <<>> \in Seq(Frames)
    BY SMT
  <2> QED
    BY <2>1 DEF Parked, Parsers
<1>12. parser \in [Roots -> Parsers]
  BY DEF IInv, Shape, Parsers
<1>13. /\ parser' \in [Roots -> Parsers] /\ parser'[r] = Parked
       /\ \A q \in Roots : q # r => parser'[q] = parser[q]
  BY <1>2, <1>11, <1>12
<1>14. Frames' = Frames /\ Values' = Values /\ Texts' = Texts
  BY <1>2 DEF Frames, Values, Texts
<1>15. CloneShape' /\ JobShape'
  BY <1>2, <1>8, <1>10, <1>14 DEF IInv, Shape, CloneShape, JobShape
<1>16. Shape'
  BY <1>2, <1>13, <1>14, <1>15 DEF IInv, Shape, Parsers
<1>17. ASSUME NEW q \in Roots
       PROVE  GoodStack(q, parser[q].frames)'
  <2>1. PICK t : t = parser'[q].frames
    OBVIOUS
  <2>2. GoodStack(q, t)
    <3>1. CASE q = r
      BY <1>11, <1>13, <2>1, <3>1, EmptyStack
    <3>2. CASE q # r
      BY <1>13, <2>1, <3>2 DEF IInv, StacksOK
    <3> QED
      BY <3>1, <3>2
  <2>3. GoodStack(q, t)'
    BY <1>2, <2>2, StackSame
  <2> QED
    BY <2>1, <2>3
<1>18. StacksOK'
  BY <1>17 DEF StacksOK
<1>19. clone.pc = "parse"
  BY <1>1, <1>3, <1>11 DEF IInv, CloneOK
<1>20. ASSUME NEW q \in Roots \ clone.pending, parser'[q].frames = <<>>
       PROVE  Fresh(a[q], q, files)
  <2>1. CASE q = r
    BY <1>5, <1>8, <2>1
  <2>2. CASE q # r
    BY <1>8, <1>13, <1>19, <1>20, <2>2 DEF IInv, CloneOK
  <2> QED
    BY <2>1, <2>2
<1>21. ASSUME NEW q \in Roots, parser'[q].waitsFor # None
       PROVE  parser'[q].frames # <<>> /\ Last(parser'[q].frames).todo # <<>>
  BY <1>11, <1>13, <1>21 DEF IInv, CloneOK
<1>22. clone'.pc = "parse" /\ ~panicked' /\ clone'.id \in Ids /\ snapshots'[clone'.id] = None
  BY <1>2, <1>10, <1>19 DEF IInv, CloneOK
<1>23. CloneOK'
  BY <1>2, <1>10, <1>20, <1>21, <1>22 DEF CloneOK
<1>24. SnapshotsOK'
  BY <1>2 DEF IInv, SnapshotsOK
<1>25. RefsOK'
  BY <1>2 DEF IInv, RefsOK, Holders
<1>26. ASSUME NEW u \in Objects, NEW g, Key(u, g)'
       PROVE  Key(u, g)
  <2>1. ~(WaitKey(r, u, g)')
    BY <1>11, <1>13, <1>26, ConfigAssumption DEF WaitKey
  <2>2. ~(ParseKey(r, u, g)')
    <3>1. DOMAIN <<>> = {}
      BY SMT
    <3> QED
      BY <1>11, <1>13, <3>1 DEF ParseKey
  <2> QED
    BY <1>2, <1>13, <1>26, <2>1, <2>2, KeyMove
<1>27. KeysOK' /\ ValuesOK'
  BY <1>2, <1>26, KeysKeep
<1> QED
  BY <1>16, <1>18, <1>23, <1>24, <1>25, <1>27 DEF IInv

----------------------------------------------------------------------------
(* Clones *)

(* Steps that are not the parsers': stacks stay good, and entries only     *)
(* leave the map.                                                          *)
LEMMA OtherStacks ==
    ASSUME IInv, UNCHANGED <<files, parser, world>>
    PROVE  StacksOK'
<1>1. ASSUME NEW q \in Roots
      PROVE  GoodStack(q, parser[q].frames)'
  <2>1. PICK t : t = parser[q].frames /\ t = parser'[q].frames
    OBVIOUS
  <2>2. GoodStack(q, t)
    BY <2>1 DEF IInv, StacksOK
  <2>3. GoodStack(q, t)'
    BY <2>2, StackSame
  <2> QED
    BY <2>1, <2>3
<1> QED
  BY <1>1 DEF StacksOK

LEMMA OtherKeys ==
    ASSUME parser' = parser, NEW o, \A f \in Configs : entries'[f] = o => entries[f] = o, NEW f, Key(o, f)'
    PROVE  Key(o, f)
<1>1. \A r \in Roots : (WaitKey(r, o, f)' => WaitKey(r, o, f)) /\ (ParseKey(r, o, f)' => ParseKey(r, o, f))
  BY DEF WaitKey, ParseKey
<1> QED
  BY <1>1 DEF Key

(* Outside of a clone no root is parsed.                                   *)
LEMMA ParkedFacts ==
    /\ Parked \in Parsers /\ Parked.frames = <<>> /\ Parked.waitsFor = None
    /\ DOMAIN Parked.frames = {}
<1>1. <<>> \in Seq(Frames) /\ DOMAIN <<>> = {}
  BY SMT
<1> QED
  BY <1>1 DEF Parked, Parsers

(* An edit changes what the next clone reads.                              *)
LEMMA StepEdit ==
    ASSUME IInv, NEW f \in Files, Edit(f), world' = world
    PROVE  IInv'
<1>1. /\ UNCHANGED <<entries, heap, snapshots, current, parser, job, panicked, world>>
      /\ clone.pc = "idle" /\ clone' = [clone EXCEPT !.fs = files']
  BY DEF Edit
<1>2. PICK t \in Variants[f] : files' = [files EXCEPT ![f] = t]
  BY DEF Edit
<1>3. t \in Texts
  BY <1>2 DEF Variants, Texts, TextsOf
<1>4. files' \in [Files -> Texts]
  BY <1>2, <1>3 DEF IInv, Shape
<1>5. DOMAIN clone = CloneFields
  BY DEF IInv, Shape, CloneShape
<1>6. /\ DOMAIN clone' = CloneFields /\ clone'.pc = "idle" /\ clone'.fs = files'
      /\ clone'.cmds = clone.cmds /\ clone'.pending = clone.pending
  <2>1. PICK c, a : c = clone' /\ a = files'
    OBVIOUS
  <2>2. DOMAIN c = CloneFields /\ c.pc = "idle" /\ c.fs = a /\ c.cmds = clone.cmds /\ c.pending = clone.pending
    BY <1>1, <1>5, <2>1, SMT DEF CloneFields
  <2> QED
    BY <2>1, <2>2
<1>7. Frames' = Frames /\ Values' = Values /\ Texts' = Texts
  BY <1>1 DEF Frames, Values, Texts
<1>8. CloneShape' /\ JobShape'
  BY <1>1, <1>6, <1>7 DEF IInv, Shape, CloneShape, JobShape
<1>9. Shape'
  BY <1>1, <1>4, <1>7, <1>8 DEF IInv, Shape
<1>10. \A q \in Roots : parser[q] = Parked
  BY <1>1 DEF IInv, CloneOK
<1>11. ASSUME NEW q \in Roots
       PROVE  GoodStack(q, parser[q].frames)'
  <2>1. PICK s : s = parser'[q].frames
    OBVIOUS
  <2>2. DOMAIN s = {} /\ s \in Seq(Frames)'
    <3>1. <<>> \in Seq(Frames)'
      BY SMT
    <3> QED
      BY <1>1, <1>10, <2>1, <3>1, ParkedFacts
  <2>3. GoodStack(q, s)'
    BY <2>2 DEF GoodStack
  <2> QED
    BY <2>1, <2>3
<1>12. StacksOK'
  BY <1>11 DEF StacksOK
<1>13. KeysOK' /\ ValuesOK'
  BY <1>1, OtherKeys, KeysKeep
<1>14. CloneOK'
  BY <1>1, <1>6, <1>10, ParkedFacts DEF IInv, CloneOK
<1>15. SnapshotsOK'
  BY <1>1 DEF IInv, SnapshotsOK
<1>16. RefsOK'
  BY <1>1 DEF IInv, RefsOK, Holders
<1> QED
  BY <1>9, <1>12, <1>13, <1>14, <1>15, <1>16 DEF IInv

(* The session's snapshot is there.                                        *)
LEMMA CurrentFacts ==
    ASSUME IInv
    PROVE  /\ current \in Ids /\ snapshots[current] \in SnapshotsOf(world)
           /\ snapshots[current] # None /\ Updater \in Holders(current)
           /\ snapshots[current].cmds \in [Roots -> Values] /\ snapshots[current].pending \in SUBSET Roots
<1>1. current \in Ids /\ Updater \in Holders(current)
  BY DEF IInv, Shape, Holders
<1>2. snapshots[current] # None
  BY <1>1 DEF IInv, RefsOK
<1>3. snapshots[current] \in SnapshotsOf(world)
  BY <1>1, <1>2 DEF IInv, Shape
<1> QED
  BY <1>1, <1>2, <1>3 DEF SnapshotsOf, Values

(* A clone starts.  What it takes from the session's snapshot and does not *)
(* parse again is fresh.                                                   *)
LEMMA StepClone ==
    ASSUME IInv, Clone, world' = world
    PROVE  IInv'
<1> DEFINE base == snapshots[current]
           pending == base.pending \cup {r \in Roots : isExpired(r, base.cmds[r], files)}
<1>2. PICK reload \in SUBSET pending :
         /\ clone' = [NoClone EXCEPT !.pc = "parse", !.id = AnyOf(FreeIds), !.pending = pending \ reload]
         /\ parser' = [r \in Roots |->
                IF r \in reload THEN [Parked EXCEPT !.frames = <<Frame(r, None, files, <<>>)>>] ELSE Parked]
  BY DEF Clone
<1>1. /\ base.cmds \in [Roots -> Values] /\ base.pending \in SUBSET Roots /\ base # None /\ current \in Ids
  BY CurrentFacts
<1>6. /\ pending \in SUBSET Roots
      /\ \A r \in Roots : r \notin pending => r \notin base.pending /\ ~isExpired(r, base.cmds[r], files)
  BY <1>1
<1>7. NoClone = [pc |-> "idle", id |-> None, fs |-> files, cmds |-> base.cmds,
                 pending |-> {}, todo |-> <<>>, loaded |-> None]
  BY DEF NoClone
<1>8. \A r \in Roots : r \notin base.pending => Fresh(base.cmds[r], r, base.fs)
  BY <1>1 DEF IInv, SnapshotsOK
<1> HIDE DEF base, pending
<1>3. /\ UNCHANGED <<files, entries, heap, snapshots, current, job, panicked, world>>
      /\ clone.pc = "idle" /\ FreeIds # {}
  BY DEF Clone
<1>4. PICK i : i = AnyOf(FreeIds)
  OBVIOUS
<1>5. i \in Ids /\ snapshots[i] = None
  <2>1. i \in FreeIds
    BY <1>3, <1>4 DEF AnyOf
  <2> QED
    BY <2>1 DEF FreeIds
<1>9. /\ DOMAIN clone' = CloneFields /\ clone'.pc = "parse" /\ clone'.id = i /\ clone'.fs = files
      /\ clone'.cmds = base.cmds /\ clone'.pending = pending \ reload
  <2>1. PICK c, k, d, m : c = clone' /\ k = NoClone /\ d = pending \ reload /\ m = base.cmds
    OBVIOUS
  <2>2. c = [k EXCEPT !.pc = "parse", !.id = i, !.pending = d]
    BY <1>2, <1>4, <2>1
  <2>3. DOMAIN k = CloneFields /\ k.fs = files /\ k.cmds = m
    BY <1>7, <2>1 DEF CloneFields
  <2>4. DOMAIN c = CloneFields /\ c.pc = "parse" /\ c.id = i /\ c.fs = files /\ c.cmds = m /\ c.pending = d
    BY <2>2, <2>3, SMT DEF CloneFields
  <2> QED
    BY <2>1, <2>4
<1>11. Frames' = Frames /\ Values' = Values /\ Texts' = Texts
  BY <1>3 DEF Frames, Values, Texts
<1>12. CloneShape' /\ JobShape'
  BY <1>1, <1>3, <1>6, <1>9, <1>11 DEF IInv, Shape, CloneShape, JobShape
<1>13. ASSUME NEW r \in Roots
       PROVE  /\ parser'[r] \in Parsers /\ parser'[r].waitsFor = None /\ GoodStack(r, parser'[r].frames)
              /\ \A k \in DOMAIN parser'[r].frames : parser'[r].frames[k].entry = None
              /\ r \in reload \/ parser'[r] = Parked
              /\ r \in reload => parser'[r].frames # <<>>
  <2>1. CASE r \in reload
    <3>1. PICK fr, s : fr = Frame(r, None, files, <<>>) /\ s = <<fr>>
      OBVIOUS
    <3>2. fr \in Frames /\ FrameOK(fr) /\ fr.path = r /\ fr.entry = None
      <4>1. \A k \in DOMAIN <<>> : (<<>>)[k].path # r
        BY ParkedFacts
      <4>2. r \in Files /\ None \in Objects \cup {None} /\ Shape
        BY <1>13 DEF Files, IInv
      <4> QED
        BY <3>1, <4>1, <4>2, StartOK, SMT
    <3>3. /\ s \in Seq(Frames) /\ s # <<>> /\ DOMAIN s = {1} /\ s[1] = fr
      BY <3>1, <3>2, SMT
    <3>4. GoodStack(r, s)
      <4>1. \A j, k \in DOMAIN s : ~(j < k)
        <5>1. ~(1 < 1)
          BY SMT
        <5> QED
          BY <3>3, <5>1
      <4> QED
        BY <3>2, <3>3, <4>1 DEF GoodStack
    <3>5. parser'[r] = [frames |-> s, waitsFor |-> None]
      <4>1. [Parked EXCEPT !.frames = s] = [frames |-> s, waitsFor |-> None]
        BY ParkedFacts, ParserForms
      <4> QED
        BY <1>2, <2>1, <3>1, <4>1
    <3>6. parser'[r] \in Parsers /\ parser'[r].frames = s /\ parser'[r].waitsFor = None
      <4>1. PICK y : y = [frames |-> s, waitsFor |-> None]
        OBVIOUS
      <4>2. y \in Parsers /\ y.frames = s /\ y.waitsFor = None
        BY <3>3, <4>1 DEF Parsers
      <4> QED
        BY <3>5, <4>1, <4>2
    <3> QED
      BY <2>1, <3>2, <3>3, <3>4, <3>6
  <2>2. CASE r \notin reload
    BY <1>2, <2>2, ParkedFacts, EmptyStack
  <2> QED
    BY <2>1, <2>2
<1>14. parser' \in [Roots -> Parsers]
  BY <1>2, <1>13
<1>15. Shape'
  BY <1>3, <1>11, <1>12, <1>14 DEF IInv, Shape, Parsers
<1>16. ASSUME NEW q \in Roots
       PROVE  GoodStack(q, parser[q].frames)'
  <2>1. PICK s : s = parser'[q].frames
    OBVIOUS
  <2>2. GoodStack(q, s)'
    BY <1>3, <1>13, <2>1, StackSame
  <2> QED
    BY <2>1, <2>2
<1>17. StacksOK'
  BY <1>16 DEF StacksOK
<1>18. ASSUME NEW u \in Objects, NEW g, Key(u, g)'
       PROVE  Key(u, g)
  <2>1. \A q \in Roots : ~(WaitKey(q, u, g)') /\ ~(ParseKey(q, u, g)')
    BY <1>13, <1>18, ConfigAssumption DEF WaitKey, ParseKey
  <2> QED
    BY <1>3, <1>18, <2>1 DEF Key
<1>19. KeysOK' /\ ValuesOK'
  BY <1>3, <1>18, KeysKeep
<1>20. ASSUME NEW r \in Roots \ (pending \ reload), parser'[r].frames = <<>>
       PROVE  Fresh(base.cmds[r], r, files)
  <2>1. r \notin pending
    BY <1>13, <1>20
  <2>2. Fresh(base.cmds[r], r, base.fs) /\ ~isExpired(r, base.cmds[r], files)
    BY <1>6, <1>8, <1>20, <2>1
  <2> QED
    BY <2>2 DEF Fresh, isExpired
<1>21. ~panicked'
  BY <1>3 DEF IInv, CloneOK
<1>22. CloneOK'
  BY <1>3, <1>5, <1>9, <1>13, <1>20, <1>21 DEF CloneOK
<1>23. SnapshotsOK'
  BY <1>3 DEF IInv, SnapshotsOK
<1>24. RefsOK'
  BY <1>3 DEF IInv, RefsOK, Holders
<1> QED
  BY <1>15, <1>17, <1>19, <1>22, <1>23, <1>24 DEF IInv

(* All parsers have ended.                                                 *)
LEMMA StepFinalize ==
    ASSUME IInv, Finalize, world' = world
    PROVE  IInv'
<1>1. /\ UNCHANGED <<files, entries, heap, snapshots, current, parser, job, panicked, world>>
      /\ clone.pc = "parse" /\ (\A r \in Roots : parser[r] = Parked)
      /\ clone' = [clone EXCEPT !.pc = "own", !.todo = Extended(clone.cmds)]
  BY DEF Finalize
<1>2. DOMAIN clone = CloneFields
  BY DEF IInv, Shape, CloneShape
<1>3. /\ DOMAIN clone' = CloneFields /\ clone'.pc = "own" /\ clone'.id = clone.id /\ clone'.fs = clone.fs
      /\ clone'.cmds = clone.cmds /\ clone'.pending = clone.pending
  <2>1. PICK c, a : c = clone' /\ a = Extended(clone.cmds)
    OBVIOUS
  <2>2. c = [clone EXCEPT !.pc = "own", !.todo = a]
    BY <1>1, <2>1
  <2>3. /\ DOMAIN c = CloneFields /\ c.pc = "own" /\ c.id = clone.id /\ c.fs = clone.fs
        /\ c.cmds = clone.cmds /\ c.pending = clone.pending
    BY <1>2, <2>2, SMT DEF CloneFields
  <2> QED
    BY <2>1, <2>3
<1>4. Frames' = Frames /\ Values' = Values /\ Texts' = Texts
  BY <1>1 DEF Frames, Values, Texts
<1>5. CloneShape' /\ JobShape'
  BY <1>1, <1>3, <1>4 DEF IInv, Shape, CloneShape, JobShape
<1>6. Shape'
  BY <1>1, <1>4, <1>5 DEF IInv, Shape
<1>7. StacksOK'
  BY <1>1, OtherStacks
<1>8. KeysOK' /\ ValuesOK'
  BY <1>1, OtherKeys, KeysKeep
<1>9. CloneOK'
  BY <1>1, <1>3, ParkedFacts DEF IInv, CloneOK
<1>10. SnapshotsOK'
  BY <1>1 DEF IInv, SnapshotsOK
<1>11. RefsOK'
  BY <1>1 DEF IInv, RefsOK, Holders
<1> QED
  BY <1>6, <1>7, <1>8, <1>9, <1>10, <1>11 DEF IInv

(* AddOwner adds an owner to an entry that has one, or panics.             *)
LEMMA StepAddOwner ==
    ASSUME IInv, AddOwner, world' = world
    PROVE  IInv'
<1>1. PICK o, f : o = clone.loaded /\ f = Head(clone.todo)
  OBVIOUS
<1>2. /\ UNCHANGED <<files, entries, snapshots, current, parser, job, world>>
      /\ clone.pc = "own" /\ ~panicked
  BY DEF AddOwner
<1>3. \/ clone' = [clone EXCEPT !.loaded = entries[f]] /\ UNCHANGED heap
      \/ /\ heap' = [heap EXCEPT ![o].owners = @ \cup {clone.id}] /\ panicked' = (heap[o].owners = {})
         /\ clone' = [clone EXCEPT !.loaded = None, !.todo = Tail(@)]
  BY <1>1 DEF AddOwner
<1>4. DOMAIN clone = CloneFields /\ clone.id \in Ids
  BY <1>2 DEF IInv, Shape, CloneShape, CloneOK
<1>5. /\ DOMAIN clone' = CloneFields /\ clone'.pc = "own" /\ clone'.id = clone.id /\ clone'.fs = clone.fs
      /\ clone'.cmds = clone.cmds /\ clone'.pending = clone.pending
  <2>1. PICK c, a, b : c = clone' /\ a = entries[f] /\ b = Tail(clone.todo)
    OBVIOUS
  <2>2. c = [clone EXCEPT !.loaded = a] \/ c = [clone EXCEPT !.loaded = None, !.todo = b]
    BY <1>3, <2>1
  <2>3. /\ DOMAIN c = CloneFields /\ c.pc = clone.pc /\ c.id = clone.id /\ c.fs = clone.fs
        /\ c.cmds = clone.cmds /\ c.pending = clone.pending
    <3>1. CASE c = [clone EXCEPT !.loaded = a]
      BY <1>4, <3>1, SMT DEF CloneFields
    <3>2. CASE c = [clone EXCEPT !.loaded = None, !.todo = b]
      BY <1>4, <3>2, SMT DEF CloneFields
    <3> QED
      BY <2>2, <3>1, <3>2
  <2> QED
    BY <1>2, <2>1, <2>3
<1>6. heap \in Heaps
  BY DEF IInv, Shape, Heaps
<1>7. /\ heap' \in Heaps
      /\ \A u \in Objects : ~panicked' /\ heap'[u].owners # {} =>
             heap[u].owners # {} /\ heap'[u].value = heap[u].value
  <2>1. CASE UNCHANGED heap
    BY <1>6, <2>1
  <2>2. CASE heap' = [heap EXCEPT ![o].owners = @ \cup {clone.id}] /\ panicked' = (heap[o].owners = {})
    <3>1. PICK e : e = [heap[o] EXCEPT !.owners = heap[o].owners \cup {clone.id}]
      OBVIOUS
    <3>2. heap' = [heap EXCEPT ![o] = e]
      BY <2>2, <3>1
    <3>3. CASE o \in Objects
      <4>1. heap[o] \in [owners : SUBSET Ids, value : Values \cup {None}, mu : Roots \cup {None}]
        BY <1>6, <3>3 DEF Heaps
      <4>2. /\ e \in [owners : SUBSET Ids, value : Values \cup {None}, mu : Roots \cup {None}]
            /\ e.value = heap[o].value
        BY <1>4, <3>1, <4>1
      <4>3. ~panicked' => heap[o].owners # {}
        BY <2>2
      <4> QED
        BY <1>6, <3>2, <3>3, <4>2, <4>3 DEF Heaps
    <3>4. CASE o \notin Objects
      <4>1. heap' = heap
        BY <1>6, <3>2, <3>4 DEF Heaps
      <4> QED
        BY <1>6, <4>1
    <3> QED
      BY <3>3, <3>4
  <2> QED
    BY <1>3, <2>1, <2>2
<1>8. Frames' = Frames /\ Values' = Values /\ Texts' = Texts
  BY <1>2 DEF Frames, Values, Texts
<1>9. CloneShape' /\ JobShape'
  BY <1>2, <1>5, <1>8 DEF IInv, Shape, CloneShape, JobShape
<1>10. Shape'
  BY <1>2, <1>7, <1>8, <1>9 DEF IInv, Shape, Heaps
<1>11. StacksOK'
  BY <1>2, OtherStacks
<1>12. \A u \in Objects : \A g : Key(u, g)' => Key(u, g)
  BY <1>2, OtherKeys
<1>13. KeysOK'
  BY <1>12 DEF IInv, KeysOK
<1>14. ASSUME ~panicked', NEW u \in Objects, NEW g, Key(u, g)', heap'[u].owners # {}
       PROVE  heap'[u].value \in Values' /\ Closed(heap'[u].value, g)
  <2>1. heap[u].owners # {} /\ heap'[u].value = heap[u].value /\ Key(u, g)
    BY <1>7, <1>12, <1>14
  <2>2. heap[u].value \in Values /\ Closed(heap[u].value, g)
    BY <1>2, <2>1 DEF IInv, ValuesOK
  <2> QED
    BY <1>8, <2>1, <2>2
<1>15. ValuesOK'
  BY <1>14 DEF ValuesOK
<1>16. CloneOK'
  BY <1>2, <1>5 DEF IInv, CloneOK
<1>17. SnapshotsOK'
  BY <1>2 DEF IInv, SnapshotsOK
<1>18. RefsOK'
  BY <1>2 DEF IInv, RefsOK, Holders
<1> QED
  BY <1>10, <1>11, <1>13, <1>15, <1>16, <1>17, <1>18 DEF IInv

----------------------------------------------------------------------------
(* References to snapshots *)

(* A snapshot with another count.                                          *)
LEMMA SnapshotForms ==
    ASSUME world \in Worlds, NEW x \in SnapshotsOf(world), NEW n \in Nat, NEW y, y = [x EXCEPT !.refs = n]
    PROVE  /\ y \in SnapshotsOf(world) /\ y # None /\ y.refs = n
           /\ y.cmds = x.cmds /\ y.fs = x.fs /\ y.pending = x.pending
<1>1. PICK A, B, C : /\ A = [Roots -> ValuesOf(world)] /\ B = [Files -> TextsOf(world)]
                     /\ C = SUBSET Roots
  OBVIOUS
<1>2. SnapshotsOf(world) = [cmds : A, fs : B, pending : C, refs : Nat]
  BY <1>1 DEF SnapshotsOf
<1>3. /\ y \in [cmds : A, fs : B, pending : C, refs : Nat] /\ y.refs = n
      /\ y.cmds = x.cmds /\ y.fs = x.fs /\ y.pending = x.pending
  <2>1. ASSUME NEW X, NEW Y, NEW Z, NEW z \in [cmds : X, fs : Y, pending : Z, refs : Nat]
        PROVE  /\ [z EXCEPT !.refs = n] \in [cmds : X, fs : Y, pending : Z, refs : Nat]
               /\ [z EXCEPT !.refs = n].refs = n /\ [z EXCEPT !.refs = n].cmds = z.cmds
               /\ [z EXCEPT !.refs = n].fs = z.fs /\ [z EXCEPT !.refs = n].pending = z.pending
    BY SMT
  <2> QED
    BY <1>2, <2>1
<1>4. y # None
  BY <1>2, <1>3, ConfigAssumption
<1> QED
  BY <1>1, <1>2, <1>3, <1>4

(* Who has a reference to a snapshot.                                      *)
LEMMA HolderFacts ==
    ASSUME IInv, NEW i \in Ids, NEW x \in Holders(i)
    PROVE  /\ IsFiniteSet(Holders(i)) /\ snapshots[i] # None /\ snapshots[i] \in SnapshotsOf(world)
           /\ snapshots[i].refs = Cardinality(Holders(i)) /\ snapshots[i].refs \in Nat
           /\ snapshots[i].refs - 1 \in Nat
           /\ Cardinality(Holders(i) \ {x}) = snapshots[i].refs - 1
           /\ snapshots[i].refs = 1 => Holders(i) \ {x} = {}
<1>1. PICK S, T : S = Holders(i) /\ T = Requests \cup {Updater}
  OBVIOUS
<1>2. IsFiniteSet(T)
  BY <1>1, ConfigAssumption, FS_AddElement
<1>3. S \subseteq T
  BY <1>1 DEF Holders
<1>4. IsFiniteSet(S)
  BY <1>2, <1>3, FS_Subset
<1>5. snapshots[i] # None /\ snapshots[i].refs = Cardinality(S)
  BY <1>1 DEF IInv, RefsOK
<1>6. Cardinality(S) \in Nat
  BY <1>4, FS_CardinalityType
<1>7. IsFiniteSet(S \ {x}) /\ Cardinality(S \ {x}) = Cardinality(S) - 1
  BY <1>1, <1>4, FS_RemoveElement
<1>8. Cardinality(S \ {x}) \in Nat
  BY <1>7, FS_CardinalityType
<1>9. Cardinality(S) = 1 => Cardinality(S \ {x}) = 0
  BY <1>6, <1>7, SMT
<1>10. Cardinality(S) = 1 => S \ {x} = {}
  BY <1>7, <1>9, FS_EmptySet
<1>11. snapshots[i] \in SnapshotsOf(world)
  BY <1>5 DEF IInv, Shape
<1> QED
  BY <1>1, <1>4, <1>5, <1>6, <1>7, <1>8, <1>10, <1>11

(* One of them lets it go.                                                 *)
LEMMA LetGo ==
    ASSUME IInv, NEW i \in Ids, NEW x \in Holders(i), NEW y, Named(y, Unref(snapshots[i]))
    PROVE  /\ y \in SnapshotsOf(world) \cup {None}
           /\ Holders(i) \ {x} # {} => y # None /\ y.refs = Cardinality(Holders(i) \ {x})
           /\ y # None => /\ y.cmds = snapshots[i].cmds /\ y.fs = snapshots[i].fs
                          /\ y.pending = snapshots[i].pending
<1>1. PICK m, w : m = snapshots[i].refs - 1 /\ w = [snapshots[i] EXCEPT !.refs = m]
  OBVIOUS
<1>2. /\ snapshots[i] \in SnapshotsOf(world) /\ m \in Nat /\ Cardinality(Holders(i) \ {x}) = m
      /\ snapshots[i].refs = 1 => Holders(i) \ {x} = {}
  BY <1>1, HolderFacts
<1>3. world \in Worlds
  BY DEF IInv, Shape
<1>4. /\ w \in SnapshotsOf(world) /\ w # None /\ w.refs = m
      /\ w.cmds = snapshots[i].cmds /\ w.fs = snapshots[i].fs /\ w.pending = snapshots[i].pending
  BY <1>1, <1>2, <1>3, SnapshotForms, SMT
<1>5. y = IF snapshots[i].refs = 1 THEN None ELSE w
  BY <1>1 DEF Named, Unref
<1>6. CASE snapshots[i].refs = 1
  BY <1>2, <1>5, <1>6
<1>7. CASE snapshots[i].refs # 1
  BY <1>2, <1>4, <1>5, <1>7
<1> QED
  BY <1>6, <1>7

(* What a snapshot says stays as it is.                                    *)
LEMMA SnapshotsKeep ==
    ASSUME IInv, NEW i \in Ids,
           snapshots'[i] # None => /\ snapshots[i] # None /\ snapshots'[i].cmds = snapshots[i].cmds
                                   /\ snapshots'[i].fs = snapshots[i].fs
                                   /\ snapshots'[i].pending = snapshots[i].pending,
           snapshots'[i] # None, NEW r \in Roots \ snapshots'[i].pending
    PROVE  Fresh(snapshots'[i].cmds[r], r, snapshots'[i].fs)
BY DEF IInv, SnapshotsOK

(* The job of a process that has let its reference go.                     *)
LEMMA NoJobFacts == DOMAIN NoJob = JobFields /\ NoJob.snapshot = None /\ NoJob.todo = <<>>
BY DEF NoJob, JobFields

(* One of the jobs changes.                                                *)
LEMMA JobMove ==
    ASSUME JobShape, NEW p \in Procs, NEW j, job' = [job EXCEPT ![p] = j], DOMAIN j = JobFields,
           j.snapshot \in Ids \cup {None}, j.todo # <<>> => j.snapshot = None
    PROVE  JobShape' /\ job'[p] = j /\ \A q \in Procs : q # p => job'[q] = job[q]
<1>1. DOMAIN job' = Procs /\ job'[p] = j /\ \A q \in Procs : q # p => job'[q] = job[q]
  BY DEF JobShape
<1>2. ASSUME NEW q \in Procs
      PROVE  /\ DOMAIN job'[q] = JobFields /\ job'[q].snapshot \in Ids \cup {None}
             /\ job'[q].todo # <<>> => job'[q].snapshot = None
  <2>1. CASE q = p
    BY <1>1, <2>1
  <2>2. CASE q # p
    <3>1. /\ DOMAIN job[q] = JobFields /\ job[q].snapshot \in Ids \cup {None}
          /\ job[q].todo # <<>> => job[q].snapshot = None
      BY <1>2 DEF JobShape
    <3>2. job'[q] = job[q]
      BY <1>1, <1>2, <2>2
    <3> QED
      BY <3>1, <3>2
  <2> QED
    BY <2>1, <2>2
<1> QED
  BY <1>1, <1>2 DEF JobShape

(* After Deref there is no reference.                                      *)
LEMMA DerefFacts ==
    ASSUME JobShape, NEW p \in Procs, NEW s, Deref(p, s)
    PROVE  JobShape' /\ job'[p].snapshot = None /\ \A q \in Procs : q # p => job'[q] = job[q]
<1>1. PICK j, t : /\ j = NoJob \/ j = [NoJob EXCEPT !.id = s, !.todo = t]
                  /\ job' = [job EXCEPT ![p] = j]
  BY DEF Deref
<1>2. DOMAIN j = JobFields /\ j.snapshot = None
  <2>1. PICK k : k = NoJob
    OBVIOUS
  <2>2. DOMAIN k = JobFields /\ k.snapshot = None
    BY <2>1, NoJobFacts
  <2>3. j = k \/ j = [k EXCEPT !.id = s, !.todo = t]
    BY <1>1, <2>1
  <2>4. CASE j = k
    BY <2>2, <2>4
  <2>5. CASE j = [k EXCEPT !.id = s, !.todo = t]
    BY <2>2, <2>5, SMT DEF JobFields
  <2> QED
    BY <2>3, <2>4, <2>5
<1>3. j.snapshot \in Ids \cup {None}
  BY <1>2
<1> QED
  BY <1>1, <1>2, <1>3, JobMove

(* The clone becomes the session's snapshot.                               *)
LEMMA StepInstall ==
    ASSUME IInv, Install, world' = world
    PROVE  IInv'
<1>1. PICK n, old, x, y :
         /\ n = clone.id /\ old = snapshots[current]
         /\ x = [cmds |-> clone.cmds, fs |-> clone.fs, pending |-> clone.pending, refs |-> 1]
         /\ y = Unref(old)
  OBVIOUS
<1>2. /\ UNCHANGED <<files, entries, heap, parser, panicked, world>> /\ clone.pc = "own" /\ ~panicked
      /\ current' = n /\ Deref(Updater, current)
      /\ clone' = [clone EXCEPT !.pc = "idle", !.id = None, !.pending = {}]
  BY <1>1 DEF Install
<1>3. n \in Ids /\ snapshots[n] = None
  BY <1>1, <1>2 DEF IInv, CloneOK
<1>4. current \in Ids /\ snapshots[current] # None /\ Updater \in Holders(current) /\ current # n
  BY <1>3, CurrentFacts
<1>5. snapshots \in [Ids -> SnapshotsOf(world) \cup {None}]
  BY DEF IInv, Shape
<1>6. snapshots'[n] = x /\ snapshots'[current] = y /\ DOMAIN snapshots' = Ids
      /\ \A i \in Ids : i # n /\ i # current => snapshots'[i] = snapshots[i]
  <2>1. snapshots' = [snapshots EXCEPT
           ![clone.id] = [cmds |-> clone.cmds, fs |-> clone.fs, pending |-> clone.pending, refs |-> 1],
           ![current] = Unref(@)]
    BY DEF Install
  <2>2. snapshots' = [snapshots EXCEPT ![n] = x, ![current] = Unref(@)]
    BY <1>1, <2>1
  <2>3. /\ DOMAIN snapshots' = Ids /\ snapshots'[n] = x /\ snapshots'[current] = Unref(snapshots[current])
        /\ \A i \in Ids : i # n /\ i # current => snapshots'[i] = snapshots[i]
    BY <1>3, <1>4, <1>5, <2>2
  <2> QED
    BY <1>1, <2>3
<1>7. /\ DOMAIN clone = CloneFields /\ clone.fs = files /\ clone.cmds \in [Roots -> Values]
      /\ clone.pending \in SUBSET Roots /\ files \in [Files -> Texts] /\ world \in Worlds /\ JobShape
  BY DEF IInv, Shape, CloneShape
<1>8. /\ x \in SnapshotsOf(world) /\ x.refs = 1 /\ x.cmds = clone.cmds /\ x.fs = files
      /\ x.pending = clone.pending
  <2>1. 1 \in Nat
    BY SMT
  <2> QED
    BY <1>1, <1>7, <2>1 DEF SnapshotsOf, Values, Texts
<1>9. x # None
  BY <1>7, <1>8, ConfigAssumption
<1>10. /\ y \in SnapshotsOf(world) \cup {None}
       /\ Holders(current) \ {Updater} # {} => y # None /\ y.refs = Cardinality(Holders(current) \ {Updater})
       /\ y # None => y.cmds = old.cmds /\ y.fs = old.fs /\ y.pending = old.pending
  <2>1. /\ y \in SnapshotsOf(world) \cup {None}
        /\ Holders(current) \ {Updater} # {} => y # None /\ y.refs = Cardinality(Holders(current) \ {Updater})
        /\ y # None => /\ y.cmds = snapshots[current].cmds /\ y.fs = snapshots[current].fs
                       /\ y.pending = snapshots[current].pending
    <3>1. Named(y, Unref(snapshots[current]))
      BY <1>1 DEF Named
    <3> QED
      BY <1>4, <3>1, LetGo
  <2> QED
    BY <1>1, <2>1
<1>11. snapshots' \in [Ids -> SnapshotsOf(world) \cup {None}]
  <2>1. \A i \in Ids : snapshots'[i] \in SnapshotsOf(world) \cup {None}
    BY <1>5, <1>6, <1>8, <1>10
  <2>2. snapshots' = [i \in Ids |-> snapshots'[i]]
    BY <1>6 DEF Install
  <2> QED
    BY <2>1, <2>2
<1>12. JobShape' /\ job'[Updater].snapshot = None /\ \A q \in Procs : q # Updater => job'[q] = job[q]
  BY <1>2, <1>7, DerefFacts DEF Procs
<1>13. /\ DOMAIN clone' = CloneFields /\ clone'.pc = "idle" /\ clone'.fs = files
       /\ clone'.cmds = clone.cmds /\ clone'.pending = {}
  <2>1. PICK c, a : c = clone' /\ a = {}
    OBVIOUS
  <2>2. c = [clone EXCEPT !.pc = "idle", !.id = None, !.pending = a]
    BY <1>2, <2>1
  <2>3. DOMAIN c = CloneFields /\ c.pc = "idle" /\ c.fs = files /\ c.cmds = clone.cmds /\ c.pending = a
    BY <1>7, <2>2, SMT DEF CloneFields
  <2> QED
    BY <2>1, <2>3
<1>14. Frames' = Frames /\ Values' = Values /\ Texts' = Texts
  BY <1>2 DEF Frames, Values, Texts
<1>15. CloneShape'
  BY <1>2, <1>7, <1>13, <1>14 DEF CloneShape
<1>16. Shape'
  BY <1>2, <1>3, <1>11, <1>12, <1>14, <1>15 DEF IInv, Shape
<1>17. StacksOK'
  BY <1>2, OtherStacks
<1>18. KeysOK' /\ ValuesOK'
  BY <1>2, OtherKeys, KeysKeep
<1>19. CloneOK'
  BY <1>2, <1>13 DEF IInv, CloneOK
<1>20. ASSUME NEW i \in Ids, snapshots'[i] # None, NEW r \in Roots \ snapshots'[i].pending
       PROVE  Fresh(snapshots'[i].cmds[r], r, snapshots'[i].fs)
  <2>1. CASE i = n
    <3>1. parser[r].frames = <<>>
      BY <1>2, <1>20, ParkedFacts DEF IInv, CloneOK
    <3> QED
      BY <1>2, <1>6, <1>8, <1>20, <2>1, <3>1 DEF IInv, CloneOK
  <2>2. CASE i # n
    <3>1. /\ snapshots[i] # None /\ snapshots'[i].cmds = snapshots[i].cmds
          /\ snapshots'[i].fs = snapshots[i].fs /\ snapshots'[i].pending = snapshots[i].pending
      BY <1>1, <1>4, <1>6, <1>10, <1>20, <2>2
    <3> QED
      BY <1>20, <3>1, SnapshotsKeep
  <2> QED
    BY <2>1, <2>2
<1>21. SnapshotsOK'
  BY <1>20 DEF SnapshotsOK
<1>22. \A q \in Requests : job'[q] = job[q] /\ q # Updater
  BY <1>12, ConfigAssumption DEF Procs
<1>23. ASSUME NEW i \in Ids, Holders(i)' # {}
       PROVE  snapshots'[i] # None /\ snapshots'[i].refs = Cardinality(Holders(i)')
  <2>1. CASE i = n
    <3>1. Holders(n) = {}
      BY <1>3 DEF IInv, RefsOK
    <3>2. \A q \in Requests : job[q].snapshot # n
      BY <3>1 DEF Holders
    <3>3. Holders(i)' = {Updater}
      BY <1>2, <1>22, <2>1, <3>2 DEF Holders
    <3>4. Cardinality({Updater}) = 1
      BY FS_Singleton
    <3> QED
      BY <1>6, <1>8, <1>9, <2>1, <3>3, <3>4
  <2>2. CASE i = current
    <3>1. Holders(i)' = Holders(current) \ {Updater}
      BY <1>2, <1>4, <1>22, <2>2 DEF Holders
    <3> QED
      BY <1>6, <1>10, <1>23, <2>2, <3>1
  <2>3. CASE i # n /\ i # current
    <3>1. Holders(i)' = Holders(i)
      BY <1>2, <1>22, <2>3 DEF Holders
    <3> QED
      BY <1>6, <1>23, <2>3, <3>1 DEF IInv, RefsOK
  <2> QED
    BY <2>1, <2>2, <2>3
<1>24. RefsOK'
  BY <1>12, <1>23 DEF RefsOK
<1> QED
  BY <1>16, <1>17, <1>18, <1>19, <1>21, <1>24 DEF IInv

(* A request takes a reference to the session's snapshot.                  *)
LEMMA StepRef ==
    ASSUME IInv, NEW q \in Requests, Ref(q), world' = world
    PROVE  IInv'
<1>1. PICK old, y : old = snapshots[current] /\ y = [old EXCEPT !.refs = old.refs + 1]
  OBVIOUS
<1>2. /\ UNCHANGED <<files, entries, heap, current, clone, parser, panicked, world>> /\ job[q] = NoJob
      /\ snapshots' = [snapshots EXCEPT ![current] = y]
      /\ job' = [job EXCEPT ![q].snapshot = current]
  BY <1>1 DEF Ref
<1>3. current \in Ids /\ Updater \in Holders(current) /\ world \in Worlds /\ current # None
      /\ snapshots \in [Ids -> SnapshotsOf(world) \cup {None}]
  BY CurrentFacts, ConfigAssumption DEF IInv, Shape
<1>4. /\ IsFiniteSet(Holders(current)) /\ old # None /\ old \in SnapshotsOf(world)
      /\ old.refs = Cardinality(Holders(current)) /\ old.refs \in Nat
  BY <1>1, <1>3, HolderFacts
<1>5. old.refs + 1 \in Nat
  BY <1>4, SMT
<1>6. /\ y \in SnapshotsOf(world) /\ y # None /\ y.refs = old.refs + 1
      /\ y.cmds = old.cmds /\ y.fs = old.fs /\ y.pending = old.pending
  BY <1>1, <1>3, <1>4, <1>5, SnapshotForms, SMT
<1>7. /\ snapshots' \in [Ids -> SnapshotsOf(world) \cup {None}] /\ snapshots'[current] = y
      /\ \A i \in Ids : i # current => snapshots'[i] = snapshots[i]
  BY <1>2, <1>3, <1>6
<1>8. PICK j : j = [NoJob EXCEPT !.snapshot = current]
  OBVIOUS
<1>9. job' = [job EXCEPT ![q] = j] /\ q \in Procs /\ q # Updater /\ JobShape
  BY <1>2, <1>8, ConfigAssumption DEF Procs, IInv, Shape
<1>10. DOMAIN j = JobFields /\ j.snapshot = current /\ j.todo = <<>>
  <2>1. PICK k : k = NoJob
    OBVIOUS
  <2>2. DOMAIN k = JobFields /\ k.todo = <<>>
    BY <2>1, NoJobFacts
  <2>3. DOMAIN j = JobFields /\ j.snapshot = current /\ j.todo = k.todo
    BY <1>8, <2>1, <2>2, SMT DEF JobFields
  <2> QED
    BY <2>2, <2>3
<1>11. JobShape' /\ job'[q] = j /\ \A p \in Procs : p # q => job'[p] = job[p]
  <2>1. j.snapshot \in Ids \cup {None}
    BY <1>3, <1>10
  <2> QED
    BY <1>9, <1>10, <2>1, JobMove
<1>12. JobShape'
  BY <1>11
<1>13. Frames' = Frames /\ Values' = Values /\ Texts' = Texts
  BY <1>2 DEF Frames, Values, Texts
<1>14. CloneShape'
  BY <1>2, <1>13 DEF IInv, Shape, CloneShape
<1>15. Shape'
  BY <1>2, <1>7, <1>12, <1>13, <1>14 DEF IInv, Shape
<1>16. StacksOK'
  BY <1>2, OtherStacks
<1>17. KeysOK' /\ ValuesOK'
  BY <1>2, OtherKeys, KeysKeep
<1>18. CloneOK'
  <2>1. clone.pc # "idle" => snapshots'[clone.id] = None
    <3>1. clone.pc # "idle" => clone.id \in Ids /\ snapshots[clone.id] = None
      BY DEF IInv, CloneOK
    <3>2. clone.pc # "idle" => clone.id # current
      BY <1>1, <1>4, <3>1
    <3> QED
      BY <1>7, <3>1, <3>2
  <2> QED
    BY <1>2, <2>1 DEF IInv, CloneOK
<1>19. ASSUME NEW i \in Ids, snapshots'[i] # None, NEW r \in Roots \ snapshots'[i].pending
       PROVE  Fresh(snapshots'[i].cmds[r], r, snapshots'[i].fs)
  <2>1. /\ snapshots[i] # None /\ snapshots'[i].cmds = snapshots[i].cmds
        /\ snapshots'[i].fs = snapshots[i].fs /\ snapshots'[i].pending = snapshots[i].pending
    BY <1>1, <1>4, <1>6, <1>7, <1>19
  <2> QED
    BY <1>19, <2>1, SnapshotsKeep
<1>20. SnapshotsOK'
  BY <1>19 DEF SnapshotsOK
<1>21. job[q].snapshot = None
  BY <1>2, NoJobFacts
<1>22. \A p \in Requests : p # q => job'[p] = job[p]
  BY <1>11 DEF Procs
<1>23. ASSUME NEW i \in Ids, Holders(i)' # {}
       PROVE  snapshots'[i] # None /\ snapshots'[i].refs = Cardinality(Holders(i)')
  <2>1. CASE i = current
    <3>1. Holders(i)' = Holders(current) \cup {q}
      BY <1>2, <1>10, <1>11, <1>22, <2>1 DEF Holders
    <3>2. q \notin Holders(current)
      BY <1>3, <1>9, <1>21 DEF Holders
    <3>3. Cardinality(Holders(current) \cup {q}) = Cardinality(Holders(current)) + 1
      BY <1>4, <3>2, FS_AddElement
    <3> QED
      BY <1>4, <1>6, <1>7, <2>1, <3>1, <3>3
  <2>2. CASE i # current
    <3>1. Holders(i)' = Holders(i)
      <4>1. job'[q].snapshot # i /\ job[q].snapshot # i
        BY <1>10, <1>11, <1>21, <1>23, <2>2, ConfigAssumption
      <4> QED
        BY <1>2, <1>22, <4>1 DEF Holders
    <3> QED
      BY <1>7, <1>23, <2>2, <3>1 DEF IInv, RefsOK
  <2> QED
    BY <2>1, <2>2
<1>24. job'[Updater].snapshot = None
  BY <1>9, <1>11 DEF IInv, RefsOK, Procs
<1>25. RefsOK'
  BY <1>23, <1>24 DEF RefsOK
<1> QED
  BY <1>15, <1>16, <1>17, <1>18, <1>20, <1>25 DEF IInv

(* A request ends.                                                         *)
LEMMA StepEnd ==
    ASSUME IInv, NEW q \in Requests, End(q), world' = world
    PROVE  IInv'
<1>1. PICK s, y : s = job[q].snapshot /\ y = Unref(snapshots[s])
  OBVIOUS
<1>2. /\ UNCHANGED <<files, entries, heap, current, clone, parser, panicked, world>>
      /\ s # None /\ snapshots' = [snapshots EXCEPT ![s] = y] /\ Deref(q, s)
  BY <1>1 DEF End
<1>3. /\ q \in Procs /\ q # Updater /\ JobShape
      /\ snapshots \in [Ids -> SnapshotsOf(world) \cup {None}]
  BY ConfigAssumption DEF Procs, IInv, Shape
<1>4. s \in Ids /\ q \in Holders(s)
  <2>1. s \in Ids \cup {None}
    BY <1>1, <1>3 DEF JobShape
  <2> QED
    BY <1>1, <1>2, <2>1 DEF Holders
<1>5. /\ y \in SnapshotsOf(world) \cup {None}
      /\ Holders(s) \ {q} # {} => y # None /\ y.refs = Cardinality(Holders(s) \ {q})
      /\ y # None => y.cmds = snapshots[s].cmds /\ y.fs = snapshots[s].fs /\ y.pending = snapshots[s].pending
  <2>1. Named(y, Unref(snapshots[s]))
    BY <1>1 DEF Named
  <2> QED
    BY <1>4, <2>1, LetGo
<1>6. snapshots[s] # None
  BY <1>4, HolderFacts
<1>7. /\ snapshots' \in [Ids -> SnapshotsOf(world) \cup {None}] /\ snapshots'[s] = y
      /\ \A i \in Ids : i # s => snapshots'[i] = snapshots[i]
  BY <1>2, <1>3, <1>4, <1>5
<1>8. JobShape' /\ job'[q].snapshot = None /\ \A p \in Procs : p # q => job'[p] = job[p]
  BY <1>2, <1>3, DerefFacts
<1>9. Frames' = Frames /\ Values' = Values /\ Texts' = Texts
  BY <1>2 DEF Frames, Values, Texts
<1>10. CloneShape'
  BY <1>2, <1>9 DEF IInv, Shape, CloneShape
<1>11. Shape'
  BY <1>2, <1>7, <1>8, <1>9, <1>10 DEF IInv, Shape
<1>12. StacksOK'
  BY <1>2, OtherStacks
<1>13. KeysOK' /\ ValuesOK'
  BY <1>2, OtherKeys, KeysKeep
<1>14. CloneOK'
  <2>1. clone.pc # "idle" => snapshots'[clone.id] = None
    <3>1. clone.pc # "idle" => clone.id \in Ids /\ snapshots[clone.id] = None
      BY DEF IInv, CloneOK
    <3>2. clone.pc # "idle" => clone.id # s
      BY <1>6, <3>1
    <3> QED
      BY <1>7, <3>1, <3>2
  <2> QED
    BY <1>2, <2>1 DEF IInv, CloneOK
<1>15. ASSUME NEW i \in Ids, snapshots'[i] # None, NEW r \in Roots \ snapshots'[i].pending
       PROVE  Fresh(snapshots'[i].cmds[r], r, snapshots'[i].fs)
  <2>1. /\ snapshots[i] # None /\ snapshots'[i].cmds = snapshots[i].cmds
        /\ snapshots'[i].fs = snapshots[i].fs /\ snapshots'[i].pending = snapshots[i].pending
    BY <1>5, <1>6, <1>7, <1>15
  <2> QED
    BY <1>15, <2>1, SnapshotsKeep
<1>16. SnapshotsOK'
  BY <1>15 DEF SnapshotsOK
<1>17. \A p \in Requests : p # q => job'[p] = job[p]
  BY <1>8 DEF Procs
<1>18. ASSUME NEW i \in Ids, Holders(i)' # {}
       PROVE  snapshots'[i] # None /\ snapshots'[i].refs = Cardinality(Holders(i)')
  <2>1. job'[q].snapshot # i
    BY <1>8, <1>18, ConfigAssumption
  <2>2. CASE i = s
    <3>1. Holders(i)' = Holders(s) \ {q}
      BY <1>2, <1>3, <1>17, <2>1, <2>2 DEF Holders
    <3> QED
      BY <1>5, <1>7, <1>18, <2>2, <3>1
  <2>3. CASE i # s
    <3>1. Holders(i)' = Holders(i)
      BY <1>1, <1>2, <1>17, <2>1, <2>3 DEF Holders
    <3> QED
      BY <1>7, <1>18, <2>3, <3>1 DEF IInv, RefsOK
  <2> QED
    BY <2>2, <2>3
<1>19. job'[Updater].snapshot = None
  BY <1>3, <1>8 DEF IInv, RefsOK, Procs
<1>20. RefsOK'
  BY <1>18, <1>19 DEF RefsOK
<1> QED
  BY <1>11, <1>12, <1>13, <1>14, <1>16, <1>20 DEF IInv

(* Release takes an owner from an entry, which may leave the map.          *)
LEMMA StepRelease ==
    ASSUME IInv, NEW p \in Procs, Release(p), world' = world
    PROVE  IInv'
<1>1. PICK f, o, next : /\ f = Head(job[p].todo) /\ o = job[p].loaded
                        /\ next = IF Len(job[p].todo) = 1 THEN NoJob
                                  ELSE [job[p] EXCEPT !.todo = Tail(@), !.loaded = None]
  OBVIOUS
<1>2. UNCHANGED <<files, snapshots, current, clone, parser, panicked, world>> /\ job[p].todo # <<>>
  BY DEF Release
<1>3. /\ \/ job' = [job EXCEPT ![p] = next]
         \/ job' = [job EXCEPT ![p] = [job[p] EXCEPT !.loaded = entries[f]]]
      /\ \/ UNCHANGED <<entries, heap>>
         \/ /\ heap' = [heap EXCEPT ![o].owners = @ \ {job[p].id}]
            /\ entries' = [entries EXCEPT ![f] = None] \/ entries' = [entries EXCEPT ![f] = @]
  <2>1. CASE o = None
    <3>1. CASE entries[f] = None
      BY <1>1, <2>1, <3>1 DEF Release
    <3>2. CASE entries[f] # None
      BY <1>1, <2>1, <3>2 DEF Release
    <3> QED
      BY <3>1, <3>2
  <2>2. CASE o # None
    <3>1. CASE heap'[o].owners = {}
      BY <1>1, <2>2, <3>1 DEF Release
    <3>2. CASE heap'[o].owners # {}
      BY <1>1, <2>2, <3>2 DEF Release
    <3> QED
      BY <3>1, <3>2
  <2> QED
    BY <2>1, <2>2
<1>4. JobShape /\ DOMAIN job[p] = JobFields /\ job[p].snapshot = None
  <2>1. JobShape
    BY DEF IInv, Shape
  <2> QED
    BY <1>2, <2>1 DEF JobShape
<1>5. PICK j : job' = [job EXCEPT ![p] = j] /\ DOMAIN j = JobFields /\ j.snapshot = None
  <2>1. PICK n, k, a, t : n = NoJob /\ k = job[p] /\ a = entries[f] /\ t = Tail(job[p].todo)
    OBVIOUS
  <2>2. DOMAIN n = JobFields /\ n.snapshot = None /\ DOMAIN k = JobFields /\ k.snapshot = None
    BY <1>4, <2>1, NoJobFacts
  <2>3. next = n \/ next = [k EXCEPT !.todo = t, !.loaded = None]
    BY <1>1, <2>1
  <2>4. DOMAIN next = JobFields /\ next.snapshot = None
    <3>1. CASE next = n
      BY <2>2, <3>1
    <3>2. CASE next = [k EXCEPT !.todo = t, !.loaded = None]
      BY <2>2, <3>2, SMT DEF JobFields
    <3> QED
      BY <2>3, <3>1, <3>2
  <2>5. PICK j : j = [k EXCEPT !.loaded = a]
    OBVIOUS
  <2>6. DOMAIN j = JobFields /\ j.snapshot = None
    BY <2>2, <2>5, SMT DEF JobFields
  <2>7. job' = [job EXCEPT ![p] = next] \/ job' = [job EXCEPT ![p] = j]
    BY <1>3, <2>1, <2>5
  <2> QED
    BY <2>4, <2>6, <2>7
<1>6. JobShape' /\ job'[p] = j /\ \A q \in Procs : q # p => job'[q] = job[q]
  <2>1. j.snapshot \in Ids \cup {None}
    BY <1>5
  <2> QED
    BY <1>4, <1>5, <2>1, JobMove
<1>7. JobShape'
  BY <1>6
<1>8. \A q \in Procs : job'[q].snapshot = job[q].snapshot
  BY <1>4, <1>5, <1>6
<1>9. heap \in Heaps /\ entries \in [Configs -> Objects \cup {None}] /\ None \notin Objects
  BY ConfigAssumption DEF IInv, Shape, Heaps
<1>10. /\ entries' \in [Configs -> Objects \cup {None}]
       /\ \A g \in Configs : entries'[g] = None \/ entries'[g] = entries[g]
  <2>1. CASE entries' = [entries EXCEPT ![f] = None]
    BY <1>9, <2>1
  <2>2. CASE entries' = [entries EXCEPT ![f] = @]
    BY <1>9, <2>2
  <2> QED
    BY <1>3, <1>9, <2>1, <2>2
<1>11. /\ heap' \in Heaps
       /\ \A u \in Objects : heap'[u].owners # {} => heap[u].owners # {} /\ heap'[u].value = heap[u].value
  <2>1. CASE UNCHANGED heap
    BY <1>9, <2>1
  <2>2. CASE heap' = [heap EXCEPT ![o].owners = @ \ {job[p].id}]
    <3>1. PICK e : e = [heap[o] EXCEPT !.owners = heap[o].owners \ {job[p].id}]
      OBVIOUS
    <3>2. heap' = [heap EXCEPT ![o] = e]
      BY <2>2, <3>1
    <3>3. CASE o \in Objects
      <4>1. heap[o] \in [owners : SUBSET Ids, value : Values \cup {None}, mu : Roots \cup {None}]
        BY <1>9, <3>3 DEF Heaps
      <4>2. /\ e \in [owners : SUBSET Ids, value : Values \cup {None}, mu : Roots \cup {None}]
            /\ e.value = heap[o].value /\ e.owners = heap[o].owners \ {job[p].id}
        BY <3>1, <4>1
      <4>3. e.owners # {} => heap[o].owners # {}
        BY <4>2
      <4> QED
        BY <1>9, <3>2, <3>3, <4>2, <4>3 DEF Heaps
    <3>4. CASE o \notin Objects
      <4>1. heap' = heap
        BY <1>9, <3>2, <3>4 DEF Heaps
      <4> QED
        BY <1>9, <4>1
    <3> QED
      BY <3>3, <3>4
  <2> QED
    BY <1>3, <2>1, <2>2
<1>12. Frames' = Frames /\ Values' = Values /\ Texts' = Texts
  BY <1>2 DEF Frames, Values, Texts
<1>13. CloneShape'
  BY <1>2, <1>12 DEF IInv, Shape, CloneShape
<1>14. Shape'
  BY <1>2, <1>7, <1>10, <1>11, <1>12, <1>13 DEF IInv, Shape, Heaps
<1>15. StacksOK'
  BY <1>2, OtherStacks
<1>16. \A u \in Objects : \A g : Key(u, g)' => Key(u, g)
  BY <1>2, <1>9, <1>10, OtherKeys
<1>17. KeysOK' /\ ValuesOK'
  BY <1>2, <1>11, <1>16, KeysKeep
<1>18. CloneOK'
  BY <1>2 DEF IInv, CloneOK
<1>19. SnapshotsOK'
  BY <1>2 DEF IInv, SnapshotsOK
<1>20. \A i \in Ids : Holders(i)' = Holders(i)
  BY <1>2, <1>8 DEF Holders, Procs
<1>21. RefsOK'
  BY <1>2, <1>8, <1>20 DEF IInv, RefsOK, Procs
<1> QED
  BY <1>14, <1>15, <1>17, <1>18, <1>19, <1>21 DEF IInv

----------------------------------------------------------------------------
(* The theorem *)

(* The session starts with configurations that extend nothing.             *)
LEMMA InitOK == Init => IInv
<1> SUFFICES ASSUME Init
             PROVE  IInv
  OBVIOUS
<1>1. /\ world \in Worlds /\ files \in [Files -> Texts] /\ (\A r \in Roots : files[r].extends = <<>>)
      /\ entries = [f \in Configs |-> None] /\ heap = [o \in Objects |-> Unused]
      /\ clone = NoClone /\ parser = [r \in Roots |-> Parked] /\ job = [p \in Procs |-> NoJob] /\ ~panicked
  BY DEF Init
<1>2. current \in Ids
  BY ConfigAssumption DEF Init, AnyOf
<1>3. PICK c, x : /\ c = [r \in Roots |-> [f \in {r} |-> files[r]]]
                  /\ x = [cmds |-> c, fs |-> files, pending |-> {}, refs |-> 1]
  OBVIOUS
<1>4. snapshots = [i \in Ids |-> IF i = current THEN x ELSE None]
  BY <1>3 DEF Init
<1>5. ASSUME NEW r \in Roots
      PROVE  c[r] \in Values /\ Fresh(c[r], r, files)
  <2>1. PICK v : v = [f \in {r} |-> files[r]]
    OBVIOUS
  <2>2. c[r] = v /\ DOMAIN v = {r} /\ v[r] = files[r]
    BY <1>3, <1>5, <2>1
  <2>3. v \in [{r} -> Texts] /\ {r} \in SUBSET Files
    BY <1>1, <1>5, <2>1 DEF Files
  <2>4. v \in Values
    BY <2>3 DEF Values, ValuesOf, Texts
  <2>5. Range(v[r].extends) = {}
    BY <1>1, <1>5, <2>2, EmptyList
  <2>6. Fresh(v, r, files)
    BY <2>2, <2>5 DEF Fresh, Closed
  <2> QED
    BY <2>2, <2>4, <2>6
<1>6. c \in [Roots -> Values]
  BY <1>3, <1>5
<1>7. /\ x \in SnapshotsOf(world) /\ x.cmds = c /\ x.fs = files /\ x.pending = {} /\ x.refs = 1
  <2>1. 1 \in Nat
    BY SMT
  <2> QED
    BY <1>1, <1>3, <1>6, <2>1 DEF SnapshotsOf, Values, Texts
<1>8. x # None
  BY <1>1, <1>7, ConfigAssumption
<1>9. snapshots \in [Ids -> SnapshotsOf(world) \cup {None}] /\ snapshots[current] = x
      /\ \A i \in Ids : i # current => snapshots[i] = None
  BY <1>2, <1>4, <1>7
<1>10. heap \in [Objects -> [owners : SUBSET Ids, value : Values \cup {None}, mu : Roots \cup {None}]]
       /\ \A o \in Objects : heap[o].owners = {}
  <2>1. /\ Unused \in [owners : SUBSET Ids, value : Values \cup {None}, mu : Roots \cup {None}]
        /\ Unused.owners = {}
    BY DEF Unused
  <2> QED
    BY <1>1, <2>1
<1>11. parser \in [Roots -> Parsers] /\ \A r \in Roots : parser[r] = Parked
  BY <1>1, ParkedFacts
<1>12. CloneShape /\ clone.pc = "idle"
  <2>1. /\ DOMAIN clone = CloneFields /\ clone.pc = "idle" /\ clone.fs = files
        /\ clone.cmds = snapshots[current].cmds /\ clone.pending = {}
    BY <1>1 DEF NoClone, CloneFields
  <2> QED
    BY <1>6, <1>7, <1>9, <2>1 DEF CloneShape
<1>13. JobShape /\ \A p \in Procs : job[p].snapshot = None
  BY <1>1, NoJobFacts DEF JobShape
<1>14. Shape
  BY <1>1, <1>2, <1>9, <1>10, <1>11, <1>12, <1>13 DEF Shape, Parsers
<1>15. StacksOK
  BY <1>11, ParkedFacts, EmptyStack DEF StacksOK
<1>16. \A o \in Objects : \A f : ~Key(o, f)
  <2>1. \A f \in Configs : entries[f] = None
    BY <1>1
  <2> QED
    BY <1>11, <2>1, ParkedFacts, ConfigAssumption DEF Key, WaitKey, ParseKey
<1>17. KeysOK /\ ValuesOK
  BY <1>16 DEF KeysOK, ValuesOK
<1>18. CloneOK
  BY <1>1, <1>11, <1>12, ParkedFacts DEF CloneOK
<1>19. SnapshotsOK
  BY <1>5, <1>7, <1>9 DEF SnapshotsOK
<1>20. ASSUME NEW i \in Ids, Holders(i) # {}
       PROVE  snapshots[i] # None /\ snapshots[i].refs = Cardinality(Holders(i))
  <2>1. \A q \in Requests : job[q].snapshot # i
    BY <1>13, <1>20, ConfigAssumption DEF Procs
  <2>2. i = current /\ Holders(i) = {Updater}
    BY <1>20, <2>1 DEF Holders
  <2>3. Cardinality({Updater}) = 1
    BY FS_Singleton
  <2> QED
    BY <1>7, <1>8, <1>9, <2>2, <2>3
<1>21. RefsOK
  BY <1>13, <1>20 DEF RefsOK, Procs
<1> QED
  BY <1>14, <1>15, <1>17, <1>18, <1>19, <1>21 DEF IInv

(* Every step keeps the invariant, as long as no file extends itself.      *)
LEMMA StepOK == IInv /\ Acyclic /\ [Next]_vars => IInv'
<1> SUFFICES ASSUME IInv, Acyclic, [Next]_vars
             PROVE  IInv'
  OBVIOUS
<1>1. CASE UNCHANGED vars
  <2>1. /\ UNCHANGED <<files, entries, heap, snapshots, current, clone, parser, job, panicked, world>>
    BY <1>1 DEF vars
  <2>2. Frames' = Frames /\ Values' = Values /\ Texts' = Texts
    BY <2>1 DEF Frames, Values, Texts
  <2>3. CloneShape' /\ JobShape'
    BY <2>1, <2>2 DEF IInv, Shape, CloneShape, JobShape
  <2>4. Shape'
    BY <2>1, <2>2, <2>3 DEF IInv, Shape
  <2>5. StacksOK'
    BY <2>1, OtherStacks
  <2>6. KeysOK' /\ ValuesOK'
    BY <2>1, OtherKeys, KeysKeep
  <2>7. CloneOK'
    BY <2>1 DEF IInv, CloneOK
  <2>8. SnapshotsOK'
    BY <2>1 DEF IInv, SnapshotsOK
  <2>9. RefsOK'
    BY <2>1 DEF IInv, RefsOK, Holders
  <2> QED
    BY <2>4, <2>5, <2>6, <2>7, <2>8, <2>9 DEF IInv
<1>2. CASE Next
  <2>1. world' = world
    BY <1>2 DEF Next
  <2>2. ASSUME NEW f \in Files, Edit(f)
        PROVE  IInv'
    BY <2>1, <2>2, StepEdit
  <2>3. CASE Clone
    BY <2>1, <2>3, StepClone
  <2>4. CASE CloneStep
    BY <2>1, <2>4, StepFinalize, StepAddOwner, StepInstall DEF CloneStep
  <2>5. ASSUME NEW r \in Roots, ParseStep(r)
        PROVE  IInv'
    BY <2>1, <2>5, StepLoadOrStore, StepLockExisting, StepAcquired, StepParsed DEF ParseStep
  <2>6. ASSUME NEW q \in Requests, Ref(q) \/ End(q)
        PROVE  IInv'
    BY <2>1, <2>6, StepRef, StepEnd
  <2>7. ASSUME NEW p \in Procs, Release(p)
        PROVE  IInv'
    BY <2>1, <2>7, StepRelease
  <2> QED
    BY <1>2, <2>2, <2>3, <2>4, <2>5, <2>6, <2>7 DEF Next
<1> QED
  BY <1>1, <1>2

(* As long as no file extends itself, directly or by way of others, what a *)
(* snapshot has for a configuration is what parsing its files without the  *)
(* cache yields, whatever other parsers, clones and releases do to the     *)
(* entries it was taken from.                                              *)
THEOREM CacheIsNeverStale == Spec /\ []Acyclic => []NeverStale
<1>1. IInv => NeverStale
  <2> SUFFICES ASSUME IInv, NEW i \in Ids, snapshots[i] # None, NEW r \in Roots \ snapshots[i].pending
               PROVE  /\ r \in DOMAIN snapshots[i].cmds[r]
                      /\ \A f \in DOMAIN snapshots[i].cmds[r] :
                            /\ snapshots[i].cmds[r][f] = snapshots[i].fs[f]
                            /\ Range(snapshots[i].cmds[r][f].extends) \subseteq DOMAIN snapshots[i].cmds[r]
    BY DEF NeverStale
  <2>1. Fresh(snapshots[i].cmds[r], r, snapshots[i].fs)
    BY DEF IInv, SnapshotsOK
  <2> QED
    BY <2>1 DEF Fresh, Closed
<1> QED
  BY <1>1, InitOK, StepOK, PTL DEF Spec

=============================================================================
