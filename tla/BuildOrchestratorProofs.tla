---------------------- MODULE BuildOrchestratorProofs ----------------------
(***************************************************************************)
(* What holds of project builds for every set of projects, every number of *)
(* goroutines and every use.                                               *)
(***************************************************************************)
EXTENDS BuildOrchestrator, WellFoundedInduction, TLAPS

----------------------------------------------------------------------------
(* The inductive invariant *)

Pcs == {"next", "wait", "clean", "compile", "emit", "unblock", "report", "end"}
IsTimes(f) == f \in [Projects -> Nat \cup {Null}]
IsWorker(r) ==
    /\ r = [pc |-> r.pc, project |-> r.project, text |-> r.text, sig |-> r.sig, err |-> r.err, deps |-> r.deps]
    /\ r.pc \in Pcs
IsOutput(o) ==
    /\ o = [time |-> o.time, dtsTime |-> o.dtsTime, sig |-> o.sig, text |-> o.text, err |-> o.err, deps |-> o.deps]
    /\ o.time \in Nat /\ o.dtsTime \in Nat

(* Files, times and goroutines have the right form.                        *)
Typed ==
    /\ TypeOK /\ use \in Uses /\ clock \in Nat
    /\ src \in [Projects -> [time : Nat, text : Nat, sig : Nat, err : BOOLEAN]]
    /\ cfg \in [Projects -> [time : Nat, refs : Seq(Projects)]]
    /\ mTimes = [src |-> mTimes.src, cfg |-> mTimes.cfg] /\ IsTimes(mTimes.src) /\ IsTimes(mTimes.cfg)
    /\ out = [p \in Projects |-> out[p]] /\ (\A p \in Projects : out[p] # Null => IsOutput(out[p]))
    /\ worker = [w \in Builders |-> worker[w]] /\ (\A w \in Builders : IsWorker(worker[w]))
    /\ (mode = "clean" => ~Watch)

(* References are those a configuration may have, and lead to tasks.       *)
Linked ==
    \A p \in Projects :
        /\ cfg[p].refs \in RefsOf(use, p)
        /\ task[p] # Null =>
              /\ task[p].refs \in RefsOf(use, p)
              /\ Range(task[p].refs) \subseteq Range(order)
              /\ ~task[p].resolved => task[p].refs = <<>>

Active(w) == worker[w].pc \notin {"next", "end"}
(* Its channels are new in every cycle.                                    *)
Renewed(t) == t.resolved \/ ~Watch
Waited(p) == \A u \in Range(task[p].refs) : task[u].done

(* Goroutines work on different projects of the order that have been taken. *)
Taken ==
    /\ phase = "idle" => next = 1
    /\ \A w \in Builders : Active(w) =>
          /\ phase = "build" /\ \E i \in 1..(next - 1) : worker[w].project = order[i]
          /\ \A v \in Builders : Active(v) /\ v # w => worker[v].project # worker[w].project

(* A task that is done has waited for those it references, and a task is   *)
(* compiled after that and before it is done.                              *)
Ordered ==
    /\ \A p \in Range(order) : task[p].done => Waited(p)
    /\ \A w \in Builders :
          /\ worker[w].pc \in {"compile", "emit", "unblock"} => Waited(worker[w].project)
          /\ worker[w].pc \in {"compile", "emit"} => task[worker[w].project].resolved

(* Channels are open before they are to be closed.                         *)
Open ==
    /\ \A w \in Builders : Active(w) /\ Renewed(task[worker[w].project]) =>
          /\ worker[w].pc # "report" => ~task[worker[w].project].done
          /\ ~task[worker[w].project].reportDone
    /\ \A i \in next..Len(order) : phase = "build" /\ Renewed(task[order[i]]) =>
          ~task[order[i]].done /\ ~task[order[i]].reportDone

WithoutInfo == {"UpstreamErrors", "ForceBuild", "ConfigFileNotFound"}
Settled(t) == t.status # Null /\ t.status.kind # "ForceBuild"

(* A task with a status has build info unless the status says otherwise,   *)
(* and a task that is done has a status.                                   *)
StatusKnown(t) ==
    /\ t.status # Null =>
          /\ t.entry \/ t.status.kind \in WithoutInfo
          /\ t.status.kind = "UpstreamErrors" => StopOnErrors
          /\ t.status.kind = "ConfigFileNotFound" => ~t.resolved
          /\ ~t.resolved => t.status.kind = "ConfigFileNotFound"
    /\ t.done \/ ~t.pending => Settled(t)

Known ==
    /\ \A p \in Range(order) : StatusKnown(task[p])
    /\ \A w \in Builders : worker[w].pc = "unblock" => Settled(task[worker[w].project])

(* Every task but the first reports after the one before it.               *)
Lined == \A i \in 2..Len(order) : task[order[i]].prev = order[i - 1]

UpKinds == {"UpToDate", "UpToDateWithUpstreamTypes", "UpToDateWithInputFileText"}
OutputOK(o) == IsOutput(o) /\ o.dtsTime <= o.time /\ o.time < clock

(* A project that is up to date has outputs, and nothing is up to date     *)
(* while outputs are removed.                                              *)
Built ==
    /\ \A p \in Range(order) : task[p].status # Null /\ task[p].status.kind \in UpKinds => OutputOK(out[p])
    /\ mode = "clean" => \A p \in Range(order) : task[p].status = Null
    /\ \A w \in Builders : IF mode = "clean" THEN worker[w].pc \in {"next", "clean", "report", "end"}
                            ELSE worker[w].pc # "clean"

IInv == Typed /\ Linked /\ Taken /\ Ordered /\ Open /\ Known /\ Lined /\ Built

(* Every project of the graph has a configuration, which is to be assumed  *)
(* of uses in watch mode, or also of those that build on in spite of       *)
(* errors.                                                                 *)
AllConfigured == \A p \in Projects : task[p] # Null => task[p].resolved
ConfiguredInWatch == Watch => AllConfigured
ConfiguredUnlessStopping == Watch \/ ~StopOnErrors => AllConfigured

----------------------------------------------------------------------------
(* Lemmas about the operators of the model *)

USE Zenon

(* A set of numbers that is not empty has a least one.                     *)
LEMMA LeastNat ==
    ASSUME NEW T \in SUBSET Nat, T # {}
    PROVE  \E m \in T : \A k \in T : m <= k
<1>1. \E m \in T : \A k \in T : ~(<<k, m>> \in OpToRel(<, Nat))
    BY WFMin, NatLessThanWellFounded
<1>2. \A k, m \in Nat : k < m => <<k, m>> \in OpToRel(<, Nat)
    BY DEF OpToRel
<1>3. PICK m \in T : \A k \in T : ~(k < m)
    BY <1>1, <1>2
<1>4. \A k \in T : m <= k
    BY <1>3, SMT
<1> QED BY <1>4

(* First is in the set.                                                    *)
LEMMA FirstIn ==
    ASSUME NEW T \in SUBSET Nat, T # {}
    PROVE  First(T) \in T
BY LeastNat DEF First

(* Places of a list are numbers.                                           *)
LEMMA Places ==
    ASSUME NEW S, NEW s \in Seq(S)
    PROVE  /\ DOMAIN s = 1..Len(s) /\ Len(s) \in Nat /\ DOMAIN s \subseteq Nat
           /\ \A i \in DOMAIN s : s[i] \in S /\ s[i] \in Range(s)
           /\ Range(s) \subseteq S /\ \A x \in Range(s) : \E i \in DOMAIN s : s[i] = x
<1>1. DOMAIN s = 1..Len(s) /\ Len(s) \in Nat /\ DOMAIN s \subseteq Nat
    BY SMT
<1>2. \A i \in DOMAIN s : s[i] \in S
    BY SMT
<1> QED BY <1>1, <1>2 DEF Range

(* What IInv says of a task of the order.                                  *)
LEMMA TaskOf ==
    ASSUME Typed, NEW p \in Range(order)
    PROVE  /\ p \in Projects /\ task[p] # Null /\ task[p] \in TaskType
           /\ task[p].refs \in Seq(Projects) /\ task[p].status \in StatusType \cup {Null}
           /\ task[p].status # Null => task[p].status \in StatusType
           /\ task[p].entry \in BOOLEAN /\ task[p].resolved \in BOOLEAN /\ task[p].done \in BOOLEAN
           /\ task[p].pending \in BOOLEAN /\ task[p].reportDone \in BOOLEAN
<1>1. p \in Projects
    BY Places DEF Typed, TypeOK
<1>2. task[p] # Null
    BY <1>1 DEF Typed, TypeOK
<1>3. task[p] \in TaskType \cup {Null}
    BY <1>1 DEF Typed, TypeOK
<1>4. task[p] \in TaskType
    BY <1>2, <1>3
<1>5. \A t \in TaskType : t.refs \in Seq(Projects) /\ t.status \in StatusType \cup {Null} /\ t.entry \in BOOLEAN /\ t.resolved \in BOOLEAN /\ t.done \in BOOLEAN
           /\ t.pending \in BOOLEAN /\ t.reportDone \in BOOLEAN
    BY SMT DEF TaskType
<1> QED BY <1>1, <1>2, <1>4, <1>5

LEMMA StatusForm ==
    ASSUME NEW k \in Kinds
    PROVE  /\ Status(k) \in StatusType /\ Status(k).kind = k /\ Status(k).ref = Null /\ Status(k).input = 0
           /\ \A r \in Projects : /\ [Status(k) EXCEPT !.ref = r] \in StatusType
                                  /\ [Status(k) EXCEPT !.ref = r].kind = k /\ [Status(k) EXCEPT !.ref = r].ref = r
           /\ \A n \in Nat : /\ [Status(k) EXCEPT !.input = n] \in StatusType
                             /\ [Status(k) EXCEPT !.input = n].kind = k /\ [Status(k) EXCEPT !.input = n].ref = Null
BY SMT DEF Status, StatusType

LEMMA NullIsNone == /\ Null \notin Projects /\ Null \notin Nat /\ Null \notin StatusType /\ Null \notin TaskType
BY BuildAssumption

(* GetMTime returns a time.                                                *)
LEMMA TimeIsNat ==
    ASSUME Typed, NEW p \in Projects
    PROVE  SrcTime(p) \in Nat /\ CfgTime(p) \in Nat
<1>1. mTimes.src[p] \in Nat \cup {Null} /\ mTimes.cfg[p] \in Nat \cup {Null}
    BY DEF Typed, IsTimes
<1>2. src[p].time \in Nat /\ cfg[p].time \in Nat
  <2>1. src[p] \in [time : Nat, text : Nat, sig : Nat, err : BOOLEAN] /\ cfg[p] \in [time : Nat, refs : Seq(Projects)]
      BY DEF Typed
  <2> QED BY <2>1, SMT
<1> QED BY <1>1, <1>2 DEF SrcTime, CfgTime

(* The status a task has or is given: of the right form, and what its kind *)
(* tells.                                                                  *)
EarlyOK(p, s) ==
    /\ s # Null => s \in StatusType /\ s.ref \in Range(task[p].refs) \cup {Null}
    /\ task[p].status # Null => s = task[p].status
    /\ task[p].status = Null /\ s # Null =>
          /\ ~task[p].resolved <=> s.kind = "ConfigFileNotFound"
          /\ s.kind = "UpstreamErrors" => StopOnErrors
          /\ s.kind \notin {"UpToDate", "BuildErrors", "UpToDateWithUpstreamTypes", "UpToDateWithInputFileText"}

LEMMA EarlyForm ==
    ASSUME Typed, NEW p \in Range(order)
    PROVE  EarlyOK(p, EarlyStatus(p)) /\ (~task[p].resolved => EarlyStatus(p) # Null)
<1> DEFINE refs == task[p].refs
           failed == {i \in DOMAIN refs : isError(task[refs[i]].status)}
<1>t. task[p].refs \in Seq(Projects) /\ (task[p].status # Null => task[p].status \in StatusType) /\ p \in Projects
    BY TaskOf
<1>1. CASE task[p].status # Null
  <2>1. EarlyStatus(p) = task[p].status
      BY <1>1 DEF EarlyStatus
  <2>2. task[p].status.ref \in Range(task[p].refs) \cup {Null}
      BY <1>1, <1>t, TaskOf DEF Typed, TypeOK
  <2> QED BY <1>1, <1>t, <2>1, <2>2 DEF EarlyOK
<1>2. CASE task[p].status = Null /\ ~task[p].resolved
  <2>1. EarlyStatus(p) = Status("ConfigFileNotFound")
      BY <1>2 DEF EarlyStatus
  <2>2. "ConfigFileNotFound" \in Kinds
      BY DEF Kinds
  <2>3. EarlyStatus(p) \in StatusType /\ EarlyStatus(p).kind = "ConfigFileNotFound" /\ EarlyStatus(p).ref = Null
      BY <2>1, <2>2, StatusForm
  <2> QED BY <1>2, <2>3, NullIsNone DEF EarlyOK
<1>3. CASE task[p].status = Null /\ task[p].resolved /\ StopOnErrors /\ failed # {}
  <2>1. EarlyStatus(p) = [Status("UpstreamErrors") EXCEPT !.ref = refs[First(failed)]]
      BY <1>3 DEF EarlyStatus
  <2>2. DOMAIN refs \subseteq Nat
      BY Places, <1>t
  <2>6. failed \in SUBSET Nat
      BY <2>2
  <2>3. First(failed) \in failed
      BY <2>6, <1>3, FirstIn
  <2>8. First(failed) \in DOMAIN refs /\ refs \in Seq(Projects)
      BY <2>3, <1>t
  <2> HIDE DEF failed, refs
  <2>4. refs[First(failed)] \in Range(refs) /\ refs[First(failed)] \in Projects
      BY <2>8, Places
  <2>7. "UpstreamErrors" \in Kinds
      BY DEF Kinds
  <2>5. EarlyStatus(p) \in StatusType /\ EarlyStatus(p).kind = "UpstreamErrors" /\ EarlyStatus(p).ref = refs[First(failed)]
    <3> DEFINE t == [Status("UpstreamErrors") EXCEPT !.ref = refs[First(failed)]]
    <3>1. t \in StatusType /\ t.kind = "UpstreamErrors" /\ t.ref = refs[First(failed)]
        BY <2>4, <2>7, StatusForm
    <3>2. EarlyStatus(p) = t
        BY <2>1
    <3> HIDE DEF t
    <3> QED BY <3>1, <3>2
  <2> QED BY <1>3, <2>5, <2>4, NullIsNone DEF EarlyOK, refs
<1>4. CASE task[p].status = Null /\ task[p].resolved /\ ~(StopOnErrors /\ failed # {})
  <2>1. EarlyStatus(p) \in {Status("ForceBuild"), Status("OutputMissing"), Status("OutOfDateBuildInfoWithErrors"), Null}
      BY <1>4 DEF EarlyStatus
  <2>2. EarlyStatus(p) # Null => EarlyStatus(p) \in StatusType /\ EarlyStatus(p).ref = Null
                               /\ EarlyStatus(p).kind \in {"ForceBuild", "OutputMissing", "OutOfDateBuildInfoWithErrors"}
    <3>1. {"ForceBuild", "OutputMissing", "OutOfDateBuildInfoWithErrors"} \subseteq Kinds
        BY DEF Kinds
    <3>2. \A k \in {"ForceBuild", "OutputMissing", "OutOfDateBuildInfoWithErrors"} :
              Status(k) \in StatusType /\ Status(k).kind = k /\ Status(k).ref = Null
        BY <3>1, StatusForm
    <3>3. CASE EarlyStatus(p) # Null
      <4>1. PICK k \in {"ForceBuild", "OutputMissing", "OutOfDateBuildInfoWithErrors"} : EarlyStatus(p) = Status(k)
          BY <2>1, <3>3
      <4> QED BY <4>1, <3>2
    <3> QED BY <3>3
  <2> QED BY <1>4, <2>2 DEF EarlyOK
<1> QED BY <1>1, <1>2, <1>3, <1>4

StatusOK(p, s) ==
    /\ s # Null /\ s \in StatusType /\ s.ref \in Range(task[p].refs) \cup {Null}
    /\ task[p].status # Null => s = task[p].status
    /\ task[p].status = Null =>
          /\ ~task[p].resolved <=> s.kind = "ConfigFileNotFound"
          /\ s.kind = "UpstreamErrors" => StopOnErrors

LEMMA StatusIsOK ==
    ASSUME Typed, NEW p \in Range(order)
    PROVE  StatusOK(p, getUpToDateStatus(p))
<1>e. EarlyOK(p, EarlyStatus(p)) /\ (~task[p].resolved => EarlyStatus(p) # Null)
    BY EarlyForm
<1>t. p \in Projects
    BY TaskOf
<1>1. CASE EarlyStatus(p) # Null
  <2>1. getUpToDateStatus(p) = EarlyStatus(p)
      BY <1>1 DEF getUpToDateStatus
  <2> QED BY <1>1, <1>e, <2>1 DEF EarlyOK, StatusOK
<1>2. CASE EarlyStatus(p) = Null
  <2>1. task[p].status = Null /\ task[p].resolved
      BY <1>2, <1>e DEF EarlyOK
  <2>2. \/ getUpToDateStatus(p) = Status("InputFileNewer")
        \/ \E k \in {"UpToDateWithUpstreamTypes", "UpToDateWithInputFileText", "UpToDate"} :
              getUpToDateStatus(p) = [Status(k) EXCEPT !.input = SrcTime(p)]
      BY <1>2 DEF getUpToDateStatus
  <2>3. SrcTime(p) \in Nat
      BY <1>t, TimeIsNat
  <2>4. getUpToDateStatus(p) \in StatusType /\ getUpToDateStatus(p).ref = Null
        /\ getUpToDateStatus(p).kind \in {"InputFileNewer", "UpToDateWithUpstreamTypes", "UpToDateWithInputFileText", "UpToDate"}
    <3>1. {"InputFileNewer", "UpToDateWithUpstreamTypes", "UpToDateWithInputFileText", "UpToDate"} \subseteq Kinds
        BY DEF Kinds
    <3>2. CASE getUpToDateStatus(p) = Status("InputFileNewer")
      <4>1. Status("InputFileNewer") \in StatusType /\ Status("InputFileNewer").kind = "InputFileNewer"
            /\ Status("InputFileNewer").ref = Null
          BY <3>1, StatusForm
      <4> QED BY <4>1, <3>2
    <3>3. CASE getUpToDateStatus(p) # Status("InputFileNewer")
      <4>1. PICK k \in {"UpToDateWithUpstreamTypes", "UpToDateWithInputFileText", "UpToDate"} :
                getUpToDateStatus(p) = [Status(k) EXCEPT !.input = SrcTime(p)]
          BY <2>2, <3>3
      <4>0. k \in Kinds
          BY <3>1
      <4> DEFINE t == [Status(k) EXCEPT !.input = SrcTime(p)]
      <4>2. t \in StatusType /\ t.kind = k /\ t.ref = Null
          BY <4>0, <2>3, StatusForm
      <4>3. getUpToDateStatus(p) = t
          BY <4>1
      <4> HIDE DEF t
      <4> QED BY <4>2, <4>3
    <3> QED BY <3>2, <3>3
  <2> QED BY <2>1, <2>4, NullIsNone DEF StatusOK
<1> QED BY <1>1, <1>2

----------------------------------------------------------------------------
(* Goroutines *)

(* Goroutine w goes on to pc, with its project unless it is rid of it.     *)
Moved(w, pc) ==
    /\ worker' = [v \in Builders |-> worker'[v]]
    /\ IsWorker(worker'[w]) /\ worker'[w].pc = pc
    /\ pc # "next" => worker'[w].project = worker[w].project
    /\ \A v \in Builders \ {w} : worker'[v] = worker[v]

LEMMA GotoMoved ==
    ASSUME Typed, NEW w \in Builders, NEW pc \in Pcs, Goto(w, pc)
    PROVE  Moved(w, pc)
<1>1. worker = [v \in Builders |-> worker[v]] /\ worker' = [worker EXCEPT ![w].pc = pc]
    BY DEF Typed, Goto
<1>2. worker' = [v \in Builders |-> worker'[v]] /\ worker'[w] = [worker[w] EXCEPT !.pc = pc]
      /\ \A v \in Builders \ {w} : worker'[v] = worker[v]
    BY <1>1, SMT
<1>3. IsWorker(worker[w])
    BY DEF Typed
<1>4. \A r : IsWorker(r) => IsWorker([r EXCEPT !.pc = pc]) /\ [r EXCEPT !.pc = pc].pc = pc /\ [r EXCEPT !.pc = pc].project = r.project
    BY SMT DEF IsWorker
<1> QED BY <1>2, <1>3, <1>4 DEF Moved

(* A goroutine that goes on has a project that nobody else has.            *)
LEMMA TakenMoved ==
    ASSUME Taken, NEW w \in Builders, Active(w), NEW pc \in Pcs, Moved(w, pc), UNCHANGED <<phase, next, order>>
    PROVE  Taken'
<1>1. phase' = "idle" => next' = 1
    BY DEF Taken
<1>2. ASSUME NEW v \in Builders, Active(v)'
      PROVE  Active(v) /\ worker'[v].project = worker[v].project
  <2>1. CASE v = w
      BY <2>1, <1>2 DEF Moved, Active
  <2>2. CASE v # w
      BY <2>2, <1>2 DEF Moved, Active
  <2> QED BY <2>1, <2>2
<1>3. ASSUME NEW v \in Builders, Active(v)'
      PROVE  /\ (phase = "build")' /\ \E i \in 1..(next' - 1) : worker'[v].project = order'[i]
             /\ \A u \in Builders : Active(u)' /\ u # v => worker'[u].project # worker'[v].project
  <2>1. Active(v) /\ worker'[v].project = worker[v].project
      BY <1>2, <1>3
  <2>2. (phase = "build")' /\ \E i \in 1..(next' - 1) : worker'[v].project = order'[i]
      BY <2>1 DEF Taken
  <2>3. ASSUME NEW u \in Builders, Active(u)', u # v
        PROVE  worker'[u].project # worker'[v].project
    <3>1. Active(u) /\ worker'[u].project = worker[u].project
        BY <1>2, <2>3
    <3> QED BY <2>1, <2>3, <3>1 DEF Taken
  <2> QED BY <2>2, <2>3
<1> QED BY <1>1, <1>3 DEF Taken

(* The project of a goroutine has a task.                                  *)
LEMMA ProjectOf ==
    ASSUME Typed, Taken, NEW w \in Builders, Active(w)
    PROVE  /\ phase = "build" /\ worker[w].project \in Range(order)
           /\ \E i \in DOMAIN order : i < next /\ worker[w].project = order[i]
<1>1. order \in Seq(Projects) /\ next \in 1..(Len(order) + 1)
    BY DEF Typed, TypeOK
<1>2. PICK i \in 1..(next - 1) : worker[w].project = order[i]
    BY DEF Taken
<1>3. i \in DOMAIN order /\ i < next
    BY <1>1, <1>2, SMT
<1> QED BY <1>1, <1>2, <1>3, Places DEF Taken

(* The other conjuncts when only goroutine w goes on.                      *)
LEMMA RestMoved ==
    ASSUME IInv, NEW w \in Builders, Active(w), NEW pc \in Pcs, Moved(w, pc), UNCHANGED <<phase, next, order, task, use>>,
           pc \in {"compile", "emit", "unblock"} => Waited(worker[w].project),
           pc \in {"compile", "emit"} => task[worker[w].project].resolved,
           worker[w].pc # "report" /\ pc # "next",
           pc = "unblock" => Settled(task[worker[w].project])
    PROVE  Taken' /\ Ordered' /\ Open' /\ Known' /\ Lined'
<1>1. Taken'
    BY TakenMoved DEF IInv
<1>m. /\ worker'[w].pc = pc /\ worker'[w].project = worker[w].project
      /\ \A v \in Builders : v # w => worker'[v] = worker[v]
    BY DEF Moved
<1>2. Ordered'
    BY <1>m DEF IInv, Ordered, Waited
<1>3. Open'
    BY <1>m DEF IInv, Open, Active, Renewed, Watch
<1>4. Known'
    BY <1>m DEF IInv, Known, StatusKnown, Settled, StopOnErrors
<1>5. Lined'
    BY DEF IInv, Lined
<1> QED BY <1>1, <1>2, <1>3, <1>4, <1>5

----------------------------------------------------------------------------
(* Steps that leave the tasks alone *)

SourceType == [time : Nat, text : Nat, sig : Nat, err : BOOLEAN]
ConfigType == [time : Nat, refs : Seq(Projects)]

LEMMA SourceForms ==
    ASSUME NEW s \in SourceType, NEW t \in Nat
    PROVE  /\ s.sig \in Nat /\ s.err \in BOOLEAN /\ s.time \in Nat
           /\ [s EXCEPT !.time = t] \in SourceType /\ [s EXCEPT !.time = t].time = t
           /\ [s EXCEPT !.text = t] \in SourceType /\ [s EXCEPT !.text = t].time = s.time
           /\ [s EXCEPT !.sig = t] \in SourceType /\ [s EXCEPT !.sig = t].time = s.time
           /\ \A b \in BOOLEAN : [s EXCEPT !.err = b] \in SourceType /\ [s EXCEPT !.err = b].time = s.time
<1>1. s.sig \in Nat /\ s.err \in BOOLEAN /\ s.time \in Nat
    BY SMT DEF SourceType
<1>2. [s EXCEPT !.time = t] \in SourceType /\ [s EXCEPT !.time = t].time = t
    BY SMT DEF SourceType
<1>3. [s EXCEPT !.text = t] \in SourceType /\ [s EXCEPT !.text = t].time = s.time
    BY SMT DEF SourceType
<1>4. [s EXCEPT !.sig = t] \in SourceType /\ [s EXCEPT !.sig = t].time = s.time
    BY SMT DEF SourceType
<1>5. \A b \in BOOLEAN : [s EXCEPT !.err = b] \in SourceType
    BY DEF SourceType
<1>6. \A b \in BOOLEAN : [s EXCEPT !.err = b].time = s.time
    BY SMT DEF SourceType
<1> QED BY <1>1, <1>2, <1>3, <1>4, <1>5, <1>6

LEMMA NewSourceForm ==
    ASSUME NEW s \in SourceType, clock \in Nat, NEW e \in NewSources(s)
    PROVE  e \in SourceType /\ e.time = clock
<1> DEFINE d == [s EXCEPT !.time = clock, !.text = clock]
<1>1. d \in SourceType /\ d.time = clock
  <2>0. [s EXCEPT !.time = clock] \in SourceType /\ [s EXCEPT !.time = clock].time = clock
      BY SourceForms
  <2>1. PICK f \in SourceType : f = [s EXCEPT !.time = clock] /\ f.time = clock
      BY <2>0
  <2>2. d = [f EXCEPT !.text = clock]
      BY <2>1
  <2> HIDE DEF d
  <2>3. [f EXCEPT !.text = clock] \in SourceType /\ [f EXCEPT !.text = clock].time = f.time
      BY SourceForms
  <2> QED BY <2>1, <2>2, <2>3
<1>2. CASE e = [s EXCEPT !.time = clock]
    BY <1>2, SMT DEF SourceType
<1>3. CASE e = d
    BY <1>1, <1>3
<1>4. CASE e = [d EXCEPT !.sig = clock]
  <2> HIDE DEF d
  <2> QED BY <1>1, <1>4, SMT DEF SourceType
<1>5. CASE \E v \in {d.sig, clock} : e = [d EXCEPT !.err = ~@, !.sig = v]
  <2>1. PICK v \in {d.sig, clock} : e = [d EXCEPT !.err = ~d.err, !.sig = v]
      BY <1>5
  <2>2. d.sig \in Nat
      BY <1>1, SMT DEF SourceType
  <2> HIDE DEF d
  <2>3. d.err \in BOOLEAN /\ v \in Nat
      BY <1>1, <2>2, SMT DEF SourceType
  <2>6. (~d.err) \in BOOLEAN
      BY <2>3
  <2>4. PICK f \in SourceType : f = [d EXCEPT !.err = ~d.err] /\ f.time = clock
      BY <1>1, <2>6, SourceForms
  <2>5. e = [f EXCEPT !.sig = v]
      BY <2>1, <2>4
  <2> QED BY <2>3, <2>4, <2>5, SourceForms
<1>6. \/ e = [s EXCEPT !.time = clock] \/ e = d \/ e = [d EXCEPT !.sig = clock]
      \/ \E v \in {d.sig, clock} : e = [d EXCEPT !.err = ~@, !.sig = v]
    BY DEF NewSources
<1> QED BY <1>2, <1>3, <1>4, <1>5, <1>6

LEMMA NewConfigForm ==
    ASSUME Typed, Linked, NEW p \in Projects, NEW c \in NewConfigs(p)
    PROVE  c \in ConfigType /\ c.time \in {0, clock} /\ c.refs \in RefsOf(use, p)
<1>1. cfg[p] \in ConfigType /\ cfg[p].refs \in RefsOf(use, p) /\ clock \in Nat /\ RefsOf(use, p) \subseteq Seq(Projects)
    BY BuildAssumption DEF Typed, Linked, ConfigType
<1>2. \/ \E r \in OtherRefs[p] \cup {cfg[p].refs} : c = [time |-> clock, refs |-> r]
      \/ c = [cfg[p] EXCEPT !.time = 0]
    BY DEF NewConfigs
<1>3. CASE \E r \in OtherRefs[p] \cup {cfg[p].refs} : c = [time |-> clock, refs |-> r]
  <2>1. PICK r \in RefsOf(use, p) : c = [time |-> clock, refs |-> r]
      BY <1>3, <1>1 DEF RefsOf, OtherRefs
  <2>2. r \in Seq(Projects)
      BY <1>1
  <2> QED BY <1>1, <2>1, <2>2, SMT DEF ConfigType
<1>4. CASE c = [cfg[p] EXCEPT !.time = 0]
  <2>1. c \in ConfigType /\ c.time = 0 /\ c.refs = cfg[p].refs
      BY <1>1, <1>4, SMT DEF ConfigType
  <2> QED BY <2>1, <1>1
<1> QED BY <1>2, <1>3, <1>4

LEMMA EditStep ==
    ASSUME IInv, NEW p \in Projects, Edit(p), UNCHANGED use
    PROVE  IInv'
<1>u. UNCHANGED <<out, mTimes, task, order, cyclic, next, worker, phase, mode, panicked, use>> /\ clock' = clock + 1
    BY DEF Edit, graph
<1>t. /\ src \in [Projects -> SourceType] /\ cfg \in [Projects -> ConfigType] /\ clock \in Nat
      /\ \A q \in Projects : src[q].time \in 1..clock /\ cfg[q].time \in 0..clock /\ cfg[q].refs \in RefsOf(use, q)
    BY DEF IInv, Typed, TypeOK, SourceType, ConfigType, Linked
<1>1. /\ src' \in [Projects -> SourceType] /\ \A q \in Projects : src'[q].time \in 1..clock'
  <2>1. CASE \E s \in NewSources(src[p]) : src' = [src EXCEPT ![p] = s]
    <3>1. PICK s \in NewSources(src[p]) : src' = [src EXCEPT ![p] = s]
        BY <2>1
    <3>2. s \in SourceType /\ s.time = clock
        BY <1>t, NewSourceForm
    <3>3. clock \in 1..(clock + 1)
        BY <1>t, SMT
    <3> QED BY <1>t, <1>u, <3>1, <3>2, SMT
  <2>2. CASE src' = src
      BY <1>t, <1>u, <2>2, SMT
  <2> QED BY <2>1, <2>2 DEF Edit
<1>2. /\ cfg' \in [Projects -> ConfigType]
      /\ \A q \in Projects : cfg'[q].time \in 0..clock' /\ cfg'[q].refs \in RefsOf(use, q)
  <2>1. CASE \E c \in NewConfigs(p) : cfg' = [cfg EXCEPT ![p] = c]
    <3>1. PICK c \in NewConfigs(p) : cfg' = [cfg EXCEPT ![p] = c]
        BY <2>1
    <3>2. c \in ConfigType /\ c.time \in {0, clock} /\ c.refs \in RefsOf(use, p)
        BY NewConfigForm DEF IInv
    <3> QED BY <1>t, <1>u, <3>1, <3>2, SMT
  <2>2. CASE cfg' = cfg
      BY <1>t, <1>u, <2>2, SMT
  <2> QED BY <2>1, <2>2 DEF Edit
<1>3. \A q \in Projects : out[q] # Null => out[q].dtsTime <= out[q].time /\ out[q].time < clock'
  <2>1. \A q \in Projects : out[q] # Null => out[q].dtsTime <= out[q].time /\ out[q].time < clock /\ out[q].time \in Nat
      BY DEF IInv, Typed, TypeOK, IsOutput
  <2> QED BY <2>1, <1>t, <1>u, SMT
<1>4. Typed'
  <2>1. clock' \in Nat
      BY <1>t, <1>u, SMT
  <2> QED BY <1>t, <1>u, <1>1, <1>2, <1>3, <2>1 DEF IInv, Typed, TypeOK, SourceType, ConfigType, Watch
<1>5. Linked'
    BY <1>u, <1>2 DEF IInv, Linked, RefsOf
<1>6. Taken' /\ Ordered' /\ Open' /\ Known' /\ Lined'
    BY <1>u DEF IInv, Taken, Active, Ordered, Waited, Open, Renewed, Watch, Known, StatusKnown, Settled, StopOnErrors, Lined
<1>7. Built'
  <2>1. \A o : OutputOK(o) => OutputOK(o)'
    <3>1. ASSUME NEW o, OutputOK(o) PROVE o.time < clock'
      <4>1. o.time < clock /\ o.time \in Nat
          BY <3>1 DEF OutputOK, IsOutput
      <4> QED BY <4>1, <1>t, <1>u, SMT
    <3> QED BY <3>1 DEF OutputOK, IsOutput
  <2>2. \A q \in Range(order) : task[q].status # Null /\ task[q].status.kind \in UpKinds => OutputOK(out[q])'
      BY <2>1, <1>u DEF IInv, Built, OutputOK
  <2> QED BY <2>2, <1>u DEF IInv, Built
<1> QED BY <1>4, <1>5, <1>6, <1>7 DEF IInv

(* Typed and Linked when goroutines and their place in the order change.   *)
LEMMA TypedWorker ==
    ASSUME Typed, Linked, NEW w \in Builders, NEW pc \in Pcs, Moved(w, pc), next' \in 1..(Len(order) + 1),
           UNCHANGED <<clock, src, cfg, out, mTimes, task, order, cyclic, phase, mode, use>>, panicked' \in BOOLEAN
    PROVE  Typed' /\ Linked'
<1>1. worker' = [v \in Builders |-> worker'[v]] /\ \A v \in Builders : IsWorker(worker'[v])
    BY DEF Typed, Moved
<1>2. Typed'
    BY <1>1 DEF Typed, TypeOK, Watch
<1> QED BY <1>2 DEF Linked, RefsOf

LEMMA TakeStep ==
    ASSUME IInv, NEW w \in Builders, Take(w), UNCHANGED use
    PROVE  IInv'
<1>u. UNCHANGED <<clock, src, cfg, out, mTimes, task, order, cyclic, phase, mode, panicked, use>>
    BY DEF Take, disk, graph
<1>t. order \in Seq(Projects) /\ next \in 1..(Len(order) + 1) /\ phase = "build" /\ worker[w].pc = "next"
      /\ worker = [v \in Builders |-> worker[v]] /\ IsWorker(worker[w]) /\ Len(order) \in Nat /\ panicked' \in BOOLEAN
      /\ IsInjective(order)
    BY <1>u, Places DEF IInv, Typed, TypeOK, Take
<1>1. CASE next <= Len(order)
  <2>1. PICK pc \in {"clean", "wait"} : /\ worker' = [worker EXCEPT ![w].pc = pc, ![w].project = order[next]]
                                        /\ (pc = "clean") <=> (mode = "clean")
      BY <1>1 DEF Take
  <2>2. next' = next + 1
      BY <1>1 DEF Take
  <2>3. worker' = [v \in Builders |-> worker'[v]] /\ worker'[w] = [worker[w] EXCEPT !.pc = pc, !.project = order[next]]
        /\ \A v \in Builders \ {w} : worker'[v] = worker[v]
      BY <1>t, <2>1, SMT
  <2>5. IsWorker(worker'[w]) /\ worker'[w].pc = pc /\ worker'[w].project = order[next]
    <3>1. PICK r : r = [worker[w] EXCEPT !.pc = pc] /\ IsWorker(r) /\ r.pc = pc
      <4>1. \A r : IsWorker(r) => IsWorker([r EXCEPT !.pc = pc]) /\ [r EXCEPT !.pc = pc].pc = pc
          BY <2>1, SMT DEF IsWorker, Pcs
      <4> QED BY <4>1, <1>t
    <3>2. worker'[w] = [r EXCEPT !.project = order[next]]
        BY <2>3, <3>1
    <3>3. \A q, p : IsWorker(q) => /\ IsWorker([q EXCEPT !.project = p]) /\ [q EXCEPT !.project = p].pc = q.pc
                                   /\ [q EXCEPT !.project = p].project = p
        BY SMT DEF IsWorker
    <3>0. IsWorker(r) /\ r.pc = pc
        BY <3>1
    <3>4. \A p : /\ IsWorker([r EXCEPT !.project = p]) /\ [r EXCEPT !.project = p].pc = pc
                 /\ [r EXCEPT !.project = p].project = p
        BY <3>0, <3>3
    <3> QED BY <3>2, <3>4
  <2>6. next \in DOMAIN order /\ next \in 1..(next' - 1) /\ next' \in 1..(Len(order) + 1)
        /\ (\A i \in 1..(next - 1) : i \in 1..(next' - 1) /\ i # next /\ i \in DOMAIN order)
        /\ (\A i \in next'..Len(order) : i \in next..Len(order) /\ i # next /\ i \in DOMAIN order)
        /\ next \in next..Len(order)
      BY <1>1, <1>t, <2>2, SMT
  <2>7. \A v \in Builders : IsWorker(worker'[v])
      BY <2>3, <2>5 DEF IInv, Typed
  <2>8. Typed' /\ Linked'
    <3>1. Typed'
        BY <1>u, <1>t, <2>3, <2>6, <2>7 DEF IInv, Typed, TypeOK, Watch
    <3> QED BY <3>1, <1>u DEF IInv, Linked, RefsOf
  <2>9. \A v \in Builders : Active(v) => v # w
      BY <1>t DEF Active
  <2>10. Taken'
    <3>1. ASSUME NEW v \in Builders \ {w}, Active(v)'
          PROVE  Active(v) /\ \E i \in 1..(next' - 1) : worker'[v].project = order[i] /\ worker'[v].project # order[next]
      <4>1. Active(v)
          BY <3>1, <2>3 DEF Active
      <4>2. PICK i \in 1..(next - 1) : worker[v].project = order[i]
          BY <4>1 DEF IInv, Taken
      <4>3. order[i] # order[next]
          BY <1>t, <2>6, <4>2 DEF IsInjective
      <4> QED BY <4>1, <4>2, <4>3, <2>3, <2>6
    <3>2. \A v \in Builders : Active(v)' => \E i \in 1..(next' - 1) : worker'[v].project = order'[i]
        BY <3>1, <2>5, <2>6, <1>u
    <3>3. \A v, u \in Builders : Active(v)' /\ Active(u)' /\ u # v => worker'[u].project # worker'[v].project
      <4>1. \A v, u \in Builders \ {w} : Active(v)' /\ Active(u)' /\ u # v => worker'[u].project # worker'[v].project
        <5>1. ASSUME NEW v \in Builders \ {w}, NEW u \in Builders \ {w}, Active(v)', Active(u)', u # v
              PROVE  worker'[u].project # worker'[v].project
          <6>1. Active(v) /\ Active(u) /\ worker'[u] = worker[u] /\ worker'[v] = worker[v]
              BY <5>1, <3>1, <2>3
          <6> QED BY <5>1, <6>1 DEF IInv, Taken
        <5> QED BY <5>1
      <4>2. \A v \in Builders \ {w} : Active(v)' => worker'[w].project # worker'[v].project
          BY <3>1, <2>5
      <4> QED BY <4>1, <4>2
    <3> QED BY <3>2, <3>3, <1>t, <1>u DEF Taken
  <2>11. Ordered'
    <3>1. worker'[w].pc \notin {"compile", "emit", "unblock"}
        BY <2>5
    <3> QED BY <3>1, <2>3, <1>u DEF IInv, Ordered, Waited
  <2>12. Open'
    <3>1. \A i \in next'..Len(order) : (phase = "build" /\ Renewed(task[order[i]]))' =>
              ~task'[order'[i]].done /\ ~task'[order'[i]].reportDone
        BY <2>6, <1>u DEF IInv, Open, Renewed, Watch
    <3>2. Renewed(task[order[next]]) => ~task[order[next]].done /\ ~task[order[next]].reportDone
        BY <2>6, <1>t DEF IInv, Open
    <3>3. ASSUME NEW v \in Builders, (Active(v) /\ Renewed(task[worker[v].project]))'
          PROVE  (worker'[v].pc # "report" => ~task'[worker'[v].project].done) /\ ~task'[worker'[v].project].reportDone
      <4>1. CASE v = w
          BY <4>1, <3>2, <3>3, <2>5, <1>u DEF Renewed, Watch
      <4>2. CASE v # w
          BY <4>2, <3>3, <2>3, <1>u DEF IInv, Open, Renewed, Watch, Active
      <4> QED BY <4>1, <4>2
    <3> QED BY <3>1, <3>3, <1>u DEF Open
  <2>13. Known'
    <3>1. worker'[w].pc # "unblock"
        BY <2>5
    <3> QED BY <3>1, <2>3, <1>u DEF IInv, Known, StatusKnown, Settled, StopOnErrors
  <2>14. Lined'
      BY <1>u DEF IInv, Lined
  <2>15. Built'
    <3>1. \A v \in Builders : IF mode = "clean" THEN worker'[v].pc \in {"next", "clean", "report", "end"}
                              ELSE worker'[v].pc # "clean"
        BY <2>1, <2>3, <2>5 DEF IInv, Built
    <3> QED BY <3>1, <1>u DEF IInv, Built, OutputOK
  <2> QED BY <2>8, <2>10, <2>11, <2>12, <2>13, <2>14, <2>15 DEF IInv
<1>2. CASE ~(next <= Len(order))
  <2>1. Goto(w, "end") /\ next' = next
      BY <1>2 DEF Take
  <2>2. Moved(w, "end")
      BY <2>1, GotoMoved DEF IInv, Pcs
  <2>3. Typed' /\ Linked'
      BY <2>2, <2>1, <1>u, <1>t, TypedWorker DEF IInv, Pcs
  <2>4. worker'[w].pc = "end" /\ \A v \in Builders : v # w => worker'[v] = worker[v]
      BY <2>2 DEF Moved
  <2>5. \A v \in Builders : Active(v)' => v # w /\ Active(v) /\ worker'[v] = worker[v]
      BY <2>4 DEF Active
  <2>6. Taken'
    <3>1. ASSUME NEW v \in Builders, Active(v)'
          PROVE  /\ (phase = "build")' /\ \E i \in 1..(next' - 1) : worker'[v].project = order'[i]
                 /\ \A x \in Builders : Active(x)' /\ x # v => worker'[x].project # worker'[v].project
      <4>1. Active(v) /\ worker'[v] = worker[v]
          BY <3>1, <2>5
      <4>2. (phase = "build")' /\ \E i \in 1..(next' - 1) : worker'[v].project = order'[i]
          BY <4>1, <2>1, <1>u DEF IInv, Taken
      <4>3. ASSUME NEW x \in Builders, Active(x)', x # v
            PROVE  worker'[x].project # worker'[v].project
        <5>1. Active(x) /\ worker'[x] = worker[x]
            BY <4>3, <2>5
        <5> QED BY <4>1, <4>3, <5>1 DEF IInv, Taken
      <4> QED BY <4>2, <4>3
    <3> QED BY <3>1, <2>1, <1>u DEF IInv, Taken
  <2>7. Ordered'
      BY <2>4, <1>u DEF IInv, Ordered, Waited
  <2>8. Open'
      BY <2>5, <2>1, <1>u DEF IInv, Open, Renewed, Watch
  <2>9. Known'
      BY <2>4, <1>u DEF IInv, Known, StatusKnown, Settled, StopOnErrors
  <2>10. Lined'
      BY <1>u DEF IInv, Lined
  <2>11. Built'
    <3>1. \A v \in Builders : IF mode = "clean" THEN worker'[v].pc \in {"next", "clean", "report", "end"}
                              ELSE worker'[v].pc # "clean"
        BY <2>4 DEF IInv, Built
    <3> QED BY <3>1, <1>u DEF IInv, Built, OutputOK
  <2> QED BY <2>3, <2>6, <2>7, <2>8, <2>9, <2>10, <2>11 DEF IInv
<1> QED BY <1>1, <1>2

LEMMA CleanStep ==
    ASSUME IInv, NEW w \in Builders, cleanProject(w), UNCHANGED use
    PROVE  IInv'
<1> DEFINE p == worker[w].project
<1>u. UNCHANGED <<clock, src, cfg, mTimes, task, order, cyclic, next, phase, mode, panicked, use>>
    BY DEF cleanProject, graph
<1>a. worker[w].pc = "clean" /\ Active(w) /\ Goto(w, "report") /\ "report" \in Pcs
    BY DEF cleanProject, Active, Pcs
<1>p. p \in Projects
    BY <1>a, ProjectOf, TaskOf DEF IInv
<1>m. Moved(w, "report")
    BY <1>a, GotoMoved DEF IInv
<1>1. out' = [q \in Projects |-> out'[q]] /\ \A q \in Projects : out'[q] # Null => out'[q] = out[q]
  <2>1. out = [q \in Projects |-> out[q]]
      BY DEF IInv, Typed
  <2>2. CASE out' = [out EXCEPT ![p] = Null]
      BY <2>1, <2>2, <1>p, SMT
  <2>3. CASE out' = out
      BY <2>1, <2>3
  <2> QED BY <2>2, <2>3 DEF cleanProject
<1>2. worker' = [v \in Builders |-> worker'[v]] /\ \A v \in Builders : IsWorker(worker'[v])
    BY <1>m DEF IInv, Typed, Moved
<1>3. Typed'
    BY <1>1, <1>2, <1>u DEF IInv, Typed, TypeOK, Watch
<1>4. Linked'
    BY <1>u DEF IInv, Linked, RefsOf
<1>5. Taken' /\ Ordered' /\ Open' /\ Known' /\ Lined'
    BY <1>a, <1>m, <1>u, RestMoved
<1>6. Built'
  <2>1. mode = "clean"
      BY <1>a DEF IInv, Built
  <2>2. \A v \in Builders : worker'[v].pc \in {"next", "clean", "report", "end"}
      BY <2>1, <1>m DEF IInv, Built, Moved
  <2> QED BY <2>1, <2>2, <1>u DEF IInv, Built
<1> QED BY <1>3, <1>4, <1>5, <1>6 DEF IInv

LEMMA WorkerForms ==
    ASSUME NEW r, IsWorker(r), NEW x
    PROVE  /\ IsWorker([r EXCEPT !.pc = "emit"]) /\ [r EXCEPT !.pc = "emit"].pc = "emit" /\ [r EXCEPT !.pc = "emit"].project = r.project
           /\ IsWorker([r EXCEPT !.text = x]) /\ [r EXCEPT !.text = x].pc = r.pc /\ [r EXCEPT !.text = x].project = r.project
           /\ IsWorker([r EXCEPT !.deps = x]) /\ [r EXCEPT !.deps = x].pc = r.pc /\ [r EXCEPT !.deps = x].project = r.project
           /\ IsWorker([r EXCEPT !.sig = x]) /\ [r EXCEPT !.sig = x].pc = r.pc /\ [r EXCEPT !.sig = x].project = r.project
           /\ IsWorker([r EXCEPT !.err = x]) /\ [r EXCEPT !.err = x].pc = r.pc /\ [r EXCEPT !.err = x].project = r.project
<1>1. IsWorker([r EXCEPT !.pc = "emit"]) /\ [r EXCEPT !.pc = "emit"].pc = "emit" /\ [r EXCEPT !.pc = "emit"].project = r.project
    BY SMT DEF IsWorker, Pcs
<1>2. IsWorker([r EXCEPT !.text = x]) /\ [r EXCEPT !.text = x].pc = r.pc /\ [r EXCEPT !.text = x].project = r.project
    BY SMT DEF IsWorker
<1>3. IsWorker([r EXCEPT !.deps = x]) /\ [r EXCEPT !.deps = x].pc = r.pc /\ [r EXCEPT !.deps = x].project = r.project
    BY SMT DEF IsWorker
<1>4. IsWorker([r EXCEPT !.sig = x]) /\ [r EXCEPT !.sig = x].pc = r.pc /\ [r EXCEPT !.sig = x].project = r.project
    BY SMT DEF IsWorker
<1>5. IsWorker([r EXCEPT !.err = x]) /\ [r EXCEPT !.err = x].pc = r.pc /\ [r EXCEPT !.err = x].project = r.project
    BY SMT DEF IsWorker
<1> QED BY <1>1, <1>2, <1>3, <1>4, <1>5

LEMMA CreateProgramStep ==
    ASSUME IInv, NEW w \in Builders, CreateProgram(w), UNCHANGED use
    PROVE  IInv'
<1> DEFINE p == worker[w].project
<1>u. UNCHANGED <<clock, src, cfg, out, mTimes, task, order, cyclic, next, phase, mode, panicked, use>>
    BY DEF CreateProgram, disk, graph
<1>a. worker[w].pc = "compile" /\ Active(w) /\ "emit" \in Pcs
    BY DEF CreateProgram, Active, Pcs
<1>1. PICK x, y, z, e : worker' = [worker EXCEPT ![w] = [worker[w] EXCEPT !.pc = "emit", !.text = x, !.deps = y, !.sig = z, !.err = e]]
    BY DEF CreateProgram
<1>m. Moved(w, "emit")
  <2>1. worker = [v \in Builders |-> worker[v]] /\ IsWorker(worker[w])
      BY DEF IInv, Typed
  <2>2. worker' = [v \in Builders |-> worker'[v]] /\ worker'[w] = [worker[w] EXCEPT !.pc = "emit", !.text = x, !.deps = y, !.sig = z, !.err = e]
        /\ \A v \in Builders \ {w} : worker'[v] = worker[v]
      BY <1>1, <2>1, SMT
  <2>3. PICK a : a = [worker[w] EXCEPT !.pc = "emit"] /\ IsWorker(a) /\ a.pc = "emit" /\ a.project = worker[w].project
      BY <2>1, WorkerForms
  <2>5b. IsWorker(a)
      BY <2>3
  <2>5a. IsWorker([a EXCEPT !.text = x]) /\ [a EXCEPT !.text = x].pc = a.pc /\ [a EXCEPT !.text = x].project = a.project
      BY <2>5b, WorkerForms
  <2>5. PICK b : b = [a EXCEPT !.text = x] /\ IsWorker(b) /\ b.pc = "emit" /\ b.project = worker[w].project
      BY <2>5a, <2>3
  <2>6b. IsWorker(b)
      BY <2>5
  <2>6a. IsWorker([b EXCEPT !.deps = y]) /\ [b EXCEPT !.deps = y].pc = b.pc /\ [b EXCEPT !.deps = y].project = b.project
      BY <2>6b, WorkerForms
  <2>6. PICK c : c = [b EXCEPT !.deps = y] /\ IsWorker(c) /\ c.pc = "emit" /\ c.project = worker[w].project
      BY <2>6a, <2>5
  <2>7b. IsWorker(c)
      BY <2>6
  <2>7a. IsWorker([c EXCEPT !.sig = z]) /\ [c EXCEPT !.sig = z].pc = c.pc /\ [c EXCEPT !.sig = z].project = c.project
      BY <2>7b, WorkerForms
  <2>7. PICK d : d = [c EXCEPT !.sig = z] /\ IsWorker(d) /\ d.pc = "emit" /\ d.project = worker[w].project
      BY <2>7a, <2>6
  <2>8b. IsWorker(d)
      BY <2>7
  <2>8a. IsWorker([d EXCEPT !.err = e]) /\ [d EXCEPT !.err = e].pc = d.pc /\ [d EXCEPT !.err = e].project = d.project
      BY <2>8b, WorkerForms
  <2>8. PICK f : f = [d EXCEPT !.err = e] /\ IsWorker(f) /\ f.pc = "emit" /\ f.project = worker[w].project
      BY <2>8a, <2>7
  <2>9. worker'[w] = f
      BY <2>2, <2>3, <2>5, <2>6, <2>7, <2>8
  <2>4. IsWorker(worker'[w]) /\ worker'[w].pc = "emit" /\ worker'[w].project = worker[w].project
      BY <2>8, <2>9
  <2> QED BY <2>2, <2>4 DEF Moved
<1>2. Typed' /\ Linked'
  <2>1. next' \in 1..(Len(order) + 1) /\ panicked' \in BOOLEAN
      BY <1>u DEF IInv, Typed, TypeOK
  <2> QED BY <1>a, <1>m, <1>u, <2>1, TypedWorker DEF IInv
<1>3. Waited(worker[w].project) /\ task[worker[w].project].resolved
    BY <1>a DEF IInv, Ordered
<1>4. Taken' /\ Ordered' /\ Open' /\ Known' /\ Lined'
    BY <1>a, <1>m, <1>u, <1>3, RestMoved
<1>5. Built'
  <2>1. mode # "clean"
      BY <1>a DEF IInv, Built
  <2>2. \A v \in Builders : worker'[v].pc # "clean"
      BY <2>1, <1>m DEF IInv, Built, Moved
  <2> QED BY <2>1, <2>2, <1>u DEF IInv, Built, OutputOK
<1> QED BY <1>2, <1>4, <1>5 DEF IInv

----------------------------------------------------------------------------
(* Steps of a goroutine that change tasks *)

(* What only the orchestrator changes.                                     *)
SameTask(t, u) == t.refs = u.refs /\ t.resolved = u.resolved /\ t.prev = u.prev
RefOK(t) == t.status # Null => t.status.ref \in Range(t.refs) \cup {Null}
TasksTyped ==
    /\ task \in [Projects -> TaskType \cup {Null}]
    /\ \A q \in Projects : ((task[q] # Null) <=> q \in Range(order)) /\ (task[q] # Null => RefOK(task[q]))

(* Goroutine w goes on to pc and changes the task of its project; of other *)
(* tasks at most the status is changed.                                    *)
TaskStep(w, p, pc) ==
    /\ w \in Builders /\ pc \in Pcs /\ Active(w) /\ p = worker[w].project /\ Moved(w, pc)
    /\ UNCHANGED <<phase, next, order, use, cfg>>
    /\ task' = [q \in Projects |-> task'[q]]
    /\ \A q \in Projects \ Range(order) : task'[q] = task[q]
    /\ \A q \in Range(order) : task'[q] \in TaskType /\ SameTask(task'[q], task[q]) /\ RefOK(task'[q]) /\ StatusKnown(task'[q])
    /\ \A q \in Range(order) \ {p} : task'[q].done = task[q].done /\ task'[q].reportDone = task[q].reportDone
    /\ \A v \in Builders \ {w} : worker[v].pc = "unblock" => Settled(task'[worker[v].project])
    /\ task[p].done => task'[p].done
    /\ task'[p].done => Waited(p)
    /\ pc \in {"compile", "emit", "unblock"} => Waited(p)
    /\ pc \in {"compile", "emit"} => task[p].resolved
    /\ pc \notin {"report", "next"} /\ Renewed(task[p]) => ~task'[p].done
    /\ pc # "next" /\ Renewed(task[p]) => ~task'[p].reportDone
    /\ pc = "unblock" => Settled(task'[p])

LEMMA TasksMoved ==
    ASSUME IInv, NEW w \in Builders, NEW p, NEW pc \in Pcs, TaskStep(w, p, pc)
    PROVE  TasksTyped' /\ Linked' /\ Taken' /\ Ordered' /\ Open' /\ Known' /\ Lined'
<1>p. p \in Range(order) /\ p \in Projects /\ p = worker[w].project /\ phase = "build"
    BY ProjectOf, TaskOf DEF IInv, TaskStep
<1>u. UNCHANGED <<phase, next, order, use, cfg>> /\ Moved(w, pc) /\ Active(w)
    BY DEF TaskStep
<1>o. Range(order) \subseteq Projects /\ order \in Seq(Projects) /\ IsInjective(order)
    BY Places DEF IInv, Typed, TypeOK
<1>n. \A q \in Projects \ Range(order) : task[q] = Null
    BY DEF IInv, Typed, TypeOK
<1>1. TasksTyped'
  <2>1. \A q \in Projects : task'[q] \in TaskType \cup {Null}
      BY <1>n DEF TaskStep
  <2>2. task' \in [Projects -> TaskType \cup {Null}]
    <3>1. task' = [q \in Projects |-> task'[q]]
        BY DEF TaskStep
    <3> QED BY <2>1, <3>1
  <2>3. \A q \in Projects : ((task'[q] # Null) <=> q \in Range(order)) /\ (task'[q] # Null => RefOK(task'[q]))
      BY <1>n, NullIsNone DEF TaskStep
  <2> QED BY <2>2, <2>3, <1>u DEF TasksTyped, RefOK
<1>m. \A q \in Range(order) : task[q].done => task'[q].done
    BY DEF TaskStep
<1>s. \A q \in Range(order) : SameTask(task'[q], task[q])
    BY DEF TaskStep
<1>c. \A q \in Range(order) : Range(task[q].refs) \subseteq Range(order)
    BY <1>o, TaskOf DEF IInv, Linked
<1>w. \A q \in Range(order) : Waited(q) => Waited(q)'
    BY <1>c, <1>m, <1>s DEF Waited, SameTask
<1>v. \A v \in Builders \ {w} : worker'[v] = worker[v]
    BY <1>u DEF Moved
<1>d. \A v \in Builders \ {w} : Active(v) => worker[v].project # p /\ worker[v].project \in Range(order)
    BY <1>p, <1>u, ProjectOf DEF IInv, Taken
<1>x. worker'[w].pc = pc /\ (pc # "next" => worker'[w].project = p)
    BY <1>u, <1>p DEF Moved
<1>2. Linked'
  <2>1. \A q \in Projects : task'[q] # Null => q \in Range(order) /\ task[q] # Null
      BY <1>1, <1>u, TaskOf DEF TasksTyped, IInv
  <2> QED BY <2>1, <1>u, <1>s DEF IInv, Linked, SameTask, RefsOf
<1>3. Taken'
    BY <1>u, TakenMoved DEF IInv
<1>4. Ordered'
  <2>1. ASSUME NEW q \in Range(order), task'[q].done
        PROVE  Waited(q)'
    <3>1. CASE q = p
        BY <3>1, <2>1, <1>w DEF TaskStep
    <3>2. CASE q # p
        BY <3>2, <2>1, <1>w DEF TaskStep, IInv, Ordered
    <3> QED BY <3>1, <3>2
  <2>2. ASSUME NEW v \in Builders
        PROVE  /\ worker'[v].pc \in {"compile", "emit", "unblock"} => Waited(worker[v].project)'
               /\ worker'[v].pc \in {"compile", "emit"} => task'[worker'[v].project].resolved
    <3>1. CASE v = w
        BY <3>1, <1>x, <1>w, <1>s, <1>p DEF TaskStep, SameTask
    <3>2. CASE v # w /\ worker[v].pc \in {"compile", "emit", "unblock"}
      <4>1. Active(v)
          BY <3>2 DEF Active
      <4>2. worker[v].project \in Range(order) /\ worker'[v] = worker[v]
          BY <4>1, <3>2, <1>d, <1>v
      <4> QED BY <3>2, <4>2, <1>w, <1>s DEF IInv, Ordered, SameTask
    <3>3. CASE v # w /\ worker[v].pc \notin {"compile", "emit", "unblock"}
        BY <3>3, <1>v
    <3> QED BY <3>1, <3>2, <3>3
  <2> QED BY <2>1, <2>2, <1>u DEF Ordered
<1>5. Open'
  <2>1. ASSUME NEW v \in Builders, (Active(v) /\ Renewed(task[worker[v].project]))'
        PROVE  (worker'[v].pc # "report" => ~task'[worker'[v].project].done) /\ ~task'[worker'[v].project].reportDone
    <3>1. CASE v = w
      <4>1. pc # "next" /\ worker'[w].project = p
          BY <1>x, <2>1, <3>1 DEF Active
      <4>2. Renewed(task[p])
          BY <4>1, <2>1, <3>1, <1>s, <1>p, <1>u DEF Renewed, SameTask, Watch
      <4> QED BY <3>1, <4>1, <4>2, <1>x DEF TaskStep
    <3>2. CASE v # w
      <4>1. Active(v) /\ worker'[v] = worker[v]
          BY <3>2, <2>1, <1>v DEF Active
      <4>2. worker[v].project \in Range(order) \ {p}
          BY <4>1, <3>2, <1>d
      <4>3. Renewed(task[worker[v].project])
          BY <4>1, <4>2, <2>1, <1>s, <1>u DEF Renewed, SameTask, Watch
      <4>4. /\ task'[worker[v].project].done = task[worker[v].project].done
            /\ task'[worker[v].project].reportDone = task[worker[v].project].reportDone
          BY <4>2 DEF TaskStep
      <4>5. (worker[v].pc # "report" => ~task[worker[v].project].done) /\ ~task[worker[v].project].reportDone
          BY <4>1, <4>3 DEF IInv, Open
      <4> QED BY <4>1, <4>4, <4>5
    <3> QED BY <3>1, <3>2
  <2>2. ASSUME NEW i \in next..Len(order), (phase = "build" /\ Renewed(task[order[i]]))'
        PROVE  ~task'[order[i]].done /\ ~task'[order[i]].reportDone
    <3>1. PICK j \in DOMAIN order : j < next /\ p = order[j]
        BY <1>u, <1>p, ProjectOf DEF IInv
    <3>2. i \in DOMAIN order /\ i # j
      <4>1. next \in 1..(Len(order) + 1)
          BY DEF IInv, Typed, TypeOK
      <4> QED BY <4>1, <3>1, <1>o, SMT
    <3>3. order[i] # p /\ order[i] \in Range(order)
        BY <3>1, <3>2, <1>o, Places DEF IsInjective
    <3>4. Renewed(task[order[i]])
        BY <2>2, <3>3, <1>s, <1>u DEF Renewed, SameTask, Watch
    <3> QED BY <3>3, <3>4, <1>p DEF IInv, Open, TaskStep
  <2> QED BY <2>1, <2>2, <1>u DEF Open
<1>6. Known'
  <2>1. \A q \in Range(order) : StatusKnown(task'[q])
      BY DEF TaskStep
  <2>3. ASSUME NEW v \in Builders, worker'[v].pc = "unblock"
        PROVE  Settled(task'[worker'[v].project])
    <3>1. CASE v = w
        BY <3>1, <2>3, <1>x DEF TaskStep
    <3>2. CASE v # w
        BY <3>2, <2>3, <1>v DEF TaskStep
    <3> QED BY <3>1, <3>2
  <2> QED BY <2>1, <2>3, <1>u DEF Known, StatusKnown, Settled, StopOnErrors
<1>7. Lined'
  <2>1. \A i \in 2..Len(order) : order[i] \in Range(order)
    <3>1. \A i \in 2..Len(order) : i \in DOMAIN order
        BY <1>o, SMT
    <3> QED BY <3>1, <1>o, Places
  <2> QED BY <2>1, <1>u, <1>s DEF IInv, Lined, SameTask
<1> QED BY <1>1, <1>2, <1>3, <1>4, <1>5, <1>6, <1>7

(* A task u that differs from t in these fields only.                      *)
Fields(u, t, status, entry, pending, done, reportDone) ==
    /\ u \in TaskType /\ SameTask(u, t) /\ u.status = status /\ u.entry = entry /\ u.pending = pending
    /\ u.done = done /\ u.reportDone = reportDone

LEMMA TaskForms ==
    ASSUME NEW t \in TaskType
    PROVE  /\ \A s \in StatusType \cup {Null} :
                 Fields([t EXCEPT !.status = s], t, s, t.entry, t.pending, t.done, t.reportDone)
           /\ \A b \in BOOLEAN :
                 /\ Fields([t EXCEPT !.entry = b], t, t.status, b, t.pending, t.done, t.reportDone)
                 /\ Fields([t EXCEPT !.pending = b], t, t.status, t.entry, b, t.done, t.reportDone)
                 /\ Fields([t EXCEPT !.isInitialCycle = b], t, t.status, t.entry, t.pending, t.done, t.reportDone)
                 /\ Fields([t EXCEPT !.done = b], t, t.status, t.entry, t.pending, b, t.reportDone)
                 /\ Fields([t EXCEPT !.reportDone = b], t, t.status, t.entry, t.pending, t.done, b)
<1> DEFINE U == StatusType \cup {Null}  V == Projects \cup {Null, "open", "closed"}  W == Seq(Projects)
<1>1. TaskType = [status : U, pending : BOOLEAN, isInitialCycle : BOOLEAN, resolved : BOOLEAN, refs : W,
                  entry : BOOLEAN, done : BOOLEAN, reportDone : BOOLEAN, prev : V, inputTime : Nat, configTime : Nat]
    BY DEF TaskType
<1> HIDE DEF U, V, W
<1>2. \A s \in U : Fields([t EXCEPT !.status = s], t, s, t.entry, t.pending, t.done, t.reportDone)
    BY <1>1, SMT DEF SameTask, Fields
<1>3. \A b \in BOOLEAN : Fields([t EXCEPT !.entry = b], t, t.status, b, t.pending, t.done, t.reportDone)
    BY <1>1, SMT DEF SameTask, Fields
<1>4. \A b \in BOOLEAN : Fields([t EXCEPT !.pending = b], t, t.status, t.entry, b, t.done, t.reportDone)
    BY <1>1, SMT DEF SameTask, Fields
<1>5. \A b \in BOOLEAN : Fields([t EXCEPT !.isInitialCycle = b], t, t.status, t.entry, t.pending, t.done, t.reportDone)
    BY <1>1, SMT DEF SameTask, Fields
<1>6. \A b \in BOOLEAN : Fields([t EXCEPT !.done = b], t, t.status, t.entry, t.pending, b, t.reportDone)
    BY <1>1, SMT DEF SameTask, Fields
<1>7. \A b \in BOOLEAN : Fields([t EXCEPT !.reportDone = b], t, t.status, t.entry, t.pending, t.done, b)
    BY <1>1, SMT DEF SameTask, Fields
<1> QED BY <1>2, <1>3, <1>4, <1>5, <1>6, <1>7 DEF U

(* A change of two of the fields, as most steps make.                      *)
LEMMA TwoFields ==
    ASSUME NEW t \in TaskType, NEW s \in StatusType \cup {Null}, NEW b \in BOOLEAN
    PROVE  /\ Fields([t EXCEPT !.status = s, !.entry = b], t, s, b, t.pending, t.done, t.reportDone)
           /\ Fields([t EXCEPT !.status = s, !.pending = b], t, s, t.entry, b, t.done, t.reportDone)
<1>0. Fields([t EXCEPT !.status = s], t, s, t.entry, t.pending, t.done, t.reportDone)
    BY TaskForms
<1>1. PICK u : u = [t EXCEPT !.status = s]
    OBVIOUS
<1>2. Fields(u, t, s, t.entry, t.pending, t.done, t.reportDone) /\ u \in TaskType
    BY <1>0, <1>1 DEF Fields
<1>3. /\ Fields([u EXCEPT !.entry = b], u, u.status, b, u.pending, u.done, u.reportDone)
      /\ Fields([u EXCEPT !.pending = b], u, u.status, u.entry, b, u.done, u.reportDone)
    BY <1>2, TaskForms
<1>4. /\ Fields([u EXCEPT !.entry = b], t, s, b, t.pending, t.done, t.reportDone)
      /\ Fields([u EXCEPT !.pending = b], t, s, t.entry, b, t.done, t.reportDone)
    BY <1>2, <1>3 DEF Fields, SameTask
<1>5. [t EXCEPT !.status = s, !.entry = b] = [u EXCEPT !.entry = b] /\ [t EXCEPT !.status = s, !.pending = b] = [u EXCEPT !.pending = b]
    BY <1>1
<1> QED BY <1>4, <1>5

(* unblockDownstream changes three of them.                                *)
LEMMA ThreeFields ==
    ASSUME NEW t \in TaskType
    PROVE  Fields([t EXCEPT !.pending = FALSE, !.isInitialCycle = FALSE, !.done = TRUE], t, t.status, t.entry, FALSE, TRUE, t.reportDone)
<1>0. Fields([t EXCEPT !.pending = FALSE], t, t.status, t.entry, FALSE, t.done, t.reportDone)
    BY TaskForms
<1>1. PICK u : u = [t EXCEPT !.pending = FALSE]
    OBVIOUS
<1>2. Fields(u, t, t.status, t.entry, FALSE, t.done, t.reportDone) /\ u \in TaskType
    BY <1>0, <1>1 DEF Fields
<1>3. Fields([u EXCEPT !.isInitialCycle = FALSE], u, u.status, u.entry, u.pending, u.done, u.reportDone)
    BY <1>2, TaskForms
<1>4. PICK v : v = [u EXCEPT !.isInitialCycle = FALSE]
    OBVIOUS
<1>5. Fields(v, u, u.status, u.entry, u.pending, u.done, u.reportDone) /\ v \in TaskType
    BY <1>3, <1>4 DEF Fields
<1>6. Fields([v EXCEPT !.done = TRUE], v, v.status, v.entry, v.pending, TRUE, v.reportDone)
    BY <1>5, TaskForms
<1>7. [t EXCEPT !.pending = FALSE, !.isInitialCycle = FALSE, !.done = TRUE] = [v EXCEPT !.done = TRUE]
    BY <1>1, <1>4
<1>8. Fields([v EXCEPT !.done = TRUE], t, t.status, t.entry, FALSE, TRUE, t.reportDone)
    BY <1>2, <1>5, <1>6 DEF Fields, SameTask
<1> QED BY <1>7, <1>8

(* Goroutine w goes on to pc and changes only the task of its project.     *)
OneStep(w, p, pc, t) ==
    /\ Active(w) /\ p = worker[w].project /\ Moved(w, pc) /\ UNCHANGED <<phase, next, order, use, cfg>>
    /\ task' = [q \in Projects |-> task'[q]] /\ (\A q \in Projects : q # p => task'[q] = task[q]) /\ task'[p] = t
    /\ t \in TaskType /\ SameTask(t, task[p]) /\ RefOK(t) /\ StatusKnown(t)
    /\ (task[p].done => t.done) /\ (t.done => Waited(p))
    /\ pc \in {"compile", "emit", "unblock"} => Waited(p)
    /\ pc \in {"compile", "emit"} => task[p].resolved
    /\ pc \notin {"report", "next"} /\ Renewed(task[p]) => ~t.done
    /\ pc # "next" /\ Renewed(task[p]) => ~t.reportDone
    /\ pc = "unblock" => Settled(t)

LEMMA OneTask ==
    ASSUME IInv, NEW w \in Builders, NEW p, NEW pc \in Pcs, NEW t, OneStep(w, p, pc, t)
    PROVE  TaskStep(w, p, pc)
<1>p. p \in Range(order) /\ p \in Projects
    BY ProjectOf, TaskOf DEF IInv, OneStep
<1>o. Range(order) \subseteq Projects
    BY Places DEF IInv, Typed, TypeOK
<1>1. \A q \in Projects \ Range(order) : task'[q] = task[q]
    BY <1>p DEF OneStep
<1>2. \A q \in Range(order) : task'[q] \in TaskType /\ SameTask(task'[q], task[q]) /\ RefOK(task'[q]) /\ StatusKnown(task'[q])
  <2>1. ASSUME NEW q \in Range(order), q # p
        PROVE  task'[q] \in TaskType /\ SameTask(task'[q], task[q]) /\ RefOK(task'[q]) /\ StatusKnown(task'[q])
    <3>1. task'[q] = task[q] /\ task[q] \in TaskType /\ StatusKnown(task[q])
        BY <2>1, <1>o, TaskOf DEF IInv, Known, OneStep
    <3>2. RefOK(task[q])
        BY <2>1, <1>o, TaskOf DEF IInv, Typed, TypeOK, RefOK
    <3> QED BY <3>1, <3>2 DEF SameTask
  <2>2. task'[p] \in TaskType /\ SameTask(task'[p], task[p])
      BY DEF OneStep
  <2>3. RefOK(task'[p]) /\ StatusKnown(task'[p])
      BY DEF OneStep
  <2> QED BY <2>1, <2>2, <2>3
<1>3. \A q \in Range(order) \ {p} : task'[q].done = task[q].done /\ task'[q].reportDone = task[q].reportDone
    BY <1>o DEF OneStep
<1>4. \A v \in Builders \ {w} : worker[v].pc = "unblock" => Settled(task'[worker[v].project])
  <2>1. ASSUME NEW v \in Builders \ {w}, worker[v].pc = "unblock"
        PROVE  Settled(task'[worker[v].project])
    <3>1. Active(v)
        BY <2>1 DEF Active
    <3>2. worker[v].project # p /\ worker[v].project \in Projects
        BY <3>1, <1>o, ProjectOf DEF IInv, Taken, OneStep
    <3> QED BY <2>1, <3>2 DEF IInv, Known, OneStep
  <2> QED BY <2>1
<1> QED BY <1>1, <1>2, <1>3, <1>4 DEF TaskStep, OneStep

(* Typed when also outputs and the cache of times change.                  *)
FilesTyped ==
    /\ clock \in Nat
    /\ mTimes = [src |-> mTimes.src, cfg |-> mTimes.cfg] /\ IsTimes(mTimes.src) /\ IsTimes(mTimes.cfg)
    /\ out = [p \in Projects |-> out[p]]
    /\ \A p \in Projects :
          out[p] # Null => IsOutput(out[p]) /\ out[p].dtsTime <= out[p].time /\ out[p].time < clock

LEMMA TypedFiles == Typed => FilesTyped
BY DEF Typed, TypeOK, FilesTyped

LEMMA TypedNext ==
    ASSUME Typed, FilesTyped', TasksTyped', NEW w \in Builders, NEW pc, Moved(w, pc), panicked' \in BOOLEAN,
           UNCHANGED <<src, cfg, order, cyclic, next, phase, mode, use>>, clock <= clock'
    PROVE  Typed'
<1>1. \A q \in Projects : src'[q].time \in 1..clock' /\ cfg'[q].time \in 0..clock'
  <2>1. clock \in Nat /\ clock' \in Nat /\ \A q \in Projects : src[q].time \in 1..clock /\ cfg[q].time \in 0..clock
      BY DEF Typed, TypeOK, FilesTyped
  <2> QED BY <2>1, SMT
<1>2. worker' = [v \in Builders |-> worker'[v]] /\ \A v \in Builders : IsWorker(worker'[v])
    BY DEF Typed, Moved
<1> QED BY <1>1, <1>2 DEF Typed, TypeOK, FilesTyped, TasksTyped, RefOK, Watch

(* Outputs and what statuses say of them.                                  *)
LEMMA BuiltMoved ==
    ASSUME IInv, NEW w \in Builders, NEW pc \in Pcs, Moved(w, pc), UNCHANGED <<order, mode>>,
           pc # "clean", mode = "clean" => pc \in {"next", "report", "end"},
           mode = "clean" => \A q \in Range(order) : task'[q].status = task[q].status,
           \A q \in Range(order) : task'[q].status # Null /\ task'[q].status.kind \in UpKinds => OutputOK(out[q])'
    PROVE  Built'
<1>1. \A v \in Builders : IF mode = "clean" THEN worker'[v].pc \in {"next", "clean", "report", "end"}
                          ELSE worker'[v].pc # "clean"
  <2>1. ASSUME NEW v \in Builders
        PROVE  IF mode = "clean" THEN worker'[v].pc \in {"next", "clean", "report", "end"} ELSE worker'[v].pc # "clean"
    <3>1. CASE v = w
        BY <3>1 DEF Moved
    <3>2. CASE v # w
        BY <3>2 DEF IInv, Built, Moved
    <3> QED BY <3>1, <3>2
  <2> QED BY <2>1
<1> QED BY <1>1 DEF IInv, Built

LEMMA UnblockStep ==
    ASSUME IInv, NEW w \in Builders, unblockDownstream(w), UNCHANGED use
    PROVE  IInv'
<1>1. PICK p : p = worker[w].project
    OBVIOUS
<1>u. UNCHANGED <<clock, src, cfg, out, mTimes, order, cyclic, next, phase, mode, use>>
    BY DEF unblockDownstream, disk, graph
<1>a. worker[w].pc = "unblock" /\ Active(w) /\ Goto(w, "report") /\ "report" \in Pcs
    BY DEF unblockDownstream, Active, Pcs
<1>m. Moved(w, "report")
    BY <1>a, GotoMoved DEF IInv
<1>p. p \in Range(order)
    BY <1>1, <1>a, ProjectOf DEF IInv
<1>t. p \in Projects /\ task[p] \in TaskType /\ task[p].done \in BOOLEAN
    BY <1>p, TaskOf DEF IInv
<1>2. task' = [task EXCEPT ![p].pending = FALSE, ![p].isInitialCycle = FALSE, ![p].done = TRUE]
    BY <1>1 DEF unblockDownstream
<1>3. task = [q \in Projects |-> task[q]]
    BY DEF IInv, Typed, TypeOK
<1>4. /\ task' = [q \in Projects |-> task'[q]] /\ \A q \in Projects : q # p => task'[q] = task[q]
      /\ task'[p] = [task[p] EXCEPT !.pending = FALSE, !.isInitialCycle = FALSE, !.done = TRUE]
    BY <1>2, <1>3, <1>t
<1>5. Fields(task'[p], task[p], task[p].status, task[p].entry, FALSE, TRUE, task[p].reportDone)
    BY <1>4, <1>t, ThreeFields
<1>6. Settled(task[p]) /\ StatusKnown(task[p]) /\ Waited(p) /\ RefOK(task[p])
    BY <1>1, <1>a, <1>p, <1>t, TaskOf DEF IInv, Known, Ordered, Typed, TypeOK, RefOK
<1>7. RefOK(task'[p]) /\ StatusKnown(task'[p])
    BY <1>5, <1>6 DEF Fields, SameTask, RefOK, StatusKnown, Settled
<1>8. Renewed(task[p]) => ~task[p].reportDone
    BY <1>1, <1>a DEF IInv, Open
<1>9. TaskStep(w, p, "report")
  <2>1. PICK t : t = task'[p]
      OBVIOUS
  <2>2. OneStep(w, p, "report", t)
      BY <1>1, <1>a, <1>m, <1>u, <1>4, <1>5, <1>6, <1>7, <1>8, <2>1 DEF OneStep, Fields
  <2> QED BY <1>a, <2>2, OneTask
<1>10. TasksTyped' /\ Linked' /\ Taken' /\ Ordered' /\ Open' /\ Known' /\ Lined'
    BY <1>9, <1>a, TasksMoved
<1>11. Typed'
  <2>1. FilesTyped'
      BY <1>u, TypedFiles DEF IInv, FilesTyped
  <2>2. clock <= clock' /\ panicked' \in BOOLEAN
    <3>1. clock \in Nat
        BY DEF IInv, Typed
    <3>2. clock <= clock'
        BY <3>1, <1>u, SMT
    <3> QED BY <3>2, <1>1, <1>t DEF unblockDownstream
  <2> QED BY <2>1, <2>2, <1>10, <1>m, <1>u, TypedNext DEF IInv
<1>12. Built'
  <2>1. \A q \in Range(order) : task'[q].status = task[q].status
    <3>1. Range(order) \subseteq Projects
        BY Places DEF IInv, Typed, TypeOK
    <3> QED BY <3>1, <1>4, <1>5 DEF Fields
  <2>2. \A q \in Range(order) : task'[q].status # Null /\ task'[q].status.kind \in UpKinds => OutputOK(out[q])'
      BY <2>1, <1>u DEF IInv, Built, OutputOK
  <2> QED BY <2>1, <2>2, <1>a, <1>m, <1>u, BuiltMoved
<1> QED BY <1>10, <1>11, <1>12 DEF IInv

LEMMA ReportStep ==
    ASSUME IInv, NEW w \in Builders, report(w), UNCHANGED use
    PROVE  IInv'
<1>1. PICK p : p = worker[w].project
    OBVIOUS
<1>u. UNCHANGED <<clock, src, cfg, out, mTimes, order, cyclic, next, phase, mode, use>>
    BY DEF report, disk, graph
<1>a. worker[w].pc = "report" /\ Active(w) /\ "next" \in Pcs /\ worker' = [worker EXCEPT ![w] = Idle]
    BY DEF report, Active, Pcs
<1>m. Moved(w, "next")
  <2>1. IsWorker(Idle) /\ Idle.pc = "next"
      BY SMT DEF Idle, IsWorker, Pcs
  <2>2. worker = [v \in Builders |-> worker[v]]
      BY DEF IInv, Typed
  <2>3. worker' = [v \in Builders |-> worker'[v]] /\ worker'[w] = Idle /\ \A v \in Builders \ {w} : worker'[v] = worker[v]
      BY <1>a, <2>2
  <2> QED BY <2>1, <2>3 DEF Moved
<1>p. p \in Range(order)
    BY <1>1, <1>a, ProjectOf DEF IInv
<1>t. p \in Projects /\ task[p] \in TaskType /\ task[p].reportDone \in BOOLEAN
    BY <1>p, TaskOf DEF IInv
<1>2. task' = [task EXCEPT ![p].reportDone = TRUE]
    BY <1>1 DEF report
<1>3. task = [q \in Projects |-> task[q]]
    BY DEF IInv, Typed, TypeOK
<1>4. /\ task' = [q \in Projects |-> task'[q]] /\ \A q \in Projects : q # p => task'[q] = task[q]
      /\ task'[p] = [task[p] EXCEPT !.reportDone = TRUE]
    BY <1>2, <1>3, <1>t
<1>5. Fields(task'[p], task[p], task[p].status, task[p].entry, task[p].pending, task[p].done, TRUE)
    BY <1>4, <1>t, TaskForms
<1>6. StatusKnown(task[p]) /\ (task[p].done => Waited(p)) /\ RefOK(task[p])
    BY <1>1, <1>a, <1>p, <1>t, TaskOf DEF IInv, Known, Ordered, Typed, TypeOK, RefOK
<1>7. RefOK(task'[p]) /\ StatusKnown(task'[p])
    BY <1>5, <1>6 DEF Fields, SameTask, RefOK, StatusKnown, Settled
<1>9. TaskStep(w, p, "next")
  <2>1. PICK t : t = task'[p]
      OBVIOUS
  <2>2. OneStep(w, p, "next", t)
      BY <1>1, <1>a, <1>m, <1>u, <1>4, <1>5, <1>6, <1>7, <2>1 DEF OneStep, Fields
  <2> QED BY <1>a, <2>2, OneTask
<1>10. TasksTyped' /\ Linked' /\ Taken' /\ Ordered' /\ Open' /\ Known' /\ Lined'
    BY <1>9, <1>a, TasksMoved
<1>11. Typed'
  <2>1. FilesTyped'
      BY <1>u, TypedFiles DEF IInv, FilesTyped
  <2>2. clock <= clock' /\ panicked' \in BOOLEAN
    <3>1. clock \in Nat
        BY DEF IInv, Typed
    <3>2. clock <= clock'
        BY <3>1, <1>u, SMT
    <3> QED BY <3>2, <1>1, <1>t DEF report
  <2> QED BY <2>1, <2>2, <1>10, <1>m, <1>u, TypedNext DEF IInv
<1>12. Built'
  <2>1. \A q \in Range(order) : task'[q].status = task[q].status
    <3>1. Range(order) \subseteq Projects
        BY Places DEF IInv, Typed, TypeOK
    <3> QED BY <3>1, <1>4, <1>5 DEF Fields
  <2>2. \A q \in Range(order) : task'[q].status # Null /\ task'[q].status.kind \in UpKinds => OutputOK(out[q])'
      BY <2>1, <1>u DEF IInv, Built, OutputOK
  <2> QED BY <2>1, <2>2, <1>a, <1>m, <1>u, BuiltMoved
<1> QED BY <1>10, <1>11, <1>12 DEF IInv

(* The ways through buildProject.                                          *)
BuildCase(w, p, s, entry) ==
    \/ /\ ~task[p].pending /\ Goto(w, "unblock") /\ UNCHANGED <<clock, out, mTimes, task, panicked>>
    \/ /\ task[p].pending /\ NilBuildInfo(p) /\ panicked' = TRUE /\ UNCHANGED <<clock, out, mTimes, task, worker>>
    \/ /\ task[p].pending /\ isPseudoBuild(s) /\ mTimes' = TimesRead(p) /\ updateTimeStamps(p)
       /\ task' = [task EXCEPT ![p].status = [s EXCEPT !.kind = "UpToDate"], ![p].entry = entry]
       /\ Goto(w, "unblock") /\ UNCHANGED panicked
    \/ /\ task[p].pending /\ ~isPseudoBuild(s) /\ mTimes' = TimesRead(p)
       /\ task' = [task EXCEPT ![p].status = s, ![p].entry = entry]
       /\ Goto(w, IF NoBuildRequired(s) THEN "unblock" ELSE "compile") /\ UNCHANGED <<clock, out, panicked>>

LEMMA BuildCases ==
    ASSUME NEW w \in Builders, buildProject(w)
    PROVE  BuildCase(w, worker[w].project, getUpToDateStatus(worker[w].project),
                     HasBuildInfo(worker[w].project, getUpToDateStatus(worker[w].project)))
<1>1. PICK p : p = worker[w].project
    OBVIOUS
<1>2. PICK s : s = getUpToDateStatus(p)
    OBVIOUS
<1>3. PICK entry : entry = HasBuildInfo(p, s)
    OBVIOUS
<1>4. (CASE ~task[p].pending ->
                  Goto(w, "unblock") /\ UNCHANGED <<clock, out, mTimes, task, panicked>>
        [] task[p].pending /\ NilBuildInfo(p) ->
                  panicked' = TRUE /\ UNCHANGED <<clock, out, mTimes, task, worker>>
        [] task[p].pending /\ ~NilBuildInfo(p) /\ isPseudoBuild(s) ->
                  /\ mTimes' = TimesRead(p)
                  /\ updateTimeStamps(p)
                  /\ task' = [task EXCEPT ![p].status = [s EXCEPT !.kind = "UpToDate"], ![p].entry = entry]
                  /\ Goto(w, "unblock") /\ UNCHANGED panicked
        [] OTHER ->
                  /\ mTimes' = TimesRead(p)
                  /\ task' = [task EXCEPT ![p].status = s, ![p].entry = entry]
                  /\ Goto(w, IF NoBuildRequired(s) THEN "unblock" ELSE "compile")
                  /\ UNCHANGED <<clock, out, panicked>>)
    BY <1>1, <1>2, <1>3 DEF buildProject
<1>5. BuildCase(w, p, s, entry)
  <2>1. CASE ~task[p].pending
      BY <1>4, <2>1 DEF BuildCase
  <2>2. CASE task[p].pending /\ NilBuildInfo(p)
      BY <1>4, <2>2 DEF BuildCase
  <2>3. CASE task[p].pending /\ ~NilBuildInfo(p) /\ isPseudoBuild(s)
      BY <1>4, <2>3 DEF BuildCase
  <2>4. CASE task[p].pending /\ ~NilBuildInfo(p) /\ ~isPseudoBuild(s)
      BY <1>4, <2>4 DEF BuildCase
  <2> QED BY <2>1, <2>2, <2>3, <2>4
<1> QED BY <1>1, <1>2, <1>3, <1>5

ProjectIs(w, p) == p = worker[w].project

(* What the goroutine knows when it has waited.                            *)
LEMMA BuildFacts ==
    ASSUME IInv, NEW w \in Builders, NEW p, ProjectIs(w, p), buildProject(w)
    PROVE  /\ worker[w].pc = "wait" /\ Active(w) /\ ~panicked /\ mode # "clean"
           /\ p \in Range(order) /\ p \in Projects /\ task[p] \in TaskType /\ Waited(p)
           /\ StatusKnown(task[p]) /\ RefOK(task[p])
           /\ Renewed(task[p]) => ~task[p].done /\ ~task[p].reportDone
           /\ UNCHANGED <<src, cfg, order, cyclic, next, phase, mode>>
<1>1. worker[w].pc = "wait" /\ ~panicked /\ waitOnUpstream(p) /\ UNCHANGED <<src, cfg, order, cyclic, next, phase, mode>>
    BY DEF buildProject, graph, ProjectIs
<1>2. Active(w) /\ mode # "clean"
    BY <1>1 DEF Active, IInv, Built
<1>3. p \in Range(order)
    BY <1>2, ProjectOf DEF IInv, ProjectIs
<1>4. p \in Projects /\ task[p] \in TaskType
    BY <1>3, TaskOf DEF IInv
<1>5. StatusKnown(task[p]) /\ RefOK(task[p])
    BY <1>3, <1>4, TaskOf DEF IInv, Known, Typed, TypeOK, RefOK
<1>6. Renewed(task[p]) => ~task[p].done /\ ~task[p].reportDone
    BY <1>1, <1>2 DEF IInv, Open, ProjectIs
<1>7. Waited(p)
    BY <1>1 DEF waitOnUpstream, Waited
<1> QED BY <1>1, <1>2, <1>3, <1>4, <1>5, <1>6, <1>7

(* The status x that is noted: p has it, or the fast build has made it     *)
(* up to date.                                                             *)
NotedAs(p, s, x) ==
    /\ s = getUpToDateStatus(p) /\ x \in StatusType /\ x.ref = s.ref
    /\ (x = s /\ ~isPseudoBuild(s)) \/ (x.kind = "UpToDate" /\ isPseudoBuild(s))

NotedTask(t, p, s, x) ==
    /\ NotedAs(p, s, x) /\ p \in Range(order) /\ StatusKnown(task[p]) /\ task[p].pending
    /\ Renewed(task[p]) => ~task[p].done
    /\ Fields(t, task[p], x, HasBuildInfo(p, s), task[p].pending, task[p].done, task[p].reportDone)

LEMMA NotedStatus ==
    ASSUME IInv, NEW t, NEW p, NEW s, NEW x, NotedTask(t, p, s, x)
    PROVE  StatusKnown(t) /\ RefOK(t) /\ (~NoBuildRequired(x) => task[p].resolved) /\ (NoBuildRequired(x) => Settled(t))
           /\ t.status = x
<1>0. /\ NotedAs(p, s, x) /\ p \in Range(order) /\ StatusKnown(task[p]) /\ task[p].pending
      /\ Renewed(task[p]) => ~task[p].done
    BY DEF NotedTask
<1>f. /\ t.refs = task[p].refs /\ t.resolved = task[p].resolved /\ t.status = x /\ t.entry = HasBuildInfo(p, s)
      /\ t.pending = task[p].pending /\ t.done = task[p].done
    BY DEF Fields, SameTask, NotedTask
<1>n. /\ x \in StatusType /\ x.ref = s.ref
      /\ (x = s /\ ~isPseudoBuild(s)) \/ (x.kind = "UpToDate" /\ isPseudoBuild(s))
    BY <1>0 DEF NotedAs
<1>s. StatusOK(p, s)
    BY <1>0, StatusIsOK DEF IInv, NotedAs
<1>1. x # Null
    BY <1>n, NullIsNone
<1>2. RefOK(t)
    BY <1>f, <1>n, <1>s DEF RefOK, StatusOK
<1>3. t.entry \/ x.kind \in WithoutInfo
  <2>1. CASE task[p].status = Null
      BY <2>1, <1>f, <1>n DEF HasBuildInfo, WithoutInfo, isPseudoBuild
  <2>2. CASE task[p].status # Null
      BY <2>2, <1>f, <1>n, <1>s, <1>0 DEF HasBuildInfo, StatusOK, StatusKnown, WithoutInfo, isPseudoBuild
  <2> QED BY <2>1, <2>2
<1>4. s.kind = "UpstreamErrors" => StopOnErrors
    BY <1>s, <1>0 DEF StatusOK, StatusKnown
<1>5. s.kind = "ConfigFileNotFound" <=> ~task[p].resolved
    BY <1>s, <1>0 DEF StatusOK, StatusKnown
<1>6. x.kind = "ConfigFileNotFound" <=> ~task[p].resolved
    BY <1>5, <1>n DEF isPseudoBuild
<1>7. x.kind = "UpstreamErrors" => StopOnErrors
    BY <1>4, <1>n
<1>8. ~NoBuildRequired(x) => task[p].resolved
    BY <1>6 DEF NoBuildRequired
<1>9. NoBuildRequired(x) => Settled(t)
    BY <1>f, <1>1 DEF NoBuildRequired, Settled
<1>10. t.done \/ ~t.pending => Settled(t)
    BY <1>f, <1>6, <1>1, <1>0 DEF Renewed, Settled
<1> QED BY <1>f, <1>1, <1>2, <1>3, <1>6, <1>7, <1>8, <1>9, <1>10 DEF StatusKnown

(* A project that is found to be up to date has outputs.                   *)
LEMMA UpHasOutput ==
    ASSUME IInv, NEW p \in Range(order), getUpToDateStatus(p).kind \in UpKinds
    PROVE  OutputOK(out[p])
<1>p. p \in Projects
    BY TaskOf DEF IInv
<1>e. EarlyOK(p, EarlyStatus(p))
    BY EarlyForm DEF IInv
<1>1. CASE task[p].status # Null
  <2>1. getUpToDateStatus(p) = task[p].status
      BY <1>1, StatusIsOK DEF IInv, StatusOK
  <2> QED BY <1>1, <2>1 DEF IInv, Built
<1>2. CASE task[p].status = Null
  <2>1. EarlyStatus(p) = Null
    <3>1. CASE EarlyStatus(p) # Null
      <4>1. getUpToDateStatus(p) = EarlyStatus(p)
          BY <3>1 DEF getUpToDateStatus
      <4> QED BY <1>2, <3>1, <4>1, <1>e DEF EarlyOK, UpKinds
    <3> QED BY <3>1
  <2>2. out[p] # Null
    <3>1. CASE out[p] = Null
      <4>1. EarlyStatus(p) \in StatusType
        <5>1. PICK e : e = EarlyStatus(p)
            OBVIOUS
        <5>2. {"ConfigFileNotFound", "ForceBuild", "OutputMissing", "UpstreamErrors"} \subseteq Kinds
            BY DEF Kinds
        <5>3. \A k \in Kinds : Status(k) # Null
            BY StatusForm, NullIsNone
        <5>4. Status("ConfigFileNotFound") # Null /\ Status("ForceBuild") # Null /\ Status("OutputMissing") # Null
            BY <5>2, <5>3
        <5>5. task[p].resolved
            BY <2>1, <1>2, <5>4 DEF EarlyStatus
        <5>6. ~(StopOnErrors /\ {i \in DOMAIN task[p].refs : isError(task[task[p].refs[i]].status)} # {})
          <6> DEFINE failed == {i \in DOMAIN task[p].refs : isError(task[task[p].refs[i]].status)}
          <6>1. ASSUME StopOnErrors, failed # {} PROVE FALSE
            <7>1. EarlyStatus(p) = [Status("UpstreamErrors") EXCEPT !.ref = task[p].refs[First(failed)]]
                BY <1>2, <5>5, <6>1 DEF EarlyStatus
            <7>2. task[p].refs \in Seq(Projects)
                BY TaskOf DEF IInv
            <7>3. DOMAIN task[p].refs \subseteq Nat
                BY <7>2, Places
            <7>4. failed \in SUBSET Nat
                BY <7>3
            <7>5. First(failed) \in failed
                BY <7>4, <6>1, FirstIn
            <7>6. task[p].refs[First(failed)] \in Projects
                BY <7>2, <7>5, Places
            <7>7. [Status("UpstreamErrors") EXCEPT !.ref = task[p].refs[First(failed)]] \in StatusType
                BY <7>6, <5>2, StatusForm
            <7> HIDE DEF failed
            <7> QED BY <7>1, <7>7, <2>1, NullIsNone
          <6> QED BY <6>1
        <5> QED BY <2>1, <1>2, <3>1, <5>4, <5>5, <5>6 DEF EarlyStatus
      <4> QED BY <4>1, <2>1, NullIsNone
    <3> QED BY <3>1
  <2> QED BY <2>2, <1>p DEF IInv, Typed, TypeOK, OutputOK
<1> QED BY <1>1, <1>2

LEMMA TimesReadTyped ==
    ASSUME Typed, NEW p \in Projects, NEW m, m = TimesRead(p)
    PROVE  m = [src |-> m.src, cfg |-> m.cfg] /\ IsTimes(m.src) /\ IsTimes(m.cfg)
<1>1. SrcTime(p) \in Nat \cup {Null} /\ CfgTime(p) \in Nat \cup {Null}
    BY TimeIsNat
<1>2. IsTimes(mTimes.src) /\ IsTimes(mTimes.cfg)
    BY DEF Typed
<1>3. PICK x \in Nat \cup {Null}, y \in Nat \cup {Null} :
          m = [src |-> [mTimes.src EXCEPT ![p] = x], cfg |-> [mTimes.cfg EXCEPT ![p] = y]]
  <2>1. mTimes.src[p] \in Nat \cup {Null} /\ mTimes.cfg[p] \in Nat \cup {Null}
      BY <1>2 DEF IsTimes
  <2> QED BY <1>1, <2>1 DEF TimesRead
<1>4. IsTimes([mTimes.src EXCEPT ![p] = x]) /\ IsTimes([mTimes.cfg EXCEPT ![p] = y])
    BY <1>2, <1>3 DEF IsTimes
<1>5. PICK f, g : f = [mTimes.src EXCEPT ![p] = x] /\ g = [mTimes.cfg EXCEPT ![p] = y]
    OBVIOUS
<1>6. m = [src |-> f, cfg |-> g] /\ IsTimes(f) /\ IsTimes(g)
    BY <1>3, <1>4, <1>5
<1>7. m.src = f /\ m.cfg = g
    BY <1>6, SMT
<1> QED BY <1>6, <1>7

(* Touching outputs.                                                       *)
LEMMA TouchedOutput ==
    ASSUME NEW o, OutputOK(o), clock \in Nat, clock' = clock + 1, NEW u, u = [o EXCEPT !.time = clock]
    PROVE  OutputOK(u)'
<1>2. IsOutput(u) /\ u.time = clock /\ u.dtsTime = o.dtsTime
    BY SMT DEF OutputOK, IsOutput
<1>3. o.dtsTime <= o.time /\ o.time < clock /\ o.time \in Nat /\ o.dtsTime \in Nat
    BY DEF OutputOK, IsOutput
<1>4. u.dtsTime <= u.time /\ u.time < clock'
    BY <1>2, <1>3, SMT
<1> QED BY <1>2, <1>4 DEF OutputOK, IsOutput

LEMMA LaterOutput ==
    ASSUME NEW o, OutputOK(o), clock \in Nat, clock' \in {clock, clock + 1}
    PROVE  OutputOK(o)'
<1>1. o.time < clock /\ o.time \in Nat
    BY DEF OutputOK, IsOutput
<1>2. o.time < clock'
    BY <1>1, SMT
<1> QED BY <1>2 DEF OutputOK, IsOutput

(* buildProject, when the status is noted.                                 *)
LEMMA NotedStep ==
    ASSUME IInv, NEW w \in Builders, buildProject(w), UNCHANGED use, NEW p, ProjectIs(w, p),
           NEW s, NEW x, NotedAs(p, s, x),
           NEW pc \in {"unblock", "compile"}, NoBuildRequired(x) <=> pc = "unblock",
           task[p].pending, task' = [task EXCEPT ![p].status = x, ![p].entry = HasBuildInfo(p, s)], Goto(w, pc)
    PROVE  /\ Moved(w, pc) /\ TasksTyped' /\ Linked' /\ Taken' /\ Ordered' /\ Open' /\ Known' /\ Lined'
           /\ task'[p].status = x /\ \A q \in Projects : q # p => task'[q] = task[q]
<1>b. /\ worker[w].pc = "wait" /\ Active(w) /\ ~panicked /\ mode # "clean"
      /\ p \in Range(order) /\ p \in Projects /\ task[p] \in TaskType /\ Waited(p)
      /\ StatusKnown(task[p]) /\ RefOK(task[p])
      /\ Renewed(task[p]) => ~task[p].done /\ ~task[p].reportDone
      /\ UNCHANGED <<src, cfg, order, cyclic, next, phase, mode>>
    BY BuildFacts
<1>c. pc \in Pcs
    BY DEF Pcs
<1>m. Moved(w, pc)
    BY <1>c, GotoMoved DEF IInv
<1>1. PICK e \in BOOLEAN : e = HasBuildInfo(p, s)
    BY DEF HasBuildInfo
<1>2. task = [q \in Projects |-> task[q]] /\ task' = [task EXCEPT ![p].status = x, ![p].entry = e]
    BY <1>1 DEF IInv, Typed, TypeOK
<1>3. /\ task' = [q \in Projects |-> task'[q]] /\ \A q \in Projects : q # p => task'[q] = task[q]
      /\ task'[p] = [task[p] EXCEPT !.status = x, !.entry = e]
    BY <1>2, <1>b
<1>4. x \in StatusType \cup {Null}
    BY DEF NotedAs
<1>5. Fields([task[p] EXCEPT !.status = x, !.entry = e], task[p], x, e, task[p].pending, task[p].done, task[p].reportDone)
    BY <1>b, <1>1, <1>4, TwoFields
<1>6. PICK t : t = task'[p]
    OBVIOUS
<1>7. Fields(t, task[p], x, HasBuildInfo(p, s), task[p].pending, task[p].done, task[p].reportDone)
    BY <1>1, <1>3, <1>5, <1>6
<1>8. Renewed(task[p]) => ~task[p].done
    BY <1>b
<1>9. StatusKnown(t) /\ RefOK(t) /\ (~NoBuildRequired(x) => task[p].resolved) /\ (NoBuildRequired(x) => Settled(t))
      /\ t.status = x
  <2>1. p \in Range(order) /\ StatusKnown(task[p]) /\ task[p].pending
      BY <1>b
  <2>2. NotedTask(t, p, s, x)
      BY <1>7, <1>8, <2>1 DEF NotedTask
  <2> QED BY <2>2, NotedStatus
<1>10. t \in TaskType /\ SameTask(t, task[p]) /\ t.done = task[p].done /\ t.reportDone = task[p].reportDone
    BY <1>7 DEF Fields
<1>11. OneStep(w, p, pc, t)
    BY <1>b, <1>m, <1>3, <1>6, <1>9, <1>10 DEF OneStep, ProjectIs
<1>12. TaskStep(w, p, pc)
    BY <1>c, <1>11, OneTask
<1>13. TasksTyped' /\ Linked' /\ Taken' /\ Ordered' /\ Open' /\ Known' /\ Lined'
    BY <1>c, <1>12, TasksMoved
<1> QED BY <1>m, <1>3, <1>6, <1>9, <1>13

(* Typed and Built after that.                                             *)
LEMMA NotedFiles ==
    ASSUME IInv, NEW w \in Builders, NEW pc \in {"unblock", "compile"}, Moved(w, pc), TasksTyped', NEW p \in Range(order),
           NEW s, NEW x, NotedAs(p, s, x),
           task'[p].status = x, \A q \in Projects : q # p => task'[q] = task[q], mTimes' = TimesRead(p), mode # "clean",
           UNCHANGED <<src, cfg, order, cyclic, next, phase, mode, use, panicked>>,
           UNCHANGED <<clock, out>> \/ (isPseudoBuild(s) /\ updateTimeStamps(p))
    PROVE  Typed' /\ Built'
<1>c. pc \in Pcs
    BY DEF Pcs
<1>p. p \in Projects /\ Range(order) \subseteq Projects
    BY TaskOf, Places DEF IInv, Typed, TypeOK
<1>k. clock \in Nat /\ FilesTyped /\ out = [q \in Projects |-> out[q]]
    BY TypedFiles DEF IInv, FilesTyped
<1>1. clock' \in {clock, clock + 1} /\ clock' \in Nat /\ clock <= clock'
  <2>1. clock' \in {clock, clock + 1}
      BY DEF updateTimeStamps
  <2> QED BY <2>1, <1>k, SMT
<1>2. x.kind \in UpKinds => OutputOK(out[p])
  <2>1. x.kind \in UpKinds => s.kind \in UpKinds
      BY DEF isPseudoBuild, UpKinds, NotedAs
  <2> QED BY <2>1, UpHasOutput DEF NotedAs
<1>3. /\ out' = [q \in Projects |-> out'[q]] /\ \A q \in Projects : q # p => out'[q] = out[q]
      /\ out'[p] = out[p] \/ (OutputOK(out[p]) /\ OutputOK(out[p])')
  <2>1. CASE UNCHANGED <<clock, out>>
    <3>1. out' = out
        BY <2>1
    <3>2. out' = [q \in Projects |-> out'[q]]
        BY <3>1, <1>k, SMT
    <3>3. \A q \in Projects : out'[q] = out[q]
        BY <3>1
    <3> QED BY <3>2, <3>3, <1>p
  <2>2. CASE isPseudoBuild(s) /\ updateTimeStamps(p)
    <3>1. OutputOK(out[p])
        BY <2>2, UpHasOutput DEF isPseudoBuild, UpKinds, NotedAs
    <3>2. out' = [out EXCEPT ![p].time = clock] /\ clock' = clock + 1
        BY <2>2 DEF updateTimeStamps
    <3>3. /\ out' = [q \in Projects |-> out'[q]] /\ \A q \in Projects : q # p => out'[q] = out[q]
          /\ out'[p] = [out[p] EXCEPT !.time = clock]
        BY <3>2, <1>k, <1>p
    <3>4. PICK o, u : o = out[p] /\ u = out'[p]
        OBVIOUS
    <3>5. OutputOK(o) /\ u = [o EXCEPT !.time = clock]
        BY <3>1, <3>3, <3>4
    <3>6. OutputOK(u)'
        BY <3>5, <3>2, <1>k, TouchedOutput
    <3>7. OutputOK(out[p])'
        BY <3>4, <3>6 DEF OutputOK
    <3> QED BY <3>1, <3>3, <3>7
  <2> QED BY <2>1, <2>2
<1>4. \A o : OutputOK(o) => OutputOK(o)'
    BY <1>1, <1>k, LaterOutput
<1>5. \A q \in Projects : OutputOK(out[q]) => OutputOK(out[q])'
  <2>1. \A q \in Projects : q # p => (OutputOK(out[q]) => OutputOK(out[q])')
    <3>1. ASSUME NEW q \in Projects, q # p, OutputOK(out[q]) PROVE OutputOK(out[q])'
      <4>1. PICK o : o = out[q]
          OBVIOUS
      <4>2. OutputOK(o)'
          BY <3>1, <4>1, <1>4
      <4> QED BY <3>1, <4>1, <4>2, <1>3 DEF OutputOK
    <3> QED BY <3>1
  <2>2. OutputOK(out[p]) => OutputOK(out[p])'
    <3>1. ASSUME out'[p] = out[p], OutputOK(out[p]) PROVE OutputOK(out[p])'
      <4>1. PICK o : o = out[p]
          OBVIOUS
      <4>2. OutputOK(o)'
          BY <3>1, <4>1, <1>4
      <4> QED BY <3>1, <4>1, <4>2 DEF OutputOK
    <3> QED BY <3>1, <1>3
  <2> QED BY <2>1, <2>2
<1>6. FilesTyped'
  <2>1. PICK m : m = mTimes'
      OBVIOUS
  <2>2. m = [src |-> m.src, cfg |-> m.cfg] /\ IsTimes(m.src) /\ IsTimes(m.cfg)
      BY <2>1, <1>p, TimesReadTyped DEF IInv
  <2>3. \A q \in Projects : out[q] # Null => OutputOK(out[q])
      BY <1>k DEF FilesTyped, OutputOK
  <2>4. \A q \in Projects : out'[q] # Null => OutputOK(out[q])'
      BY <2>3, <1>5, <1>3
  <2>5. (mTimes = [src |-> mTimes.src, cfg |-> mTimes.cfg])' /\ IsTimes(mTimes.src)' /\ IsTimes(mTimes.cfg)'
      BY <2>1, <2>2 DEF IsTimes
  <2> QED BY <2>4, <2>5, <1>1, <1>3 DEF FilesTyped, OutputOK
<1>7. Typed'
  <2>1. panicked' \in BOOLEAN
      BY DEF IInv, Typed, TypeOK
  <2> QED BY <1>1, <1>6, <2>1, TypedNext DEF IInv
<1>8. Built'
  <2>1. ASSUME NEW q \in Range(order), task'[q].status # Null, task'[q].status.kind \in UpKinds
        PROVE  OutputOK(out[q])'
    <3>1. CASE q = p
        BY <3>1, <2>1, <1>2, <1>5, <1>p
    <3>2. CASE q # p
        BY <3>2, <2>1, <1>5, <1>p DEF IInv, Built
    <3> QED BY <3>1, <3>2
  <2> QED BY <2>1, <1>c, BuiltMoved
<1> QED BY <1>7, <1>8

LEMMA BuildProjectStep ==
    ASSUME IInv, NEW w \in Builders, buildProject(w), UNCHANGED use
    PROVE  IInv'
<1>1. PICK p : p = worker[w].project
    OBVIOUS
<1>i. ProjectIs(w, p)
    BY <1>1 DEF ProjectIs
<1>2. PICK s : s = getUpToDateStatus(p)
    OBVIOUS
<1>b. /\ worker[w].pc = "wait" /\ Active(w) /\ ~panicked /\ mode # "clean"
      /\ p \in Range(order) /\ p \in Projects /\ task[p] \in TaskType /\ Waited(p)
      /\ StatusKnown(task[p]) /\ RefOK(task[p])
      /\ Renewed(task[p]) => ~task[p].done /\ ~task[p].reportDone
      /\ UNCHANGED <<src, cfg, order, cyclic, next, phase, mode>>
    BY <1>i, BuildFacts
<1>c. BuildCase(w, p, s, HasBuildInfo(p, s))
    BY <1>1, <1>2, BuildCases
<1>s. StatusOK(p, s) /\ s \in StatusType
    BY <1>2, <1>b, StatusIsOK DEF IInv, StatusOK
<1>k. "unblock" \in Pcs /\ "compile" \in Pcs
    BY DEF Pcs
<1>3. CASE ~task[p].pending /\ Goto(w, "unblock") /\ UNCHANGED <<clock, out, mTimes, task, panicked>>
  <2>1. Moved(w, "unblock")
      BY <1>3, <1>k, GotoMoved DEF IInv
  <2>2. Typed' /\ Linked'
    <3>1. next' \in 1..(Len(order) + 1) /\ panicked' \in BOOLEAN
        BY <1>3, <1>b DEF IInv, Typed, TypeOK
    <3> QED BY <1>3, <1>b, <1>k, <2>1, <3>1, TypedWorker DEF IInv
  <2>3. Settled(task[p])
      BY <1>3, <1>b DEF StatusKnown
  <2>4. Taken' /\ Ordered' /\ Open' /\ Known' /\ Lined'
    <3>1. Waited(worker[w].project) /\ Settled(task[worker[w].project])
        BY <1>1, <1>b, <2>3
    <3> QED BY <3>1, <1>3, <1>b, <1>k, <2>1, RestMoved
  <2>5. Built'
    <3>1. \A q \in Range(order) : task'[q].status # Null /\ task'[q].status.kind \in UpKinds => OutputOK(out[q])'
        BY <1>3 DEF IInv, Built, OutputOK
    <3> QED BY <3>1, <1>3, <1>b, <1>k, <2>1, BuiltMoved
  <2> QED BY <2>2, <2>4, <2>5 DEF IInv
<1>4. CASE panicked' = TRUE /\ UNCHANGED <<clock, out, mTimes, task, worker>>
  <2>1. Typed'
      BY <1>4, <1>b DEF IInv, Typed, TypeOK, Watch
  <2>2. Linked' /\ Taken'
      BY <1>4, <1>b DEF IInv, Linked, RefsOf, Taken, Active
  <2>3. Ordered' /\ Open' /\ Known' /\ Lined' /\ Built'
      BY <1>4, <1>b DEF IInv, Ordered, Waited, Open, Active, Renewed, Watch, Known, StatusKnown, Settled, StopOnErrors,
            Lined, Built, OutputOK
  <2> QED BY <2>1, <2>2, <2>3 DEF IInv
<1>5. CASE /\ task[p].pending /\ isPseudoBuild(s) /\ mTimes' = TimesRead(p) /\ updateTimeStamps(p)
           /\ task' = [task EXCEPT ![p].status = [s EXCEPT !.kind = "UpToDate"], ![p].entry = HasBuildInfo(p, s)]
           /\ Goto(w, "unblock") /\ UNCHANGED panicked
  <2>1. PICK x : x = [s EXCEPT !.kind = "UpToDate"]
      OBVIOUS
  <2>2. x \in StatusType /\ x.kind = "UpToDate" /\ x.ref = s.ref
      BY <2>1, <1>s, SMT DEF StatusType, Kinds
  <2>3. NotedAs(p, s, x)
      BY <1>2, <1>5, <2>2 DEF NotedAs
  <2>4. NoBuildRequired(x) <=> "unblock" = "unblock"
      BY <2>2 DEF NoBuildRequired
  <2>5. task' = [task EXCEPT ![p].status = x, ![p].entry = HasBuildInfo(p, s)]
      BY <2>1, <1>5
  <2>6. /\ Moved(w, "unblock") /\ TasksTyped' /\ Linked' /\ Taken' /\ Ordered' /\ Open' /\ Known' /\ Lined'
        /\ task'[p].status = x /\ \A q \in Projects : q # p => task'[q] = task[q]
      BY <1>i, <1>5, <2>3, <2>4, <2>5, NotedStep
  <2>7. Typed' /\ Built'
      BY <1>5, <1>b, <2>3, <2>6, NotedFiles
  <2> QED BY <2>6, <2>7 DEF IInv
<1>6. CASE /\ task[p].pending /\ ~isPseudoBuild(s) /\ mTimes' = TimesRead(p)
           /\ task' = [task EXCEPT ![p].status = s, ![p].entry = HasBuildInfo(p, s)]
           /\ Goto(w, IF NoBuildRequired(s) THEN "unblock" ELSE "compile") /\ UNCHANGED <<clock, out, panicked>>
  <2>1. PICK pc \in {"unblock", "compile"} : Goto(w, pc) /\ (NoBuildRequired(s) <=> pc = "unblock")
      BY <1>6
  <2>3. NotedAs(p, s, s)
      BY <1>2, <1>6, <1>s, SMT DEF NotedAs
  <2>6. /\ Moved(w, pc) /\ TasksTyped' /\ Linked' /\ Taken' /\ Ordered' /\ Open' /\ Known' /\ Lined'
        /\ task'[p].status = s /\ \A q \in Projects : q # p => task'[q] = task[q]
    <3>1. task[p].pending /\ task' = [task EXCEPT ![p].status = s, ![p].entry = HasBuildInfo(p, s)]
        BY <1>6
    <3>2. Goto(w, pc) /\ (NoBuildRequired(s) <=> pc = "unblock")
        BY <2>1
    <3> QED BY <1>i, <2>3, <3>1, <3>2, NotedStep
  <2>7. Typed' /\ Built'
      BY <1>6, <1>b, <2>1, <2>3, <2>6, NotedFiles
  <2> QED BY <2>6, <2>7 DEF IInv
<1> QED BY <1>c, <1>3, <1>4, <1>5, <1>6 DEF BuildCase

(* What updateDownstream makes of a status.                                *)
DownstreamOK(s, x) ==
    /\ x \in StatusType \cup {Null}
    /\ x # Null => s # Null /\ (x = s \/ (s.kind \in UpKinds /\ x.ref \in {s.ref, Null}
                                         /\ x.kind \in {"UpToDateWithUpstreamTypes", "InputFileNewer"}))

LEMMA DownstreamForm ==
    ASSUME NEW u, NEW s \in StatusType \cup {Null}, NEW changed \in BOOLEAN
    PROVE  DownstreamOK(s, DownstreamStatus(u, s, changed))
<1>0. PICK x : x = DownstreamStatus(u, s, changed)
    OBVIOUS
<1> SUFFICES DownstreamOK(s, x)
    BY <1>0
<1> USE DEF DownstreamOK
<1>1. CASE s = Null
    BY <1>0, <1>1 DEF DownstreamStatus
<1>2. CASE s # Null /\ s.kind = "UpToDate" /\ ~changed
  <2>1. x = [s EXCEPT !.kind = "UpToDateWithUpstreamTypes"]
      BY <1>0, <1>2 DEF DownstreamStatus, isPseudoBuild
  <2>2. s \in StatusType
      BY <1>2
  <2>3. x \in StatusType /\ x.kind = "UpToDateWithUpstreamTypes" /\ x.ref = s.ref
      BY <2>1, <2>2, SMT DEF StatusType, Kinds
  <2> QED BY <1>2, <2>3 DEF UpKinds
<1>3. CASE s # Null /\ changed /\ (s.kind = "UpToDate" \/ isPseudoBuild(s))
  <2>1. x = Status("InputFileNewer")
      BY <1>0, <1>3 DEF DownstreamStatus, isPseudoBuild
  <2>2. "InputFileNewer" \in Kinds
      BY DEF Kinds
  <2>3. x \in StatusType /\ x.kind = "InputFileNewer" /\ x.ref = Null
    <3>1. Status("InputFileNewer") \in StatusType /\ Status("InputFileNewer").kind = "InputFileNewer" /\ Status("InputFileNewer").ref = Null
        BY <2>2, StatusForm
    <3> QED BY <2>1, <3>1
  <2> QED BY <1>3, <2>3 DEF UpKinds, isPseudoBuild
<1>4. CASE s # Null /\ s.kind = "UpstreamErrors" /\ s.ref = u
    BY <1>0, <1>4 DEF DownstreamStatus, isPseudoBuild
<1>5. CASE ~(s = Null) /\ ~(s # Null /\ s.kind = "UpToDate" /\ ~changed) /\ ~(s # Null /\ changed /\ (s.kind = "UpToDate" \/ isPseudoBuild(s)))
           /\ ~(s # Null /\ s.kind = "UpstreamErrors" /\ s.ref = u)
    BY <1>0, <1>5 DEF DownstreamStatus
<1> QED BY <1>1, <1>2, <1>3, <1>4, <1>5

(* The task of a project downstream.                                       *)
Told(p, q, changed) == [task[q] EXCEPT !.status = DownstreamStatus(p, @, changed), !.pending = TRUE]

ToldAs(t, p, q, changed) == t = Told(p, q, changed) /\ changed \in BOOLEAN /\ ~task[q].done

ToldOK(t, q) ==
    /\ t \in TaskType /\ SameTask(t, task[q]) /\ RefOK(t) /\ StatusKnown(t)
    /\ t.done = task[q].done /\ t.reportDone = task[q].reportDone
    /\ t.status # Null /\ t.status.kind \in UpKinds => task[q].status # Null /\ task[q].status.kind \in UpKinds

LEMMA ToldTask ==
    ASSUME IInv, NEW q \in Range(order), NEW p, NEW changed, NEW t, ToldAs(t, p, q, changed)
    PROVE  ToldOK(t, q)
<1>a. t = Told(p, q, changed) /\ changed \in BOOLEAN /\ ~task[q].done
    BY DEF ToldAs
<1>q. q \in Projects /\ task[q] \in TaskType /\ task[q].status \in StatusType \cup {Null}
    BY TaskOf DEF IInv
<1>k. StatusKnown(task[q]) /\ RefOK(task[q])
    BY TaskOf DEF IInv, Known, Typed, TypeOK, RefOK
<1>1. PICK x : x = DownstreamStatus(p, task[q].status, changed)
    OBVIOUS
<1>2. /\ x \in StatusType \cup {Null}
      /\ x # Null => task[q].status # Null /\ (x = task[q].status \/ (task[q].status.kind \in UpKinds /\ x.ref \in {task[q].status.ref, Null}
                                        /\ x.kind \in {"UpToDateWithUpstreamTypes", "InputFileNewer"}))
  <2>1. DownstreamOK(task[q].status, DownstreamStatus(p, task[q].status, changed))
      BY <1>a, <1>q, DownstreamForm
  <2>2. DownstreamOK(task[q].status, x)
      BY <1>1, <2>1
  <2> QED BY <2>2 DEF DownstreamOK
<1>3. t = [task[q] EXCEPT !.status = x, !.pending = TRUE]
    BY <1>a, <1>1 DEF Told
<1>4. Fields([task[q] EXCEPT !.status = x, !.pending = TRUE], task[q], x, task[q].entry, TRUE, task[q].done, task[q].reportDone)
    BY <1>2, <1>q, TwoFields
<1>5. /\ t \in TaskType /\ SameTask(t, task[q]) /\ t.status = x /\ t.entry = task[q].entry /\ t.pending = TRUE
      /\ t.done = task[q].done /\ t.reportDone = task[q].reportDone
    BY <1>3, <1>4 DEF Fields
<1>6. RefOK(t)
    BY <1>5, <1>2, <1>k DEF RefOK, SameTask
<1>7. t.status # Null /\ t.status.kind \in UpKinds => task[q].status # Null /\ task[q].status.kind \in UpKinds
    BY <1>5, <1>2
<1>8. StatusKnown(t)
  <2>1. CASE x = Null
      BY <2>1, <1>5, <1>a DEF StatusKnown
  <2>2. CASE x = task[q].status /\ x # Null
      BY <2>2, <1>5, <1>k, <1>a DEF StatusKnown, SameTask
  <2>3. CASE x # Null /\ task[q].status # Null /\ task[q].status.kind \in UpKinds /\ x.kind \in {"UpToDateWithUpstreamTypes", "InputFileNewer"}
    <3>1. task[q].entry /\ task[q].resolved
        BY <2>3, <1>k DEF StatusKnown, UpKinds, WithoutInfo
    <3> QED BY <2>3, <3>1, <1>5, <1>a DEF StatusKnown, SameTask
  <2> QED BY <1>2, <2>1, <2>2, <2>3
<1> QED BY <1>5, <1>6, <1>7, <1>8 DEF ToldOK

(* What compileAndEmit makes of the tasks and of the outputs.              *)
EmitForm(w, p, err, changed, same) ==
    /\ changed \in BOOLEAN /\ (changed \/ out[p] # Null) /\ (same => out[p] # Null)
    /\ worker[w].pc = "emit" /\ worker' = [worker EXCEPT ![w] = [Idle EXCEPT !.pc = "unblock", !.project = p]]
    /\ out' = IF same THEN out ELSE [out EXCEPT ![p] = BuildInfo(w, changed)]
    /\ clock' = IF same THEN clock ELSE clock + 1
    /\ task' = [q \in Projects |->
           CASE q = p -> [task[p] EXCEPT !.status = Status(IF err THEN "BuildErrors" ELSE "UpToDate"), !.entry = TRUE]
             [] q # p /\ q \in Downstream(p, err) -> Told(p, q, changed)
             [] OTHER -> task[q]]
    /\ UNCHANGED <<src, cfg, mTimes, order, cyclic, next, phase, mode, panicked>>

LEMMA EmitForms ==
    ASSUME NEW w \in Builders, NEW p, ProjectIs(w, p), compileAndEmit(w)
    PROVE  \E err, changed, same : EmitForm(w, p, err, changed, same)
<1> DEFINE changed == out[p] = Null \/ out[p].sig # worker[w].sig
           same == out[p] # Null /\ task[p].status.kind = "OutOfDateBuildInfoWithErrors"
                   /\ ~changed /\ <<out[p].text, out[p].err, out[p].deps>> = <<worker[w].text, worker[w].err, worker[w].deps>>
<1>1. worker[w].project = p
    BY DEF ProjectIs
<1>2. /\ worker[w].pc = "emit" /\ worker' = [worker EXCEPT ![w] = [Idle EXCEPT !.pc = "unblock", !.project = p]]
      /\ out' = IF same THEN out ELSE [out EXCEPT ![p] = BuildInfo(w, changed)]
      /\ clock' = IF same THEN clock ELSE clock + 1
      /\ UNCHANGED <<src, cfg, mTimes, order, cyclic, next, phase, mode, panicked>>
    BY <1>1 DEF compileAndEmit, graph
<1>3. task' = [q \in Projects |->
           CASE q = p -> [task[p] EXCEPT !.status = Status(IF worker[w].err THEN "BuildErrors" ELSE "UpToDate"), !.entry = TRUE]
             [] q # p /\ q \in Downstream(p, worker[w].err) ->
                    [task[q] EXCEPT !.status = DownstreamStatus(p, @, changed), !.pending = TRUE]
             [] OTHER -> task[q]]
    BY <1>1 DEF compileAndEmit
<1>4. changed \in BOOLEAN /\ (changed \/ out[p] # Null) /\ (same => out[p] # Null)
    OBVIOUS
<1> HIDE DEF changed, same
<1>5. EmitForm(w, p, worker[w].err, changed, same)
    BY <1>2, <1>3, <1>4 DEF EmitForm, Told
<1> QED BY <1>5

(* The tasks after that, one by one.                                       *)
LEMMA EmitTasks ==
    ASSUME IInv, NEW w \in Builders, NEW p \in Projects, NEW err, NEW changed, NEW same, EmitForm(w, p, err, changed, same)
    PROVE  /\ task' = [q \in Projects |-> task'[q]]
           /\ \E s \in StatusType : /\ s.kind \in {"BuildErrors", "UpToDate"} /\ s.ref = Null
                                    /\ task'[p] = [task[p] EXCEPT !.status = s, !.entry = TRUE]
           /\ \A q \in Projects : q # p =>
                 task'[q] = task[q] \/ (task'[q] = Told(p, q, changed) /\ q \in Range(order) /\ p \in Range(task[q].refs))
<1>1. PICK s : s = Status(IF err THEN "BuildErrors" ELSE "UpToDate")
    OBVIOUS
<1>2. s \in StatusType /\ s.kind \in {"BuildErrors", "UpToDate"} /\ s.ref = Null
  <2>1. PICK k \in {"BuildErrors", "UpToDate"} : s = Status(k)
      BY <1>1
  <2>2. k \in Kinds
      BY DEF Kinds
  <2>3. Status(k) \in StatusType /\ Status(k).kind = k /\ Status(k).ref = Null
      BY <2>2, StatusForm
  <2> QED BY <2>1, <2>3
<1>3. task' = [q \in Projects |->
           CASE q = p -> [task[p] EXCEPT !.status = s, !.entry = TRUE]
             [] q # p /\ q \in Downstream(p, err) -> Told(p, q, changed)
             [] OTHER -> task[q]]
    BY <1>1 DEF EmitForm
<1>4. task' = [q \in Projects |-> task'[q]]
    BY <1>3
<1>5. task'[p] = [task[p] EXCEPT !.status = s, !.entry = TRUE]
    BY <1>3
<1>6. ASSUME NEW q \in Projects, q # p
      PROVE  task'[q] = task[q] \/ (task'[q] = Told(p, q, changed) /\ q \in Range(order) /\ p \in Range(task[q].refs))
  <2>1. CASE q \in Downstream(p, err)
    <3>1. task'[q] = Told(p, q, changed)
        BY <1>3, <1>6, <2>1
    <3>2. q \in Range(order) /\ p \in Range(task[q].refs)
        BY <2>1 DEF Downstream
    <3> QED BY <3>1, <3>2
  <2>2. CASE q \notin Downstream(p, err)
      BY <1>3, <1>6, <2>2
  <2> QED BY <2>1, <2>2
<1> QED BY <1>2, <1>4, <1>5, <1>6

LEMMA EmitStepTasks ==
    ASSUME IInv, NEW w \in Builders, NEW p, ProjectIs(w, p), NEW err, NEW changed, NEW same, EmitForm(w, p, err, changed, same),
           UNCHANGED use
    PROVE  /\ TaskStep(w, p, "unblock") /\ Moved(w, "unblock")
           /\ \A q \in Range(order) : q # p /\ task'[q].status # Null /\ task'[q].status.kind \in UpKinds =>
                 task[q].status # Null /\ task[q].status.kind \in UpKinds
<1>a. worker[w].pc = "emit" /\ Active(w) /\ changed \in BOOLEAN /\ p = worker[w].project
      /\ UNCHANGED <<src, cfg, mTimes, order, cyclic, next, phase, mode, panicked>>
    BY DEF EmitForm, Active, ProjectIs
<1>p. p \in Range(order) /\ p \in Projects /\ task[p] \in TaskType
    BY <1>a, ProjectOf, TaskOf DEF IInv
<1>o. Range(order) \subseteq Projects
    BY Places DEF IInv, Typed, TypeOK
<1>r. task[p].resolved /\ Waited(p)
    BY <1>a DEF IInv, Ordered
<1>d. ~task[p].done /\ ~task[p].reportDone
    BY <1>a, <1>r DEF IInv, Open, Renewed
<1>m. Moved(w, "unblock")
  <2>1. PICK r : r = [Idle EXCEPT !.pc = "unblock", !.project = p]
      OBVIOUS
  <2>2. IsWorker(r) /\ r.pc = "unblock" /\ r.project = p
    <3>1. r = [pc |-> "unblock", project |-> p, text |-> 0, sig |-> <<>>, err |-> FALSE, deps |-> <<>>]
        BY <2>1 DEF Idle
    <3> QED BY <3>1, SMT DEF IsWorker, Pcs
  <2>3. worker = [v \in Builders |-> worker[v]] /\ worker' = [worker EXCEPT ![w] = r]
      BY <2>1 DEF IInv, Typed, EmitForm
  <2>4. worker' = [v \in Builders |-> worker'[v]] /\ worker'[w] = r /\ \A v \in Builders \ {w} : worker'[v] = worker[v]
      BY <2>3
  <2> QED BY <2>2, <2>4, <1>a DEF Moved
<1>1. task' = [q \in Projects |-> task'[q]]
    BY <1>p, EmitTasks
<1>2. PICK s \in StatusType : /\ s.kind \in {"BuildErrors", "UpToDate"} /\ s.ref = Null
                              /\ task'[p] = [task[p] EXCEPT !.status = s, !.entry = TRUE]
    BY <1>p, EmitTasks
<1>3. \A q \in Projects : q # p =>
          task'[q] = task[q] \/ (task'[q] = Told(p, q, changed) /\ q \in Range(order) /\ p \in Range(task[q].refs))
    BY <1>p, EmitTasks
<1>4. /\ task'[p] \in TaskType /\ SameTask(task'[p], task[p]) /\ task'[p].status = s /\ task'[p].entry = TRUE
      /\ task'[p].done = task[p].done /\ task'[p].reportDone = task[p].reportDone
  <2>1. s \in StatusType \cup {Null} /\ TRUE \in BOOLEAN
      OBVIOUS
  <2>2. Fields([task[p] EXCEPT !.status = s, !.entry = TRUE], task[p], s, TRUE, task[p].pending, task[p].done, task[p].reportDone)
      BY <1>p, <2>1, TwoFields
  <2> QED BY <2>2, <1>2 DEF Fields
<1>5. s # Null
    BY NullIsNone
<1>6. RefOK(task'[p]) /\ StatusKnown(task'[p]) /\ Settled(task'[p])
    BY <1>2, <1>4, <1>5, <1>r DEF RefOK, StatusKnown, SameTask, Settled
<1>7. \A q \in Range(order) : p \in Range(task[q].refs) => ~task[q].done
    BY <1>d DEF IInv, Ordered, Waited
<1>8. ASSUME NEW q \in Range(order), q # p
      PROVE  /\ task'[q] \in TaskType /\ SameTask(task'[q], task[q]) /\ RefOK(task'[q]) /\ StatusKnown(task'[q])
             /\ task'[q].done = task[q].done /\ task'[q].reportDone = task[q].reportDone
             /\ task'[q].status # Null /\ task'[q].status.kind \in UpKinds => task[q].status # Null /\ task[q].status.kind \in UpKinds
  <2>1. CASE task'[q] = task[q]
    <3>1. task[q] \in TaskType /\ StatusKnown(task[q]) /\ RefOK(task[q])
        BY <1>8, TaskOf DEF IInv, Known, Typed, TypeOK, RefOK
    <3> QED BY <2>1, <3>1 DEF SameTask
  <2>2. CASE task'[q] = Told(p, q, changed) /\ p \in Range(task[q].refs)
    <3>1. PICK t : t = task'[q]
        OBVIOUS
    <3>2. ToldAs(t, p, q, changed)
        BY <2>2, <1>7, <1>a, <3>1 DEF ToldAs
    <3>3. ToldOK(t, q)
        BY <3>2, <1>8, ToldTask
    <3> QED BY <3>1, <3>3 DEF ToldOK
  <2> QED BY <1>3, <1>8, <1>o, <2>1, <2>2
<1>9. ASSUME NEW v \in Builders \ {w}, worker[v].pc = "unblock"
      PROVE  Settled(task'[worker[v].project])
  <2>1. Active(v) /\ Waited(worker[v].project) /\ Settled(task[worker[v].project])
      BY <1>9 DEF Active, IInv, Ordered, Known
  <2>2. worker[v].project # p /\ worker[v].project \in Projects
      BY <2>1, <1>a, <1>o, ProjectOf DEF IInv, Taken
  <2>3. p \notin Range(task[worker[v].project].refs)
      BY <2>1, <1>d DEF Waited
  <2> QED BY <2>1, <2>2, <2>3, <1>3
<1>10. \A q \in Projects \ Range(order) : task'[q] = task[q]
    BY <1>3, <1>p
<1>u. "unblock" \in Pcs
    BY DEF Pcs
<1>11. TaskStep(w, p, "unblock")
    BY <1>a, <1>m, <1>u, <1>1, <1>4, <1>6, <1>8, <1>9, <1>10, <1>r, <1>d DEF TaskStep
<1> QED BY <1>m, <1>8, <1>11

LEMMA CompileAndEmitStep ==
    ASSUME IInv, NEW w \in Builders, compileAndEmit(w), UNCHANGED use
    PROVE  IInv'
<1>1. PICK p : ProjectIs(w, p)
    BY DEF ProjectIs
<1>2. PICK err, changed, same : EmitForm(w, p, err, changed, same)
    BY <1>1, EmitForms
<1>3. /\ TaskStep(w, p, "unblock") /\ Moved(w, "unblock")
      /\ \A q \in Range(order) : q # p /\ task'[q].status # Null /\ task'[q].status.kind \in UpKinds =>
            task[q].status # Null /\ task[q].status.kind \in UpKinds
    BY <1>1, <1>2, EmitStepTasks
<1>c. "unblock" \in Pcs
    BY DEF Pcs
<1>4. TasksTyped' /\ Linked' /\ Taken' /\ Ordered' /\ Open' /\ Known' /\ Lined'
    BY <1>3, <1>c, TasksMoved
<1>a. worker[w].pc = "emit" /\ UNCHANGED <<src, cfg, mTimes, order, cyclic, next, phase, mode, panicked>>
      /\ changed \in BOOLEAN /\ (changed \/ out[p] # Null) /\ (same => out[p] # Null)
    BY <1>2 DEF EmitForm
<1>p. p \in Projects /\ Range(order) \subseteq Projects /\ mode # "clean"
  <2>1. Active(w) /\ mode # "clean"
      BY <1>a DEF Active, IInv, Built
  <2> QED BY <2>1, <1>1, ProjectOf, TaskOf, Places DEF IInv, Typed, TypeOK, ProjectIs
<1>k. clock \in Nat /\ out = [q \in Projects |-> out[q]] /\ \A q \in Projects : out[q] # Null => OutputOK(out[q])
    BY TypedFiles DEF IInv, FilesTyped, OutputOK
<1>5. clock' \in {clock, clock + 1} /\ clock' \in Nat /\ clock <= clock'
  <2>1. clock' \in {clock, clock + 1}
      BY <1>2 DEF EmitForm
  <2> QED BY <2>1, <1>k, SMT
<1>6. \A o : OutputOK(o) => OutputOK(o)'
    BY <1>5, <1>k, LaterOutput
<1>7. /\ out' = [q \in Projects |-> out'[q]] /\ (\A q \in Projects : q # p => out'[q] = out[q]) /\ OutputOK(out[p])'
  <2>1. CASE same
    <3>1. out' = out /\ out[p] # Null
        BY <2>1, <1>2, <1>a DEF EmitForm
    <3>2. PICK o : o = out[p] /\ OutputOK(o)
        BY <3>1, <1>k, <1>p
    <3>3. OutputOK(o)'
        BY <3>2, <1>6
    <3>4. OutputOK(out[p])'
        BY <3>1, <3>2, <3>3 DEF OutputOK
    <3>5. out' = [q \in Projects |-> out'[q]]
        BY <3>1, <1>k, SMT
    <3>6. \A q \in Projects : out'[q] = out[q]
        BY <3>1
    <3> QED BY <3>4, <3>5, <3>6
  <2>2. CASE ~same
    <3>1. PICK o : o = BuildInfo(w, changed)
        OBVIOUS
    <3>2. out' = [out EXCEPT ![p] = o] /\ clock' = clock + 1
        BY <2>2, <3>1, <1>2 DEF EmitForm
    <3>3. /\ out' = [q \in Projects |-> out'[q]] /\ (\A q \in Projects : q # p => out'[q] = out[q]) /\ out'[p] = o
        BY <3>2, <1>k, <1>p
    <3>4. PICK d : d = IF changed THEN clock ELSE out[p].dtsTime
        OBVIOUS
    <3>5. d \in Nat /\ d <= clock
      <4>1. CASE changed
          BY <4>1, <3>4, <1>k, SMT
      <4>2. CASE ~changed
        <5>1. OutputOK(out[p]) /\ d = out[p].dtsTime
            BY <4>2, <3>4, <1>a, <1>k, <1>p
        <5>2. PICK m, n : m = out[p].dtsTime /\ n = out[p].time /\ m \in Nat /\ n \in Nat /\ m <= n /\ n < clock
            BY <5>1 DEF OutputOK, IsOutput
        <5>3. m <= clock
            BY <5>2, <1>k, SMT
        <5> QED BY <5>1, <5>2, <5>3
      <4> QED BY <4>1, <4>2
    <3>6. PICK sig, text, error, deps :
              o = [time |-> clock, dtsTime |-> d, sig |-> sig, text |-> text, err |-> error, deps |-> deps]
        BY <1>1, <3>1, <3>4 DEF BuildInfo, ProjectIs
    <3>7. IsOutput(o) /\ o.time = clock /\ o.dtsTime = d
        BY <3>5, <3>6, <1>k, SMT DEF IsOutput
    <3>8. o.dtsTime <= o.time /\ o.time < clock'
        BY <3>2, <3>5, <3>7, <1>k, SMT
    <3>9. OutputOK(out[p])'
        BY <3>3, <3>7, <3>8 DEF OutputOK, IsOutput
    <3> QED BY <3>3, <3>9
  <2> QED BY <2>1, <2>2
<1>8. \A q \in Projects : OutputOK(out[q]) => OutputOK(out[q])'
  <2>1. ASSUME NEW q \in Projects, q # p, OutputOK(out[q]) PROVE OutputOK(out[q])'
    <3>1. PICK o : o = out[q] /\ OutputOK(o)
        BY <2>1
    <3>2. OutputOK(o)'
        BY <3>1, <1>6
    <3> QED BY <2>1, <3>1, <3>2, <1>7 DEF OutputOK
  <2> QED BY <2>1, <1>7
<1>9. FilesTyped'
  <2>1. \A q \in Projects : out'[q] # Null => OutputOK(out[q])'
      BY <1>7, <1>8, <1>k
  <2>2. (mTimes = [src |-> mTimes.src, cfg |-> mTimes.cfg] /\ IsTimes(mTimes.src) /\ IsTimes(mTimes.cfg))'
      BY <1>a DEF IInv, Typed, IsTimes
  <2> QED BY <2>1, <2>2, <1>5, <1>7 DEF FilesTyped, OutputOK
<1>10. Typed'
  <2>1. panicked' \in BOOLEAN
      BY <1>a DEF IInv, Typed, TypeOK
  <2> QED BY <1>3, <1>4, <1>5, <1>9, <1>a, <2>1, TypedNext DEF IInv
<1>11. Built'
  <2>1. ASSUME NEW q \in Range(order), task'[q].status # Null, task'[q].status.kind \in UpKinds
        PROVE  OutputOK(out[q])'
    <3>1. CASE q = p
        BY <3>1, <1>7
    <3>2. CASE q # p
        BY <3>2, <2>1, <1>3, <1>8, <1>p DEF IInv, Built
    <3> QED BY <3>1, <3>2
  <2> QED BY <2>1, <1>3, <1>a, <1>c, <1>p, BuiltMoved
<1> QED BY <1>4, <1>10, <1>11 DEF IInv

----------------------------------------------------------------------------
(* Steps of the orchestrator *)

Reporters == Projects \cup {Null, "open", "closed"}

(* Tasks that differ in what statuses do not depend on.                    *)
Like(u, t) ==
    /\ u \in TaskType /\ u.status = t.status /\ u.entry = t.entry /\ u.pending = t.pending
    /\ u.done = t.done /\ u.reportDone = t.reportDone /\ u.refs = t.refs /\ u.resolved = t.resolved

LEMMA LikeForms ==
    ASSUME NEW t \in TaskType
    PROVE  /\ \A n \in Nat : /\ Like([t EXCEPT !.configTime = n], t) /\ [t EXCEPT !.configTime = n].prev = t.prev
                             /\ Like([t EXCEPT !.inputTime = n], t) /\ [t EXCEPT !.inputTime = n].prev = t.prev
           /\ \A q \in Reporters : Like([t EXCEPT !.prev = q], t) /\ [t EXCEPT !.prev = q].prev = q
           /\ t.prev \in Reporters /\ t.inputTime \in Nat
<1> DEFINE U == StatusType \cup {Null}  W == Seq(Projects)
<1>1. TaskType = [status : U, pending : BOOLEAN, isInitialCycle : BOOLEAN, resolved : BOOLEAN, refs : W,
                  entry : BOOLEAN, done : BOOLEAN, reportDone : BOOLEAN, prev : Reporters, inputTime : Nat, configTime : Nat]
    BY DEF TaskType, Reporters
<1> HIDE DEF U, W
<1>2. \A n \in Nat : Like([t EXCEPT !.configTime = n], t) /\ [t EXCEPT !.configTime = n].prev = t.prev
    BY <1>1, SMT DEF Like
<1>3. \A n \in Nat : Like([t EXCEPT !.inputTime = n], t) /\ [t EXCEPT !.inputTime = n].prev = t.prev
    BY <1>1, SMT DEF Like
<1>4. \A q \in Reporters : Like([t EXCEPT !.prev = q], t) /\ [t EXCEPT !.prev = q].prev = q
    BY <1>1, SMT DEF Like
<1>5. t.prev \in Reporters /\ t.inputTime \in Nat
    BY <1>1, SMT
<1> QED BY <1>2, <1>3, <1>4, <1>5

(* Goroutines that are not at work.                                        *)
Unused(f) == f = [w \in Builders |-> f[w]] /\ \A w \in Builders : IsWorker(f[w]) /\ f[w].pc \in {"next", "end"}

LEMMA WorkersIdle ==
    ASSUME NEW c, NEW f, f = Workers(c) \/ f = [w \in Builders |-> Idle]
    PROVE  Unused(f)
<1>2. IsWorker(Idle) /\ Idle.pc = "next"
    BY SMT DEF Idle, IsWorker, Pcs
<1>1. \A k \in {"next", "end"} : IsWorker([Idle EXCEPT !.pc = k]) /\ [Idle EXCEPT !.pc = k].pc = k
  <2>1. ASSUME NEW r, IsWorker(r), NEW k \in Pcs
        PROVE  IsWorker([r EXCEPT !.pc = k]) /\ [r EXCEPT !.pc = k].pc = k
      BY <2>1, SMT DEF IsWorker
  <2>2. "next" \in Pcs /\ "end" \in Pcs
      BY DEF Pcs
  <2> QED BY <1>2, <2>1, <2>2
<1>3. CASE f = [w \in Builders |-> Idle]
    BY <1>2, <1>3 DEF Unused
<1>4. CASE f = Workers(c)
  <2>1. PICK k \in {"next", "end"} : f = [w \in Builders |-> [Idle EXCEPT !.pc = k]]
      BY <1>4 DEF Workers
  <2>2. \A w \in Builders : f[w] = [Idle EXCEPT !.pc = k]
      BY <2>1
  <2>3. IsWorker([Idle EXCEPT !.pc = k]) /\ [Idle EXCEPT !.pc = k].pc = k
      BY <2>1, <1>1
  <2>4. \A w \in Builders : IsWorker(f[w]) /\ f[w].pc = k
      BY <2>2, <2>3
  <2>5. f = [w \in Builders |-> f[w]]
      BY <2>1
  <2> QED BY <2>1, <2>4, <2>5 DEF Unused
<1> QED BY <1>3, <1>4 DEF Unused

(* Task t as a build may find it: nothing is closed, or nobody will look.  *)
Startable(t) == Renewed(t) => ~t.done /\ ~t.reportDone

(* Task t of project p agrees with what is on disk.                        *)
Ready(t, p) ==
    /\ t \in TaskType /\ RefOK(t) /\ StatusKnown(t) /\ t.refs \in RefsOf(use, p) /\ (~t.resolved => t.refs = <<>>)
    /\ t.status # Null /\ t.status.kind \in UpKinds => OutputOK(out[p])

(* Tasks T make up a graph.                                                *)
Graphed(o, T) ==
    /\ o \in Seq(Projects) /\ IsInjective(o) /\ T = [q \in Projects |-> T[q]]
    /\ \A q \in Projects \ Range(o) : T[q] = Null
    /\ \A q \in Range(o) : /\ Ready(T[q], q) /\ Range(T[q].refs) \subseteq Range(o)
                           /\ T[q].done => \A u \in Range(T[q].refs) : T[u].done
    /\ \A i \in 2..Len(o) : T[o[i]].prev = o[i - 1]

Files ==
    /\ use \in Uses /\ clock \in Nat
    /\ src \in [Projects -> [time : Nat, text : Nat, sig : Nat, err : BOOLEAN]]
    /\ cfg \in [Projects -> [time : Nat, refs : Seq(Projects)]]
    /\ out = [p \in Projects |-> out[p]]
    /\ \A p \in Projects :
          /\ src[p].time \in 1..clock /\ cfg[p].time \in 0..clock /\ cfg[p].refs \in RefsOf(use, p)
          /\ out[p] # Null => OutputOK(out[p])
Stamps(m) == m = [src |-> m.src, cfg |-> m.cfg] /\ IsTimes(m.src) /\ IsTimes(m.cfg)

(* No goroutine is at work.                                                *)
Rest ==
    /\ Files /\ Graphed(order, task) /\ cyclic \in BOOLEAN /\ Unused(worker)
    /\ next = 1 /\ phase \in {"build", "idle"} /\ panicked \in BOOLEAN /\ Stamps(mTimes)
    /\ phase = "build" => \A q \in Range(order) : Startable(task[q])
    /\ mode = "clean" => ~Watch /\ \A q \in Range(order) : task[q].status = Null

LEMMA RestInv == Rest => IInv
<1> SUFFICES ASSUME Rest PROVE IInv
    OBVIOUS
<1>g. Graphed(order, task) /\ Files
    BY DEF Rest
<1>o. order \in Seq(Projects) /\ Range(order) \subseteq Projects /\ Len(order) \in Nat /\ DOMAIN order = 1..Len(order)
      /\ \A i \in DOMAIN order : order[i] \in Range(order)
  <2>1. order \in Seq(Projects)
      BY <1>g DEF Graphed
  <2> QED BY <2>1, Places
<1>r. \A q \in Range(order) : Ready(task[q], q)
    BY <1>g DEF Graphed
<1>w. \A w \in Builders : ~Active(w) /\ worker[w].pc \in {"next", "end"}
    BY DEF Rest, Unused, Active
<1>1. Typed
  <2>1. 1 \in 1..(Len(order) + 1)
      BY <1>o, SMT
  <2>2. \A q \in Projects : /\ task[q] \in TaskType \cup {Null} /\ ((task[q] # Null) <=> q \in Range(order))
                            /\ task[q] # Null => RefOK(task[q])
      BY <1>g, <1>r, NullIsNone DEF Graphed, Ready
  <2>3. task \in [Projects -> TaskType \cup {Null}]
    <3>1. task = [q \in Projects |-> task[q]]
        BY <1>g DEF Graphed
    <3> QED BY <2>2, <3>1
  <2>4. worker = [w \in Builders |-> worker[w]] /\ \A w \in Builders : IsWorker(worker[w])
      BY DEF Rest, Unused
  <2>5. IsInjective(order) /\ next \in 1..(Len(order) + 1)
      BY <1>g, <2>1 DEF Graphed, Rest
  <2>6. \A q \in Projects : /\ src[q].time \in 1..clock /\ cfg[q].time \in 0..clock
                            /\ out[q] # Null => IsOutput(out[q]) /\ out[q].dtsTime <= out[q].time /\ out[q].time < clock
      BY <1>g DEF Files, OutputOK
  <2>7. TypeOK
      BY <1>o, <2>2, <2>3, <2>5, <2>6 DEF TypeOK, RefOK, Rest
  <2> QED BY <1>g, <2>4, <2>6, <2>7 DEF Typed, Rest, Stamps, Files
<1>2. Linked
    BY <1>g DEF Linked, Graphed, Ready, Files
<1>3. Taken
    BY <1>w DEF Taken, Rest
<1>4. Ordered
    BY <1>g, <1>w DEF Ordered, Waited, Graphed
<1>5. Open
  <2>1. ASSUME NEW i \in next..Len(order), phase = "build", Renewed(task[order[i]])
        PROVE  ~task[order[i]].done /\ ~task[order[i]].reportDone
    <3>1. order[i] \in Range(order)
        BY <1>o DEF Rest
    <3> QED BY <3>1, <2>1 DEF Rest, Startable
  <2> QED BY <2>1, <1>w DEF Open
<1>6. Known
    BY <1>r, <1>w DEF Known, Ready
<1>7. Lined
    BY <1>g DEF Lined, Graphed
<1>8. Built
    BY <1>r, <1>w DEF Built, Ready, Rest
<1> QED BY <1>1, <1>2, <1>3, <1>4, <1>5, <1>6, <1>7, <1>8 DEF IInv

(* A step that leaves no goroutine at work.                                *)
Resting ==
    /\ UNCHANGED <<clock, src, cfg, out, panicked, use>> /\ next' = 1 /\ phase' \in {"build", "idle"}
    /\ Graphed(order', task') /\ cyclic' \in BOOLEAN /\ Unused(worker') /\ Stamps(mTimes')
    /\ phase' = "build" => \A q \in Range(order') : Startable(task'[q])
    /\ mode' = "clean" => ~Watch /\ \A q \in Range(order') : task'[q].status = Null

LEMMA RestingStep ==
    ASSUME Typed, Linked, Resting
    PROVE  IInv'
<1>u. UNCHANGED <<clock, src, cfg, out, panicked, use>>
    BY DEF Resting
<1>1. Files'
  <2>1. Files
      BY DEF Files, OutputOK, Typed, TypeOK, Linked
  <2> QED BY <2>1, <1>u DEF Files, OutputOK, RefsOf
<1>2. Graphed(order, task)'
  <2>1. \A q \in Range(order') : Ready(task'[q], q)
      BY DEF Resting, Graphed
  <2>2. \A q \in Range(order') : Ready(task[q], q)'
      BY <2>1, <1>u DEF Ready, RefOK, StatusKnown, Settled, StopOnErrors, RefsOf, OutputOK
  <2> QED BY <2>2 DEF Resting, Graphed
<1>3. panicked' \in BOOLEAN /\ (\A q \in Range(order') : Startable(task'[q]) => Startable(task[q])')
    BY <1>u DEF Typed, TypeOK, Startable, Renewed, Watch
<1>4. Rest'
    BY <1>u, <1>1, <1>2, <1>3 DEF Rest, Resting, Unused, Stamps, Watch
<1> QED BY <1>4, RestInv, PTL

LEMMA LikeReady ==
    ASSUME NEW q, NEW t, NEW u, Ready(t, q), Like(u, t)
    PROVE  Ready(u, q)
BY DEF Like, Ready, RefOK, StatusKnown, Settled

(* A graph made of tasks base.                                             *)
GraphOf(base, o, T) ==
    /\ T = [q \in Projects |-> T[q]]
    /\ \A q \in Projects \ Range(o) : T[q] = Null
    /\ \A q \in Range(o) : Like(T[q], base[q])
    /\ \A i \in 2..Len(o) : T[o[i]].prev = o[i - 1]

LEMMA ReporterForm ==
    ASSUME NEW base, \A p \in Projects : base[p] \in TaskType,
           NEW g, g.order \in Seq(Projects), IsInjective(g.order)
    PROVE  GraphOf(base, g.order, WithReporter(base, g))
<1> DEFINE o == g.order
           place(p) == CHOOSE k \in DOMAIN o : o[k] = p
<1>1. PICK T : T = WithReporter(base, g)
    OBVIOUS
<1>2. T = [q \in Projects |-> IF q \notin Range(o) THEN Null
                              ELSE IF place(q) = 1 THEN base[q] ELSE [base[q] EXCEPT !.prev = o[place(q) - 1]]]
    BY <1>1 DEF WithReporter
<1>o. /\ DOMAIN o = 1..Len(o) /\ Len(o) \in Nat /\ Range(o) \subseteq Projects
      /\ \A i \in DOMAIN o : o[i] \in Projects /\ o[i] \in Range(o)
      /\ \A x \in Range(o) : \E i \in DOMAIN o : o[i] = x
    BY Places
<1>3. \A i \in DOMAIN o : place(o[i]) = i
  <2>1. \A i, j \in DOMAIN o : o[i] = o[j] => i = j
      BY DEF IsInjective
  <2> QED BY <2>1
<1> HIDE DEF place
<1>4. ASSUME NEW q \in Range(o)
      PROVE  Like(T[q], base[q]) /\ (place(q) # 1 => T[q].prev = o[place(q) - 1])
  <2>0. q \in Projects /\ base[q] \in TaskType
      BY <1>o
  <2>1. PICK i \in DOMAIN o : o[i] = q
      BY <1>o
  <2>2. place(q) = i
      BY <2>1, <1>3
  <2>3. CASE i = 1
    <3>1. T[q] = base[q]
        BY <1>2, <2>0, <2>2, <2>3
    <3> QED BY <3>1, <2>0, <2>2, <2>3 DEF Like
  <2>4. CASE i # 1
    <3>1. T[q] = [base[q] EXCEPT !.prev = o[i - 1]]
        BY <1>2, <2>0, <2>2, <2>4
    <3>2. i - 1 \in DOMAIN o
        BY <2>4, <1>o, SMT
    <3>3. o[i - 1] \in Reporters
        BY <3>2, <1>o DEF Reporters
    <3>4. Like([base[q] EXCEPT !.prev = o[i - 1]], base[q]) /\ [base[q] EXCEPT !.prev = o[i - 1]].prev = o[i - 1]
        BY <3>3, <2>0, LikeForms
    <3> QED BY <3>1, <3>4, <2>2
  <2> QED BY <2>3, <2>4
<1>5. \A i \in 2..Len(o) : i \in DOMAIN o /\ i # 1
    BY <1>o, SMT
<1>6. \A i \in 2..Len(o) : T[o[i]].prev = o[i - 1]
    BY <1>3, <1>4, <1>5, <1>o
<1>7. \A q \in Projects \ Range(o) : T[q] = Null
    BY <1>2
<1>8. T = [q \in Projects |-> T[q]]
    BY <1>2
<1> QED BY <1>1, <1>4, <1>6, <1>7, <1>8 DEF GraphOf

LEMMA GraphPlaces ==
    ASSUME NEW g, NEW R, InOrder(g, R)
    PROVE  /\ DOMAIN g.order = 1..Len(g.order) /\ Len(g.order) \in Nat /\ Range(g.order) \subseteq Projects
           /\ \A i \in DOMAIN g.order : g.order[i] \in Projects /\ g.order[i] \in Range(g.order)
           /\ \A x \in Range(g.order) : \E i \in DOMAIN g.order : g.order[i] = x
<1>1. g.order \in Seq(Projects)
    BY DEF InOrder
<1> QED BY <1>1, Places

(* Task t as it is before a build: of a configuration on disk or of an     *)
(* earlier one, and with new channels.                                     *)
Base(t, p) == Ready(t, p) /\ ~t.done /\ ~t.reportDone

LEMMA OrderedGraph ==
    ASSUME NEW base, \A p \in Projects : Base(base[p], p), NEW R, \A p \in Projects : R[p] = base[p].refs,
           NEW g, InOrder(g, R)
    PROVE  /\ Graphed(g.order, WithReporter(base, g)) /\ g.cyclic \in BOOLEAN
           /\ \A q \in Range(g.order) : Startable(WithReporter(base, g)[q])
           /\ GraphOf(base, g.order, WithReporter(base, g))
<1>o. /\ DOMAIN g.order = 1..Len(g.order) /\ Len(g.order) \in Nat /\ Range(g.order) \subseteq Projects
      /\ \A i \in DOMAIN g.order : g.order[i] \in Projects /\ g.order[i] \in Range(g.order)
      /\ \A x \in Range(g.order) : \E i \in DOMAIN g.order : g.order[i] = x
    BY GraphPlaces
<1>3. \A q \in Range(g.order) : Range(base[q].refs) \subseteq Range(g.order)
  <2>1. ASSUME NEW q \in Range(g.order), NEW u \in Range(base[q].refs)
        PROVE  u \in Range(g.order)
    <3>1. PICK i \in DOMAIN g.order : g.order[i] = q
        BY <1>o
    <3>2. R[g.order[i]] = base[q].refs
        BY <3>1, <1>o
    <3>3. PICK j \in DOMAIN g.order : g.order[j] = u
        BY <3>1, <3>2 DEF InOrder
    <3> QED BY <3>3, <1>o
  <2> QED BY <2>1
<1>4. PICK T : T = WithReporter(base, g)
    OBVIOUS
<1>5. GraphOf(base, g.order, T)
  <2>1. \A p \in Projects : base[p] \in TaskType
      BY DEF Base, Ready
  <2>2. g.order \in Seq(Projects) /\ IsInjective(g.order)
      BY DEF InOrder
  <2> QED BY <2>1, <2>2, <1>4, ReporterForm
<1>6. ASSUME NEW q \in Range(g.order)
      PROVE  /\ Ready(T[q], q) /\ Range(T[q].refs) \subseteq Range(g.order) /\ ~T[q].done /\ ~T[q].reportDone
  <2>1. Like(T[q], base[q]) /\ Base(base[q], q)
      BY <1>5, <1>o DEF GraphOf
  <2>2. Ready(T[q], q)
      BY <2>1, LikeReady DEF Base
  <2> QED BY <2>1, <2>2, <1>3 DEF Like, Base
<1>7. Graphed(g.order, T)
    BY <1>5, <1>6 DEF Graphed, GraphOf, InOrder
<1> QED BY <1>4, <1>5, <1>6, <1>7 DEF Startable, InOrder

LEMMA NewGraph ==
    ASSUME use \in Uses, NEW base, \A p \in Projects : Base(base[p], p),
           NEW R, R = [p \in Projects |-> base[p].refs]
    PROVE  InOrder(Graph(Roots, R), R)
<1>1. R \in AllRefsOf(use)
  <2>1. \A p \in Projects : R[p] \in RefsOf(use, p)
      BY DEF Base, Ready
  <2>2. R \in [Projects -> UNION {RefsOf(use, p) : p \in Projects}]
      BY <2>1
  <2> QED BY <2>1, <2>2 DEF AllRefsOf
<1> QED BY <1>1, GraphAssumption DEF Roots

LEMMA NewTaskForm ==
    ASSUME Files, NEW p \in Projects, NEW initial \in BOOLEAN, NEW entry \in BOOLEAN
    PROVE  /\ Base(NewTask(cfg, p, initial, entry), p) /\ NewTask(cfg, p, initial, entry).status = Null
           /\ NewTask(cfg, p, initial, entry).refs = ConfigRefs(cfg, p)
<1>1. PICK t : t = NewTask(cfg, p, initial, entry)
    OBVIOUS
<1>2. PICK b : b = (cfg[p].time # 0)
    OBVIOUS
<1>3. PICK r : r = ConfigRefs(cfg, p)
    OBVIOUS
<1>4. r \in RefsOf(use, p) /\ r \in Seq(Projects) /\ (~b => r = <<>>) /\ b \in BOOLEAN
  <2>1. cfg[p].refs \in RefsOf(use, p) /\ <<>> \in RefsOf(use, p) /\ use \in Uses
      BY DEF Files, RefsOf
  <2>2. RefsOf(use, p) \subseteq Seq(Projects)
      BY <2>1, BuildAssumption
  <2> QED BY <1>2, <1>3, <2>1, <2>2 DEF ConfigRefs
<1>5. t = [status |-> Null, pending |-> TRUE, isInitialCycle |-> initial, resolved |-> b, refs |-> r, entry |-> entry,
           done |-> FALSE, reportDone |-> FALSE, prev |-> Null, inputTime |-> 0, configTime |-> 0]
    BY <1>1, <1>2, <1>3 DEF NewTask
<1>6. t.status = Null /\ t.pending /\ t.resolved = b /\ t.refs = r /\ ~t.done /\ ~t.reportDone
    BY <1>5, SMT
<1>7. t \in TaskType
  <2>1. Null \in StatusType \cup {Null} /\ Null \in Projects \cup {Null, "open", "closed"} /\ 0 \in Nat
      BY SMT
  <2> DEFINE U == StatusType \cup {Null}  V == Projects \cup {Null, "open", "closed"}  W == Seq(Projects)
  <2>2. Null \in U /\ Null \in V /\ r \in W
      BY <2>1, <1>4
  <2>3. TaskType = [status : U, pending : BOOLEAN, isInitialCycle : BOOLEAN, resolved : BOOLEAN, refs : W,
                  entry : BOOLEAN, done : BOOLEAN, reportDone : BOOLEAN, prev : V, inputTime : Nat, configTime : Nat]
      BY DEF TaskType
  <2> HIDE DEF U, V, W
  <2> QED BY <1>5, <1>4, <2>2, <2>3, SMT
<1>8. Ready(t, p)
    BY <1>4, <1>6, <1>7 DEF Ready, RefOK, StatusKnown
<1> QED BY <1>1, <1>3, <1>6, <1>8 DEF Base

(* The tasks of an invocation.                                             *)
LEMMA NewTasksForm ==
    ASSUME Files, NEW g, g = Graph(Roots, [p \in Projects |-> ConfigRefs(cfg, p)])
    PROVE  /\ Graphed(g.order, NewTasks(cfg)) /\ g.cyclic \in BOOLEAN
           /\ \A q \in Range(g.order) : Startable(NewTasks(cfg)[q]) /\ NewTasks(cfg)[q].status = Null
<1> DEFINE b == [p \in Projects |-> NewTask(cfg, p, TRUE, FALSE)]
           R == [p \in Projects |-> ConfigRefs(cfg, p)]
<1>1. PICK base : base = b
    OBVIOUS
<1>2. \A p \in Projects : Base(base[p], p) /\ base[p].status = Null /\ base[p].refs = ConfigRefs(cfg, p)
    BY <1>1, NewTaskForm
<1>3. PICK S : S = R
    OBVIOUS
<1>4. S = [p \in Projects |-> base[p].refs]
    BY <1>2, <1>3
<1>5. g = Graph(Roots, S) /\ NewTasks(cfg) = WithReporter(base, g) /\ use \in Uses
    BY <1>1, <1>3 DEF NewTasks, Files
<1>6. /\ Graphed(g.order, WithReporter(base, g)) /\ g.cyclic \in BOOLEAN
      /\ \A q \in Range(g.order) : Startable(WithReporter(base, g)[q])
      /\ GraphOf(base, g.order, WithReporter(base, g))
  <2>1. InOrder(Graph(Roots, S), S)
      BY <1>2, <1>4, <1>5, NewGraph
  <2>2. InOrder(g, S) /\ \A p \in Projects : S[p] = base[p].refs
      BY <2>1, <1>4, <1>5
  <2> QED BY <2>2, <1>2, OrderedGraph
<1>7. Range(g.order) \subseteq Projects
    BY <1>6, Places DEF Graphed
<1>8. PICK T : T = WithReporter(base, g)
    OBVIOUS
<1>9. \A q \in Range(g.order) : Startable(T[q]) /\ T[q].status = Null
    BY <1>2, <1>6, <1>7, <1>8 DEF GraphOf, Like
<1> QED BY <1>5, <1>6, <1>8, <1>9

LEMMA NoTimesForm == Stamps(NoTimes)
<1>1. NoTimes.src = [p \in Projects |-> Null] /\ NoTimes.cfg = [p \in Projects |-> Null]
    BY SMT DEF NoTimes
<1>2. [p \in Projects |-> Null] \in [Projects -> Nat \cup {Null}]
    BY SMT
<1>3. NoTimes = [src |-> NoTimes.src, cfg |-> NoTimes.cfg]
    BY <1>1 DEF NoTimes
<1> QED BY <1>1, <1>2, <1>3 DEF Stamps, IsTimes

LEMMA InitInv == Init => IInv
<1> SUFFICES ASSUME Init PROVE Rest
    BY RestInv
<1>1. Files
  <2>1. use \in Uses /\ clock = 2 /\ out = [p \in Projects |-> Null]
        /\ src = [p \in Projects |-> [time |-> 1, text |-> 1, sig |-> 1, err |-> FALSE]]
        /\ cfg = [p \in Projects |-> [time |-> IF p \in Missing THEN 0 ELSE 1, refs |-> InitRefs[p]]]
      BY DEF Init
  <2>2. \A p \in Projects : InitRefs[p] \in RefsOf(use, p) /\ InitRefs[p] \in Seq(Projects)
      BY <2>1, BuildAssumption DEF InitRefs, RefsOf
  <2>3. [time |-> 1, text |-> 1, sig |-> 1, err |-> FALSE] \in [time : Nat, text : Nat, sig : Nat, err : BOOLEAN]
        /\ [time |-> 1, text |-> 1, sig |-> 1, err |-> FALSE].time \in 1..2
      BY SMT
  <2>4. \A r \in Seq(Projects) : \A n \in {0, 1} : /\ [time |-> n, refs |-> r] \in [time : Nat, refs : Seq(Projects)]
                                                   /\ [time |-> n, refs |-> r].time \in 0..2 /\ [time |-> n, refs |-> r].refs = r
    <3> DEFINE W == Seq(Projects)
    <3> HIDE DEF W
    <3>1. \A r \in W : \A n \in {0, 1} : /\ [time |-> n, refs |-> r] \in [time : Nat, refs : W]
                                         /\ [time |-> n, refs |-> r].time \in 0..2 /\ [time |-> n, refs |-> r].refs = r
        BY SMT
    <3> QED BY <3>1 DEF W
  <2>5. src \in [Projects -> [time : Nat, text : Nat, sig : Nat, err : BOOLEAN]] /\ \A p \in Projects : src[p].time \in 1..clock
      BY <2>1, <2>3
  <2>6. \A p \in Projects : /\ cfg[p] \in [time : Nat, refs : Seq(Projects)] /\ cfg[p].time \in 0..clock
                            /\ cfg[p].refs \in RefsOf(use, p)
    <3>1. ASSUME NEW p \in Projects
          PROVE  /\ cfg[p] \in [time : Nat, refs : Seq(Projects)] /\ cfg[p].time \in 0..clock
                 /\ cfg[p].refs \in RefsOf(use, p)
      <4>1. PICK n \in {0, 1} : cfg[p] = [time |-> n, refs |-> InitRefs[p]]
          BY <2>1
      <4>2. PICK r : r = InitRefs[p]
          OBVIOUS
      <4>3. cfg[p] = [time |-> n, refs |-> r] /\ r \in Seq(Projects) /\ r \in RefsOf(use, p)
          BY <4>1, <4>2, <2>2
      <4>4. PICK x : x = [time |-> n, refs |-> r]
          OBVIOUS
      <4>5. x \in [time : Nat, refs : Seq(Projects)] /\ x.time \in 0..2 /\ x.refs = r
          BY <4>3, <4>4, <2>4
      <4> QED BY <4>3, <4>4, <4>5, <2>1
    <3> QED BY <3>1
  <2>7. cfg \in [Projects -> [time : Nat, refs : Seq(Projects)]]
    <3>1. cfg = [p \in Projects |-> cfg[p]]
        BY <2>1
    <3> QED BY <2>6, <3>1
  <2>8. clock \in Nat
      BY <2>1, SMT
  <2>9. out = [p \in Projects |-> out[p]] /\ \A p \in Projects : out[p] = Null
      BY <2>1
  <2> QED BY <2>1, <2>5, <2>6, <2>7, <2>8, <2>9 DEF Files
<1>2. PICK g : g = Graph(Roots, [p \in Projects |-> ConfigRefs(cfg, p)])
    OBVIOUS
<1>3. /\ Graphed(g.order, NewTasks(cfg)) /\ g.cyclic \in BOOLEAN
      /\ \A q \in Range(g.order) : Startable(NewTasks(cfg)[q]) /\ NewTasks(cfg)[q].status = Null
    BY <1>1, <1>2, NewTasksForm
<1>4. order = g.order /\ cyclic = g.cyclic /\ task = NewTasks(cfg)
    BY <1>2 DEF Init
<1>5. Unused(worker)
    BY WorkersIdle DEF Init
<1>6. Stamps(mTimes)
    BY NoTimesForm DEF Init
<1>7. mode = "clean" => ~Watch
  <2>1. use \in Uses /\ mode \in use.modes
      BY DEF Init, Modes
  <2> QED BY <2>1, BuildAssumption DEF Watch
<1>8. Graphed(order, task) /\ cyclic \in BOOLEAN /\ \A q \in Range(order) : Startable(task[q]) /\ task[q].status = Null
    BY <1>3, <1>4
<1> QED BY <1>1, <1>5, <1>6, <1>7, <1>8 DEF Rest, Init

LEMMA TypedIsFiles ==
    ASSUME Typed, Linked
    PROVE  Files
BY DEF Files, OutputOK, Typed, TypeOK, Linked

LEMMA StartStep ==
    ASSUME IInv, Start, UNCHANGED use
    PROVE  IInv'
<1>1. Files
    BY TypedIsFiles DEF IInv
<1>2. PICK g : g = Graph(Roots, [p \in Projects |-> ConfigRefs(cfg, p)])
    OBVIOUS
<1>3. /\ Graphed(g.order, NewTasks(cfg)) /\ g.cyclic \in BOOLEAN
      /\ \A q \in Range(g.order) : Startable(NewTasks(cfg)[q]) /\ NewTasks(cfg)[q].status = Null
    BY <1>1, <1>2, NewTasksForm
<1>4. order' = g.order /\ cyclic' = g.cyclic /\ task' = NewTasks(cfg) /\ worker' = Workers(g.cyclic)
    BY <1>2 DEF Start
<1>5. Unused(worker')
    BY <1>4, WorkersIdle
<1>6. Stamps(mTimes')
    BY DEF Start, IInv, Typed, Stamps
<1>7. ~Watch /\ next' = 1 /\ phase' = "build"
    BY DEF Start, IInv, Taken
<1>8. Graphed(order', task') /\ cyclic' \in BOOLEAN /\ \A q \in Range(order') : Startable(task'[q]) /\ task'[q].status = Null
    BY <1>3, <1>4
<1>9. Resting
    BY <1>5, <1>6, <1>7, <1>8 DEF Resting, Start
<1> QED BY <1>9, RestingStep DEF IInv

(* Tasks of the graph that stay as they are but for times.                 *)
LEMMA SameGraph ==
    ASSUME IInv
    PROVE  Graphed(order, task) /\ \A q \in Range(order) : Ready(task[q], q)
<1>1. ASSUME NEW q \in Range(order)
      PROVE  Ready(task[q], q)
  <2>1. q \in Projects /\ task[q] \in TaskType /\ task[q] # Null
      BY TaskOf DEF IInv
  <2>2. RefOK(task[q])
      BY <2>1 DEF IInv, Typed, TypeOK, RefOK
  <2> QED BY <2>1, <2>2 DEF Ready, IInv, Known, Linked, Built
<1>2. \A q \in Range(order) : q \in Projects /\ task[q] # Null
    BY TaskOf DEF IInv
<1>3. \A q \in Range(order) : /\ Range(task[q].refs) \subseteq Range(order)
                              /\ task[q].done => \A u \in Range(task[q].refs) : task[u].done
    BY <1>2 DEF IInv, Linked, Ordered, Waited
<1>4. task = [q \in Projects |-> task[q]]
    BY DEF IInv, Typed, TypeOK
<1>5. \A q \in Projects \ Range(order) : task[q] = Null
    BY DEF IInv, Typed, TypeOK
<1>6. order \in Seq(Projects) /\ IsInjective(order)
    BY DEF IInv, Typed, TypeOK
<1>7. \A i \in 2..Len(order) : task[order[i]].prev = order[i - 1]
    BY DEF IInv, Lined
<1> QED BY <1>1, <1>3, <1>4, <1>5, <1>6, <1>7 DEF Graphed

LEMMA EndBuildStep ==
    ASSUME IInv, EndBuild, UNCHANGED use
    PROVE  IInv'
<1>1. Graphed(order, task)
    BY SameGraph
<1>o. Range(order) \subseteq Projects /\ \A i \in 2..Len(order) : order[i] \in Range(order)
  <2>1. order \in Seq(Projects)
      BY DEF IInv, Typed, TypeOK
  <2>2. Range(order) \subseteq Projects /\ DOMAIN order = 1..Len(order) /\ Len(order) \in Nat
        /\ \A i \in DOMAIN order : order[i] \in Range(order)
      BY <2>1, Places
  <2>3. \A i \in 2..Len(order) : i \in DOMAIN order
      BY <2>2, SMT
  <2> QED BY <2>2, <2>3
<1>2. ASSUME NEW q \in Range(order)
      PROVE  Like(updateWatch(q), task[q]) /\ updateWatch(q).prev = task[q].prev
  <2>1. q \in Projects /\ task[q] \in TaskType /\ task[q] # Null
      BY TaskOf DEF IInv
  <2>2. SrcTime(q) \in Nat /\ CfgTime(q) \in Nat
      BY <2>1, TimeIsNat DEF IInv
  <2>3. PICK m \in Nat : m = IF task[q].resolved THEN SrcTime(q) ELSE task[q].inputTime
      BY <2>1, <2>2, LikeForms
  <2>4. PICK n \in Nat : n = CfgTime(q)
      BY <2>2
  <2>5. PICK t \in TaskType : t = [task[q] EXCEPT !.configTime = n] /\ Like(t, task[q]) /\ t.prev = task[q].prev
    <3>1. Like([task[q] EXCEPT !.configTime = n], task[q]) /\ [task[q] EXCEPT !.configTime = n].prev = task[q].prev
        BY <2>1, LikeForms
    <3> QED BY <3>1 DEF Like
  <2>6. Like([t EXCEPT !.inputTime = m], t) /\ [t EXCEPT !.inputTime = m].prev = t.prev
      BY LikeForms
  <2>7. updateWatch(q) = [task[q] EXCEPT !.configTime = n, !.inputTime = m]
      BY <2>1, <2>3, <2>4 DEF updateWatch
  <2>8. updateWatch(q) = [t EXCEPT !.inputTime = m]
      BY <2>5, <2>7
  <2>9. Like([t EXCEPT !.inputTime = m], task[q]) /\ [t EXCEPT !.inputTime = m].prev = task[q].prev
      BY <2>5, <2>6 DEF Like
  <2> QED BY <2>8, <2>9
<1>3. Graphed(order, task')
  <2>1. CASE ~Watch
      BY <2>1, <1>1 DEF EndBuild
  <2>2. CASE Watch
    <3>1. task' = [q \in Projects |-> updateWatch(q)]
        BY <2>2 DEF EndBuild
    <3>2. task' = [q \in Projects |-> task'[q]] /\ \A q \in Range(order) : Like(task'[q], task[q]) /\ task'[q].prev = task[q].prev
        BY <3>1, <1>2, <1>o
    <3>3. \A q \in Projects \ Range(order) : task'[q] = Null
        BY <3>1, <1>1 DEF Graphed, updateWatch
    <3>4. \A q \in Range(order) : Ready(task'[q], q)
        BY <3>2, <1>1, LikeReady DEF Graphed
    <3>5. \A q \in Range(order) : /\ Range(task'[q].refs) \subseteq Range(order)
                                  /\ task'[q].done => \A u \in Range(task'[q].refs) : task'[u].done
        BY <3>2, <1>1 DEF Graphed, Like
    <3>6. \A i \in 2..Len(order) : task'[order[i]].prev = order[i - 1]
        BY <3>2, <1>1, <1>o DEF Graphed
    <3> QED BY <1>1, <3>2, <3>3, <3>4, <3>5, <3>6 DEF Graphed
  <2> QED BY <2>1, <2>2
<1>4. Unused(worker') /\ Stamps(mTimes')
    BY WorkersIdle, NoTimesForm DEF EndBuild
<1>5. mode' = "clean" => ~Watch /\ \A q \in Range(order) : task'[q].status = Null
    BY DEF EndBuild, IInv, Typed, Built
<1>6. order' = order /\ cyclic' = cyclic /\ cyclic' \in BOOLEAN
    BY DEF EndBuild, graph, IInv, Typed, TypeOK
<1>7. Resting
    BY <1>3, <1>4, <1>5, <1>6 DEF Resting, EndBuild, disk
<1> QED BY <1>7, RestingStep DEF IInv

(* hasUpdate of a project whose configuration is the same: its status is   *)
(* kept or reset, and its channels are new if there is a configuration.    *)
Updated(h, t) ==
    /\ h \in TaskType /\ SameTask(h, t) /\ h.entry = t.entry
    /\ (h.status = t.status /\ h.pending = t.pending) \/ (h.status = Null /\ h.pending /\ t.resolved)
    /\ IF t.resolved THEN ~h.done /\ ~h.reportDone ELSE h.done = t.done /\ h.reportDone = t.reportDone

LEMMA HasUpdateForm ==
    ASSUME Typed, NEW q \in Range(order), ~ConfigChanged(q)
    PROVE  Updated(hasUpdate(q), task[q])
<1>t. task[q] \in TaskType /\ task[q] # Null /\ task[q].resolved \in BOOLEAN
    BY TaskOf
<1>b. Null \in StatusType \cup {Null} /\ TRUE \in BOOLEAN /\ FALSE \in BOOLEAN
    OBVIOUS
<1>1. PICK t : t = IF InputChanged(q) THEN [task[q] EXCEPT !.status = Null, !.pending = TRUE] ELSE task[q]
    OBVIOUS
<1>2. /\ t \in TaskType /\ SameTask(t, task[q]) /\ t.entry = task[q].entry /\ t.done = task[q].done /\ t.reportDone = task[q].reportDone
      /\ (t.status = task[q].status /\ t.pending = task[q].pending) \/ (t.status = Null /\ t.pending /\ task[q].resolved)
  <2>1. CASE InputChanged(q)
    <3>1. Fields([task[q] EXCEPT !.status = Null, !.pending = TRUE], task[q], Null, task[q].entry, TRUE, task[q].done, task[q].reportDone)
        BY <1>t, <1>b, TwoFields
    <3>2. Fields(t, task[q], Null, task[q].entry, TRUE, task[q].done, task[q].reportDone)
        BY <3>1, <1>1, <2>1
    <3> QED BY <3>2, <2>1 DEF Fields, InputChanged
  <2>2. CASE ~InputChanged(q)
      BY <2>2, <1>1, <1>t DEF SameTask
  <2> QED BY <2>1, <2>2
<1>3. CASE task[q].resolved
  <2>1. hasUpdate(q) = [t EXCEPT !.done = FALSE, !.reportDone = FALSE]
      BY <1>1, <1>3, <1>t DEF hasUpdate
  <2>2. PICK u : u = [t EXCEPT !.done = FALSE]
      OBVIOUS
  <2>3. Fields([t EXCEPT !.done = FALSE], t, t.status, t.entry, t.pending, FALSE, t.reportDone)
      BY <1>2, <1>b, TaskForms
  <2>4. u \in TaskType /\ Fields(u, t, t.status, t.entry, t.pending, FALSE, t.reportDone)
      BY <2>2, <2>3 DEF Fields
  <2>5. Fields([u EXCEPT !.reportDone = FALSE], u, u.status, u.entry, u.pending, u.done, FALSE)
      BY <2>4, <1>b, TaskForms
  <2>6. hasUpdate(q) = [u EXCEPT !.reportDone = FALSE]
      BY <2>1, <2>2
  <2>7. Fields(hasUpdate(q), u, u.status, u.entry, u.pending, u.done, FALSE)
      BY <2>5, <2>6
  <2> QED BY <2>4, <2>7, <1>2, <1>3 DEF Fields, Updated, SameTask
<1>4. CASE ~task[q].resolved
  <2>1. hasUpdate(q) = t
      BY <1>1, <1>4 DEF hasUpdate
  <2> QED BY <2>1, <1>2, <1>4 DEF Updated
<1> QED BY <1>3, <1>4, <1>t

LEMMA UpdatedReady ==
    ASSUME NEW q, NEW t, NEW h, Ready(t, q), Updated(h, t)
    PROVE  Ready(h, q) /\ (h.done => ~h.resolved)
<1>1. SameTask(h, t) /\ h \in TaskType /\ h.entry = t.entry /\ t \in TaskType
    BY DEF Updated, Ready
<1>2. CASE h.status = t.status /\ h.pending = t.pending
  <2>1. h.done => t.done
      BY DEF Updated
  <2>2. RefOK(h) /\ StatusKnown(h)
      BY <1>1, <1>2, <2>1 DEF Ready, RefOK, StatusKnown, Settled, SameTask
  <2> QED BY <1>1, <1>2, <2>2 DEF Ready, SameTask, Updated
<1>3. CASE h.status = Null /\ h.pending /\ t.resolved
  <2>1. ~h.done /\ ~h.reportDone
      BY <1>3 DEF Updated
  <2>2. RefOK(h) /\ StatusKnown(h)
      BY <1>3, <2>1 DEF RefOK, StatusKnown
  <2> QED BY <1>1, <1>3, <2>1, <2>2 DEF Ready, SameTask
<1> QED BY <1>2, <1>3 DEF Updated

(* The graph when no configuration changed.                                *)
LEMMA UpdatedGraph ==
    ASSUME IInv, Watch, \A p \in Projects : ~ConfigChanged(p), NEW T, T = [p \in Projects |-> hasUpdate(p)]
    PROVE  Graphed(order, T) /\ \A q \in Range(order) : Startable(T[q])
<1>1. Graphed(order, task) /\ \A q \in Range(order) : Ready(task[q], q)
    BY SameGraph
<1>o. Range(order) \subseteq Projects /\ \A i \in 2..Len(order) : order[i] \in Range(order)
  <2>1. order \in Seq(Projects)
      BY DEF IInv, Typed, TypeOK
  <2>2. Range(order) \subseteq Projects /\ DOMAIN order = 1..Len(order) /\ Len(order) \in Nat
        /\ \A i \in DOMAIN order : order[i] \in Range(order)
      BY <2>1, Places
  <2>3. \A i \in 2..Len(order) : i \in DOMAIN order
      BY <2>2, SMT
  <2> QED BY <2>2, <2>3
<1>2. ASSUME NEW q \in Range(order)
      PROVE  Updated(T[q], task[q]) /\ Ready(task[q], q)
  <2>1. q \in Projects /\ T[q] = hasUpdate(q) /\ ~ConfigChanged(q)
      BY <1>o
  <2>2. Updated(hasUpdate(q), task[q])
      BY <2>1, HasUpdateForm DEF IInv
  <2> QED BY <2>1, <2>2, <1>1
<1>3. \A q \in Range(order) : Ready(T[q], q) /\ SameTask(T[q], task[q]) /\ (T[q].done => ~T[q].resolved)
    BY <1>2, UpdatedReady DEF Updated
<1>4. \A q \in Range(order) : Startable(T[q])
    BY <1>2 DEF Updated, SameTask, Startable, Renewed
<1>5. T = [p \in Projects |-> T[p]] /\ \A q \in Projects \ Range(order) : T[q] = Null
  <2>1. \A q \in Projects \ Range(order) : hasUpdate(q) = Null
      BY <1>1 DEF Graphed, hasUpdate, InputChanged
  <2> QED BY <2>1
<1>6. \A q \in Range(order) : Range(T[q].refs) \subseteq Range(order)
    BY <1>1, <1>3 DEF Graphed, SameTask
<1>7. \A q \in Range(order) : T[q].done => \A u \in Range(T[q].refs) : T[u].done
  <2>1. Range(<<>>) = {}
    <3>1. DOMAIN <<>> = {}
        BY SMT
    <3> QED BY <3>1 DEF Range
  <2> QED BY <2>1, <1>3 DEF Ready
<1>8. \A i \in 2..Len(order) : T[order[i]].prev = order[i - 1]
    BY <1>1, <1>3, <1>o DEF Graphed, SameTask
<1>9. order \in Seq(Projects) /\ IsInjective(order)
    BY <1>1 DEF Graphed
<1> QED BY <1>3, <1>4, <1>5, <1>6, <1>7, <1>8, <1>9 DEF Graphed

(* createBuildTasks reuses a task, with new channels.                      *)
LEMMA ReusedForm ==
    ASSUME IInv, NEW p \in Projects
    PROVE  Base(ReusedTask(p), p) /\ ReusedTask(p) \in TaskType
<1>0. Files
    BY TypedIsFiles DEF IInv
<1>1. CASE task[p] = Null
  <2>1. ReusedTask(p) = NewTask(cfg, p, FALSE, FALSE)
      BY <1>1 DEF ReusedTask, ConfigChanged
  <2> QED BY <1>0, <2>1, NewTaskForm DEF Base, Ready
<1>p. ASSUME task[p] # Null
      PROVE  p \in Range(order) /\ task[p].entry \in BOOLEAN
    BY <1>p, TaskOf DEF IInv, Typed, TypeOK
<1>2. CASE task[p] # Null /\ ConfigChanged(p)
  <2>1. ReusedTask(p) = NewTask(cfg, p, FALSE, task[p].entry)
      BY <1>2 DEF ReusedTask
  <2>2. task[p].entry \in BOOLEAN
      BY <1>2, <1>p
  <2>3. Base(NewTask(cfg, p, FALSE, task[p].entry), p)
      BY <1>0, <2>2, NewTaskForm
  <2> QED BY <2>1, <2>3 DEF Base, Ready
<1>3. CASE task[p] # Null /\ ~ConfigChanged(p)
  <2>1. ReusedTask(p) = [hasUpdate(p) EXCEPT !.done = FALSE, !.reportDone = FALSE]
      BY <1>3 DEF ReusedTask
  <2>2. Updated(hasUpdate(p), task[p]) /\ Ready(task[p], p)
      BY <1>3, <1>p, HasUpdateForm, SameGraph DEF IInv
  <2>3. PICK h : h = hasUpdate(p)
      OBVIOUS
  <2>4. Ready(h, p) /\ h \in TaskType
      BY <2>2, <2>3, UpdatedReady DEF Updated
  <2>5. Fields([h EXCEPT !.done = FALSE], h, h.status, h.entry, h.pending, FALSE, h.reportDone)
      BY <2>4, TaskForms
  <2>6. PICK u : u = [h EXCEPT !.done = FALSE]
      OBVIOUS
  <2>7. u \in TaskType /\ Fields(u, h, h.status, h.entry, h.pending, FALSE, h.reportDone)
      BY <2>5, <2>6 DEF Fields
  <2>8. Fields([u EXCEPT !.reportDone = FALSE], u, u.status, u.entry, u.pending, u.done, FALSE)
      BY <2>7, TaskForms
  <2>9. PICK v : v = [u EXCEPT !.reportDone = FALSE]
      OBVIOUS
  <2>10. ReusedTask(p) = v
      BY <2>1, <2>3, <2>6, <2>9
  <2>11. Fields(v, h, h.status, h.entry, h.pending, FALSE, FALSE)
      BY <2>7, <2>8, <2>9 DEF Fields, SameTask
  <2>12. Ready(v, p) /\ ~v.done /\ ~v.reportDone /\ v \in TaskType
      BY <2>4, <2>11 DEF Fields, SameTask, Ready, RefOK, StatusKnown, Settled
  <2> QED BY <2>10, <2>12 DEF Base
<1> QED BY <1>1, <1>2, <1>3

LEMMA StaleForm ==
    ASSUME NEW g, NEW q \in Reporters
    PROVE  StaleReporter(g, q) \in Reporters
BY DEF StaleReporter, Reporters

(* The graph when a configuration changed.                                 *)
LEMMA ReusedGraph ==
    ASSUME IInv, GenerateGraphReusingOldTasks
    PROVE  Graphed(order', task') /\ cyclic' \in BOOLEAN /\ \A q \in Range(order') : Startable(task'[q])
<1> DEFINE ts == [p \in Projects |-> ReusedTask(p)]
           R == [p \in Projects |-> ts[p].refs]
<1>1. PICK S : S = R
    OBVIOUS
<1>2. PICK g : g = Graph(Roots, S)
    OBVIOUS
<1>3. PICK base : base = [p \in Projects |-> [ts[p] EXCEPT !.prev = StaleReporter(g, @)]]
    OBVIOUS
<1>4. task' = WithReporter(base, g) /\ order' = g.order /\ cyclic' = g.cyclic
    BY <1>1, <1>2, <1>3 DEF GenerateGraphReusingOldTasks
<1>5. ASSUME NEW p \in Projects
      PROVE  Base(base[p], p) /\ base[p].refs = S[p]
  <2>1. PICK t : t = ReusedTask(p)
      OBVIOUS
  <2>2. Base(t, p) /\ t \in TaskType
      BY <2>1, ReusedForm
  <2>3. t.prev \in Reporters
      BY <2>2, LikeForms
  <2>4. PICK r : r = StaleReporter(g, t.prev)
      OBVIOUS
  <2>5. r \in Reporters
      BY <2>3, <2>4, StaleForm
  <2>6. Like([t EXCEPT !.prev = r], t)
      BY <2>2, <2>5, LikeForms
  <2>7. base[p] = [t EXCEPT !.prev = r] /\ S[p] = t.refs
      BY <1>1, <1>3, <2>1, <2>4
  <2>8. PICK u : u = [t EXCEPT !.prev = r]
      OBVIOUS
  <2>9. Base(u, p) /\ u.refs = t.refs
      BY <2>2, <2>6, <2>8, LikeReady DEF Base, Like
  <2> QED BY <2>7, <2>8, <2>9
<1>6. S = [p \in Projects |-> base[p].refs]
    BY <1>1, <1>5
<1>7. use \in Uses
    BY DEF IInv, Typed
<1>8. InOrder(Graph(Roots, S), S)
    BY <1>5, <1>6, <1>7, NewGraph
<1>9. InOrder(g, S) /\ (\A p \in Projects : S[p] = base[p].refs) /\ (\A p \in Projects : Base(base[p], p))
    BY <1>2, <1>5, <1>8
<1>10. /\ Graphed(g.order, WithReporter(base, g)) /\ g.cyclic \in BOOLEAN
       /\ \A q \in Range(g.order) : Startable(WithReporter(base, g)[q])
    BY <1>9, OrderedGraph
<1> QED BY <1>4, <1>10

LEMMA DoCycleStep ==
    ASSUME IInv, DoCycle, UNCHANGED use
    PROVE  IInv'
<1>0. Watch /\ phase = "idle" /\ next = 1 /\ next' = 1 /\ mode' = mode /\ mode # "clean"
      /\ UNCHANGED <<clock, src, cfg, out, panicked, use>>
    BY DEF DoCycle, IInv, Taken, Typed
<1>1. Graphed(order', task') /\ cyclic' \in BOOLEAN /\ \A q \in Range(order') : Startable(task'[q])
  <2>1. CASE \E p \in Projects : ConfigChanged(p)
      BY <2>1, ReusedGraph DEF DoCycle
  <2>2. CASE \A p \in Projects : ~ConfigChanged(p)
    <3>1. task' = [p \in Projects |-> hasUpdate(p)] /\ order' = order /\ cyclic' = cyclic
        BY <2>2 DEF DoCycle, graph
    <3>2. PICK T : T = [p \in Projects |-> hasUpdate(p)]
        OBVIOUS
    <3>3. Graphed(order, T) /\ \A q \in Range(order) : Startable(T[q])
        BY <2>2, <3>2, <1>0, UpdatedGraph
    <3>4. cyclic \in BOOLEAN
        BY DEF IInv, Typed, TypeOK
    <3> QED BY <3>1, <3>2, <3>3, <3>4
  <2> QED BY <2>1, <2>2
<1>2. CASE \E p \in Projects : ConfigChanged(p) \/ InputChanged(p)
  <2>1. phase' = "build" /\ worker' = Workers(cyclic')
      BY <1>2 DEF DoCycle
  <2>2. Unused(worker')
      BY <2>1, WorkersIdle
  <2>3. Stamps(mTimes')
    <3>1. PICK a : a = [p \in Projects |-> IF task[p] # Null /\ task[p].resolved THEN src[p].time ELSE Null]
        OBVIOUS
    <3>2. PICK b : b = [p \in Projects |-> IF task[p] # Null THEN cfg[p].time ELSE Null]
        OBVIOUS
    <3>3. mTimes' = [src |-> a, cfg |-> b]
        BY <1>2, <3>1, <3>2 DEF DoCycle
    <3>4. \A p \in Projects : src[p].time \in Nat /\ cfg[p].time \in Nat
      <4>1. \A p \in Projects : src[p] \in [time : Nat, text : Nat, sig : Nat, err : BOOLEAN] /\ cfg[p] \in [time : Nat, refs : Seq(Projects)]
          BY DEF IInv, Typed
      <4> QED BY <4>1, SMT
    <3>5. IsTimes(a) /\ IsTimes(b)
        BY <3>1, <3>2, <3>4 DEF IsTimes
    <3> HIDE DEF Stamps
    <3>6. \A x, y : IsTimes(x) /\ IsTimes(y) => Stamps([src |-> x, cfg |-> y])
        BY DEF Stamps
    <3> QED BY <3>3, <3>5, <3>6
  <2> QED BY <1>0, <1>1, <2>1, <2>2, <2>3, RestingStep DEF Resting, IInv
<1>3. CASE ~(\E p \in Projects : ConfigChanged(p) \/ InputChanged(p))
  <2>1. UNCHANGED <<mTimes, phase, worker>>
      BY <1>3 DEF DoCycle
  <2>2. Unused(worker')
      BY <2>1, <1>0 DEF IInv, Typed, Taken, Active, Unused
  <2>3. Stamps(mTimes')
      BY <2>1 DEF IInv, Typed, Stamps
  <2> QED BY <1>0, <1>1, <2>1, <2>2, <2>3, RestingStep DEF Resting, IInv
<1> QED BY <1>2, <1>3

----------------------------------------------------------------------------
(* Theorems *)

LEMMA StutterStep == IInv /\ UNCHANGED vars => IInv'
<1> SUFFICES ASSUME IInv, UNCHANGED vars PROVE IInv'
    OBVIOUS
<1>u. UNCHANGED <<clock, src, cfg, out, mTimes, task, order, cyclic, next, worker, phase, mode, panicked, use>>
    BY DEF vars, disk, graph
<1>1. Typed'
    BY <1>u DEF IInv, Typed, TypeOK, Watch
<1>2. Linked' /\ Taken' /\ Ordered' /\ Lined'
    BY <1>u DEF IInv, Linked, Taken, Ordered, Lined, RefsOf, Active, Waited
<1>3. Open' /\ Known' /\ Built'
    BY <1>u DEF IInv, Open, Known, Built, Active, Renewed, Watch, StatusKnown, Settled, StopOnErrors, OutputOK
<1> QED BY <1>1, <1>2, <1>3 DEF IInv

LEMMA InvStep == IInv /\ [Next]_vars => IInv'
<1> SUFFICES ASSUME IInv, [Next]_vars PROVE IInv'
    OBVIOUS
<1>1. ASSUME NEW p \in Projects, Edit(p), UNCHANGED use PROVE IInv'
    BY <1>1, EditStep
<1>2. ASSUME NEW w \in Builders, Build(w), UNCHANGED use PROVE IInv'
  <2>1. CASE Take(w)
      BY <1>2, <2>1, TakeStep
  <2>2. CASE cleanProject(w)
      BY <1>2, <2>2, CleanStep
  <2>3. CASE buildProject(w)
      BY <1>2, <2>3, BuildProjectStep
  <2>4. CASE CreateProgram(w)
      BY <1>2, <2>4, CreateProgramStep
  <2>5. CASE compileAndEmit(w)
      BY <1>2, <2>5, CompileAndEmitStep
  <2>6. CASE unblockDownstream(w)
      BY <1>2, <2>6, UnblockStep
  <2>7. CASE report(w)
      BY <1>2, <2>7, ReportStep
  <2> QED BY <1>2, <2>1, <2>2, <2>3, <2>4, <2>5, <2>6, <2>7 DEF Build
<1>3. ASSUME EndBuild, UNCHANGED use PROVE IInv'
    BY <1>3, EndBuildStep
<1>4. ASSUME DoCycle, UNCHANGED use PROVE IInv'
    BY <1>4, DoCycleStep
<1>5. ASSUME Start, UNCHANGED use PROVE IInv'
    BY <1>5, StartStep
<1>6. ASSUME UNCHANGED vars PROVE IInv'
    BY <1>6, StutterStep
<1> QED BY <1>1, <1>2, <1>3, <1>4, <1>5, <1>6 DEF Next

LEMMA Invariance == Spec => []IInv
BY InitInv, InvStep, PTL DEF Spec

(* Types are right, and the tasks are those of the order: what the         *)
(* orchestrator, its goroutines and watch cycles do to o.tasks and o.order *)
(* always leaves one task per project of the order, and what the status of *)
(* a task blames is one of the projects it references.                     *)
THEOREM BuildTypes == Spec => []TypeOK
<1>1. IInv => TypeOK
    BY DEF IInv, Typed
<1> QED BY <1>1, Invariance, PTL

(* All projects along a chain of references from one that is compiled are  *)
(* done.                                                                   *)
LEMMA ChainDone ==
    ASSUME IInv, NEW p, Waited(p), NEW n \in Nat, NEW s \in [1..n -> Range(order)], s[1] = p,
           \A i \in 1..(n - 1) : s[i + 1] \in Range(task[s[i]].refs)
    PROVE  \A i \in 2..n : task[s[i]].done
<1> DEFINE bad == {i \in 2..n : ~task[s[i]].done}
<1> SUFFICES ASSUME bad # {} PROVE FALSE
    OBVIOUS
<1>1. bad \in SUBSET Nat
    BY SMT
<1>2. PICK m \in bad : \A k \in bad : m <= k
    BY <1>1, LeastNat
<1>3. m \in 2..n /\ ~task[s[m]].done
    BY <1>2
<1>4. PICK k \in Nat : m = k + 1 /\ k \in 1..(n - 1) /\ k \in 1..n /\ (k = 1 \/ k \in 2..n) /\ ~(m <= k)
  <2>1. m - 1 \in Nat /\ m = (m - 1) + 1 /\ m - 1 \in 1..(n - 1) /\ m - 1 \in 1..n /\ (m - 1 = 1 \/ m - 1 \in 2..n) /\ ~(m <= m - 1)
      BY <1>3, SMT
  <2> QED BY <2>1
<1>5. s[m] \in Range(task[s[k]].refs)
    BY <1>4
<1>6. Waited(s[k])
  <2>1. CASE k = 1
      BY <2>1
  <2>2. CASE k \in 2..n
    <3>1. task[s[k]].done
        BY <2>2, <1>2, <1>4
    <3>2. s[k] \in Range(order)
        BY <1>4
    <3> QED BY <3>1, <3>2 DEF IInv, Ordered
  <2> QED BY <1>4, <2>1, <2>2
<1> QED BY <1>3, <1>5, <1>6 DEF Waited

(* waitOnUpstream: for every graph of projects, every number of goroutines *)
(* and every use, while a project is compiled none that it references,     *)
(* directly or not, is being compiled.                                     *)
THEOREM UpstreamIsSettled == Spec => []UpstreamSettled
<1>1. IInv => UpstreamSettled
  <2> SUFFICES ASSUME IInv, NEW v \in Builders, NEW w \in Builders,
                      worker[w].pc \in {"compile", "emit"}, worker[v].pc \in {"compile", "emit"},
                      worker[v].project \in AllRefs(worker[w].project)
               PROVE  FALSE
      BY DEF UpstreamSettled
  <2>1. PICK p : p = worker[w].project
      OBVIOUS
  <2>2. PICK u : u = worker[v].project
      OBVIOUS
  <2>3. u \in AllRefs(p)
      BY <2>1, <2>2
  <2>4. PICK n \in 2..Len(order) : \E s \in [1..n -> Range(order)] :
                  /\ s[1] = p /\ s[n] = u
                  /\ \A i \in 1..(n - 1) : s[i + 1] \in Range(task[s[i]].refs)
      BY <2>3 DEF AllRefs
  <2>5. PICK s \in [1..n -> Range(order)] : /\ s[1] = p /\ s[n] = u
                                            /\ \A i \in 1..(n - 1) : s[i + 1] \in Range(task[s[i]].refs)
      BY <2>4
  <2>6. Waited(p)
      BY <2>1 DEF IInv, Ordered
  <2>7. n \in Nat /\ n \in 2..n
      BY <2>4, SMT
  <2>8. \A i \in 2..n : task[s[i]].done
      BY <2>5, <2>6, <2>7, ChainDone
  <2>9. task[u].done
      BY <2>5, <2>7, <2>8
  <2>10. task[u].resolved /\ Active(v) /\ worker[v].pc # "report"
      BY <2>2 DEF IInv, Ordered, Active
  <2> QED BY <2>2, <2>9, <2>10 DEF IInv, Open, Renewed
<1> QED BY <1>1, Invariance, PTL

(* No build info is used that is not there.                                *)
LEMMA InfoIsThere ==
    ASSUME IInv, ConfiguredUnlessStopping, NEW p \in Range(order), Waited(p)
    PROVE  ~NilBuildInfo(p)
<1> SUFFICES ASSUME NilBuildInfo(p) PROVE FALSE
    OBVIOUS
<1> DEFINE refs == task[p].refs
           failed == {i \in DOMAIN refs : isError(task[refs[i]].status)}
<1>1. refs \in Seq(Projects)
    BY TaskOf DEF IInv
<1>2. DOMAIN refs \subseteq Nat /\ \A i \in DOMAIN refs : refs[i] \in Range(refs)
    BY <1>1, Places
<1>3. Newer(p) \in SUBSET Nat /\ Newer(p) # {} /\ Newer(p) \subseteq DOMAIN refs
    BY <1>2 DEF NilBuildInfo, Newer
<1>4. PICK i \in DOMAIN refs : ~task[refs[i]].entry
    BY <1>3, FirstIn DEF NilBuildInfo
<1>5. PICK u : u = refs[i]
    OBVIOUS
<1>6. u \in Range(refs) /\ ~task[u].entry
    BY <1>2, <1>4, <1>5
<1>7. u \in Range(order) /\ task[u].done
  <2>1. p \in Projects /\ task[p] # Null
      BY TaskOf DEF IInv
  <2> QED BY <2>1, <1>6 DEF IInv, Linked, Waited
<1>8. StatusKnown(task[u]) /\ u \in Projects /\ task[u] # Null
    BY <1>7, TaskOf DEF IInv, Known
<1>9. task[u].status # Null /\ task[u].status.kind \in {"UpstreamErrors", "ConfigFileNotFound"}
    BY <1>6, <1>7, <1>8 DEF StatusKnown, Settled, WithoutInfo
<1>10. failed # {}
    BY <1>5, <1>9 DEF isError
<1>11. task[p].status = Null /\ task[p].resolved
  <2>1. EarlyOK(p, EarlyStatus(p)) /\ (~task[p].resolved => EarlyStatus(p) # Null) /\ EarlyStatus(p) = Null
      BY EarlyForm DEF IInv, NilBuildInfo
  <2> QED BY <2>1 DEF EarlyOK
<1>12. CASE StopOnErrors
  <2>1. EarlyStatus(p) = [Status("UpstreamErrors") EXCEPT !.ref = refs[First(failed)]]
      BY <1>10, <1>11, <1>12 DEF EarlyStatus
  <2>2. EarlyStatus(p) \in StatusType
    <3>1. failed \in SUBSET Nat
        BY <1>2
    <3>2. First(failed) \in failed
        BY <3>1, <1>10, FirstIn
    <3>3. refs[First(failed)] \in Projects
        BY <3>2, <1>1, Places
    <3>4. PICK r \in Projects : r = refs[First(failed)]
        BY <3>3
    <3>5. "UpstreamErrors" \in Kinds
        BY DEF Kinds
    <3>6. [Status("UpstreamErrors") EXCEPT !.ref = r] \in StatusType
        BY <3>5, StatusForm
    <3> QED BY <2>1, <3>4, <3>6
  <2> QED BY <2>2, NullIsNone DEF NilBuildInfo
<1>13. CASE ~StopOnErrors
    BY <1>8, <1>9, <1>13 DEF ConfiguredUnlessStopping, AllConfigured, StatusKnown
<1> QED BY <1>12, <1>13

LEMMA PanicStep ==
    ASSUME IInv, ConfiguredUnlessStopping, ~panicked, [Next]_vars
    PROVE  ~panicked'
<1>r. ASSUME NEW w \in Builders, Active(w)
      PROVE  Renewed(task[worker[w].project]) /\ worker[w].project \in Range(order)
  <2>1. worker[w].project \in Range(order)
      BY <1>r, ProjectOf DEF IInv
  <2>2. worker[w].project \in Projects /\ task[worker[w].project] # Null
      BY <2>1, TaskOf DEF IInv
  <2> QED BY <2>1, <2>2 DEF ConfiguredUnlessStopping, AllConfigured, Renewed
<1>1. ASSUME NEW w \in Builders, buildProject(w)
      PROVE  ~panicked'
  <2>1. PICK p : p = worker[w].project
      OBVIOUS
  <2>2. Active(w) /\ Waited(p)
      BY <1>1, <2>1 DEF buildProject, Active, waitOnUpstream, Waited
  <2>3. p \in Range(order)
      BY <2>1, <2>2, <1>r
  <2>4. ~NilBuildInfo(p)
      BY <2>2, <2>3, InfoIsThere
  <2>5. ~NilBuildInfo(worker[w].project)
      BY <2>1, <2>4
  <2>6. PICK s, entry : BuildCase(w, worker[w].project, s, entry)
      BY <1>1, BuildCases
  <2> QED BY <2>5, <2>6 DEF BuildCase
<1>2. ASSUME NEW w \in Builders, unblockDownstream(w)
      PROVE  ~panicked'
  <2>1. Active(w) /\ worker[w].pc # "report"
      BY <1>2 DEF unblockDownstream, Active
  <2>2. ~task[worker[w].project].done
      BY <2>1, <1>r DEF IInv, Open
  <2> QED BY <1>2, <2>2 DEF unblockDownstream
<1>3. ASSUME NEW w \in Builders, report(w)
      PROVE  ~panicked'
  <2>1. Active(w)
      BY <1>3 DEF report, Active
  <2>2. ~task[worker[w].project].reportDone
      BY <2>1, <1>r DEF IInv, Open
  <2> QED BY <1>3, <2>2 DEF report
<1>4. ASSUME NEW w \in Builders, Take(w) \/ cleanProject(w) \/ CreateProgram(w) \/ compileAndEmit(w)
      PROVE  ~panicked'
    BY <1>4 DEF Take, cleanProject, CreateProgram, compileAndEmit
<1>5. ASSUME EndBuild \/ DoCycle \/ Start \/ (\E p \in Projects : Edit(p)) \/ UNCHANGED vars
      PROVE  ~panicked'
    BY <1>5 DEF EndBuild, DoCycle, Start, Edit, vars
<1> QED BY <1>1, <1>2, <1>3, <1>4, <1>5 DEF Next, Build

(* waitOnUpstream, unblockDownstream, report, hasUpdate: no channel of a   *)
(* task is closed twice and no build info is used that is not there,       *)
(* whatever is edited and whenever, provided that every project of the     *)
(* graph has a configuration while builds are watched or go on in spite of *)
(* errors.  (Without that the orchestrator does panic.)                    *)
THEOREM BuildsDoNotPanic == Spec /\ []ConfiguredUnlessStopping => []NoPanic
<1>1. Init => ~panicked
    BY DEF Init
<1>2. IInv /\ ConfiguredUnlessStopping /\ ~panicked /\ [Next]_vars => ~panicked'
    BY PanicStep
<1>3. IInv /\ ~panicked => NoPanic
    BY DEF NoPanic, IInv, Typed
<1> QED BY <1>1, <1>2, <1>3, Invariance, PTL DEF Spec

----------------------------------------------------------------------------
(* Reports *)

InTurn ==
    phase = "build" => \A i \in DOMAIN order : task[order[i]].reportDone =>
                            \A j \in 1..(i - 1) : task[order[j]].reportDone

(* Steps that report nothing.                                              *)
Silent == UNCHANGED <<order, phase>> /\ \A q \in Range(order) : task'[q].reportDone = task[q].reportDone

LEMMA SilentStep ==
    ASSUME Typed, InTurn, Silent
    PROVE  InTurn'
<1>1. order \in Seq(Projects)
    BY DEF Typed, TypeOK
<1>2. \A i \in DOMAIN order : order[i] \in Range(order) /\ \A j \in 1..(i - 1) : j \in DOMAIN order
  <2>1. DOMAIN order = 1..Len(order) /\ Len(order) \in Nat /\ \A i \in DOMAIN order : order[i] \in Range(order)
      BY <1>1, Places
  <2>2. \A i \in DOMAIN order : \A j \in 1..(i - 1) : j \in DOMAIN order
      BY <2>1, SMT
  <2> QED BY <2>1, <2>2
<1> QED BY <1>2 DEF InTurn, Silent

(* Statuses and build info leave what is reported alone.                   *)
Keeps(u, t) ==
    \/ u = t \/ u = [t EXCEPT !.pending = FALSE, !.isInitialCycle = FALSE, !.done = TRUE]
    \/ \E x, y : u = [t EXCEPT !.status = x, !.entry = y] \/ u = [t EXCEPT !.status = x, !.pending = y]

LEMMA KeepsReport ==
    ASSUME NEW t \in TaskType, NEW u, Keeps(u, t)
    PROVE  u.reportDone = t.reportDone
<1>1. DOMAIN t = {"status", "pending", "isInitialCycle", "resolved", "refs", "entry", "done", "reportDone", "prev", "inputTime", "configTime"}
    BY DEF TaskType
<1>2. CASE u = [t EXCEPT !.pending = FALSE, !.isInitialCycle = FALSE, !.done = TRUE]
    BY <1>1, <1>2, SMT
<1>3. ASSUME NEW x, NEW y, u = [t EXCEPT !.status = x, !.entry = y] \/ u = [t EXCEPT !.status = x, !.pending = y]
      PROVE  u.reportDone = t.reportDone
  <2>1. \A v : [t EXCEPT !.status = v].reportDone = t.reportDone /\ DOMAIN [t EXCEPT !.status = v] = DOMAIN t
      BY <1>1
  <2>2. PICK v : v = [t EXCEPT !.status = x]
      OBVIOUS
  <2>3. v.reportDone = t.reportDone /\ "reportDone" \in DOMAIN v
      BY <1>1, <2>1, <2>2
  <2>4. u = [v EXCEPT !.entry = y] \/ u = [v EXCEPT !.pending = y]
      BY <1>3, <2>2
  <2> QED BY <2>3, <2>4
<1> QED BY <1>2, <1>3 DEF Keeps

LEMMA SilentBuild ==
    ASSUME IInv, NEW w \in Builders, buildProject(w)
    PROVE  Silent
<1>1. PICK p : ProjectIs(w, p) /\ p = worker[w].project
    BY DEF ProjectIs
<1>2. p \in Range(order) /\ p \in Projects /\ task[p] \in TaskType /\ UNCHANGED <<order, phase>>
    BY <1>1, BuildFacts
<1>3. PICK s, entry : BuildCase(w, p, s, entry)
    BY <1>1, BuildCases
<1>4. task' = task \/ \E x, y : task' = [task EXCEPT ![p].status = x, ![p].entry = y]
    BY <1>3 DEF BuildCase
<1>5. task = [q \in Projects |-> task[q]]
    BY DEF IInv, Typed, TypeOK
<1>6. \A q \in Range(order) : q \in Projects
    BY TaskOf DEF IInv
<1>7. CASE task' = task
    BY <1>2, <1>7 DEF Silent
<1>8. CASE task' # task
  <2>1. PICK x, y : task' = [task EXCEPT ![p].status = x, ![p].entry = y]
      BY <1>4, <1>8
  <2>2. task'[p] = [task[p] EXCEPT !.status = x, !.entry = y] /\ \A q \in Projects \ {p} : task'[q] = task[q]
      BY <2>1, <1>2, <1>5
  <2>3. task'[p].reportDone = task[p].reportDone
    <3>1. Keeps(task'[p], task[p])
        BY <2>2 DEF Keeps
    <3> QED BY <3>1, <1>2, KeepsReport
  <2> QED BY <1>2, <1>6, <2>2, <2>3 DEF Silent
<1> QED BY <1>7, <1>8

LEMMA SilentEmit ==
    ASSUME IInv, NEW w \in Builders, compileAndEmit(w)
    PROVE  Silent
<1>1. PICK p : p = worker[w].project
    OBVIOUS
<1>2. \A q \in Range(order) : q \in Projects /\ task[q] \in TaskType
    BY TaskOf DEF IInv
<1>3. UNCHANGED <<order, phase>>
    BY DEF compileAndEmit, graph
<1>4. ASSUME NEW q \in Range(order)
      PROVE  task'[q] = task[q] \/ \E x, y : \/ task'[q] = [task[q] EXCEPT !.status = x, !.entry = y]
                                             \/ task'[q] = [task[q] EXCEPT !.status = x, !.pending = y]
    BY <1>1, <1>2 DEF compileAndEmit
<1>5. ASSUME NEW q \in Range(order)
      PROVE  task'[q].reportDone = task[q].reportDone
  <2>1. Keeps(task'[q], task[q])
      BY <1>4 DEF Keeps
  <2> QED BY <2>1, <1>2, KeepsReport
<1> QED BY <1>3, <1>5 DEF Silent

LEMMA SilentUnblock ==
    ASSUME IInv, NEW w \in Builders, unblockDownstream(w)
    PROVE  Silent
<1>1. PICK p : p = worker[w].project
    OBVIOUS
<1>2. Active(w)
    BY DEF unblockDownstream, Active
<1>3. p \in Range(order)
    BY <1>1, <1>2, ProjectOf DEF IInv
<1>4. \A q \in Range(order) : q \in Projects /\ task[q] \in TaskType
    BY TaskOf DEF IInv
<1>5. task = [q \in Projects |-> task[q]]
    BY DEF IInv, Typed, TypeOK
<1>6. task' = [task EXCEPT ![p].pending = FALSE, ![p].isInitialCycle = FALSE, ![p].done = TRUE] /\ UNCHANGED <<order, phase>>
    BY <1>1 DEF unblockDownstream, graph
<1>7. task'[p] = [task[p] EXCEPT !.pending = FALSE, !.isInitialCycle = FALSE, !.done = TRUE]
      /\ \A q \in Projects \ {p} : task'[q] = task[q]
    BY <1>3, <1>4, <1>5, <1>6
<1>8. task'[p].reportDone = task[p].reportDone
    BY <1>3, <1>4, <1>7, KeepsReport DEF Keeps
<1> QED BY <1>4, <1>6, <1>7, <1>8 DEF Silent

LEMMA TurnReport ==
    ASSUME IInv, InTurn, NEW w \in Builders, report(w)
    PROVE  InTurn'
<1>1. PICK p : p = worker[w].project
    OBVIOUS
<1>2. Active(w) /\ UNCHANGED <<order, phase>> /\ task' = [task EXCEPT ![p].reportDone = TRUE] /\ Reported(task[p].prev)
    BY <1>1 DEF report, Active, graph
<1>3. p \in Range(order) /\ phase = "build"
    BY <1>1, <1>2, ProjectOf DEF IInv, Taken
<1>o. /\ order \in Seq(Projects) /\ DOMAIN order = 1..Len(order) /\ Len(order) \in Nat
      /\ (\A i \in DOMAIN order : order[i] \in Range(order)) /\ (\A x \in Range(order) : \E i \in DOMAIN order : order[i] = x)
  <2>1. order \in Seq(Projects)
      BY DEF IInv, Typed, TypeOK
  <2> QED BY <2>1, Places
<1>4. \A q \in Range(order) : q \in Projects /\ task[q] \in TaskType
    BY TaskOf DEF IInv
<1>5. task = [q \in Projects |-> task[q]]
    BY DEF IInv, Typed, TypeOK
<1>6. task'[p].reportDone /\ \A q \in Range(order) \ {p} : task'[q] = task[q]
  <2>1. task'[p] = [task[p] EXCEPT !.reportDone = TRUE] /\ \A q \in Projects \ {p} : task'[q] = task[q]
      BY <1>2, <1>3, <1>4, <1>5
  <2>2. [task[p] EXCEPT !.reportDone = TRUE].reportDone
    <3>1. Fields([task[p] EXCEPT !.reportDone = TRUE], task[p], task[p].status, task[p].entry, task[p].pending, task[p].done, TRUE)
        BY <1>3, <1>4, TaskForms
    <3> QED BY <3>1 DEF Fields
  <2> QED BY <2>1, <2>2, <1>4
<1>7. PICK k \in DOMAIN order : order[k] = p
    BY <1>3, <1>o
<1>8. \A j \in 1..(k - 1) : task[order[j]].reportDone
  <2>1. CASE k = 1
    <3>1. 1..(k - 1) = {}
        BY <2>1, SMT
    <3> QED BY <3>1
  <2>2. CASE k # 1
    <3>1. PICK m \in DOMAIN order : m = k - 1 /\ k \in 2..Len(order) /\ \A j \in 1..(k - 1) : j = m \/ j \in 1..(m - 1)
      <4>1. k - 1 \in DOMAIN order /\ k \in 2..Len(order) /\ \A j \in 1..(k - 1) : j = k - 1 \/ j \in 1..((k - 1) - 1)
          BY <2>2, <1>o, SMT
      <4> QED BY <4>1
    <3>2. task[p].prev = order[m]
        BY <3>1, <1>7 DEF IInv, Lined
    <3>3. task[order[m]].reportDone
        BY <3>2, <1>2, <1>4, <1>o DEF Reported
    <3> QED BY <3>1, <3>3, <1>3 DEF InTurn
  <2> QED BY <2>1, <2>2
<1>9. ASSUME NEW i \in DOMAIN order, task'[order[i]].reportDone, NEW j \in 1..(i - 1)
      PROVE  task'[order[j]].reportDone
  <2>1. j \in DOMAIN order
      BY <1>o, SMT
  <2>2. task[order[j]].reportDone \/ order[j] = p
    <3>1. CASE order[i] = p
      <4>1. i = k
          BY <3>1, <1>7 DEF IInv, Typed, TypeOK, IsInjective
      <4> QED BY <4>1, <1>8
    <3>2. CASE order[i] # p
      <4>1. task[order[i]].reportDone
          BY <3>2, <1>6, <1>9, <1>o
      <4> QED BY <4>1, <1>3 DEF InTurn
    <3> QED BY <3>1, <3>2
  <2> QED BY <2>1, <2>2, <1>6, <1>o
<1> QED BY <1>2, <1>9 DEF InTurn

(* A build begins with nothing reported.                                   *)
LEMMA TurnBegin ==
    ASSUME IInv, ConfiguredInWatch, next = 1
    PROVE  InTurn
<1>1. \A i \in DOMAIN order : i \in next..Len(order) /\ task[order[i]] # Null /\ order[i] \in Projects
  <2>1. order \in Seq(Projects)
      BY DEF IInv, Typed, TypeOK
  <2>2. DOMAIN order = 1..Len(order) /\ \A i \in DOMAIN order : order[i] \in Range(order)
      BY <2>1, Places
  <2>3. \A q \in Range(order) : q \in Projects /\ task[q] # Null
      BY TaskOf DEF IInv
  <2> QED BY <2>2, <2>3
<1>2. \A i \in DOMAIN order : Renewed(task[order[i]])
    BY <1>1 DEF Renewed, ConfiguredInWatch, AllConfigured
<1> QED BY <1>1, <1>2 DEF InTurn, IInv, Open

LEMMA TurnStep ==
    ASSUME IInv, InTurn, [Next]_vars, IInv', ConfiguredInWatch'
    PROVE  InTurn'
<1>s. Silent => InTurn'
    BY SilentStep DEF IInv
<1>1. ASSUME NEW w \in Builders, buildProject(w) \/ compileAndEmit(w) \/ unblockDownstream(w)
      PROVE  InTurn'
    BY <1>1, <1>s, SilentBuild, SilentEmit, SilentUnblock
<1>2. ASSUME NEW w \in Builders, report(w)
      PROVE  InTurn'
    BY <1>2, TurnReport
<1>3. ASSUME NEW w \in Builders, Take(w) \/ cleanProject(w) \/ CreateProgram(w)
      PROVE  InTurn'
    BY <1>3, <1>s DEF Take, cleanProject, CreateProgram, graph, Silent
<1>4. ASSUME EndBuild
      PROVE  InTurn'
    BY <1>4 DEF EndBuild, InTurn
<1>5. ASSUME DoCycle \/ Start
      PROVE  InTurn'
  <2>1. next' = 1
      BY <1>5 DEF DoCycle, Start, IInv, Taken
  <2>2. IInv /\ ConfiguredInWatch /\ next = 1 => InTurn
      BY TurnBegin
  <2>3. (IInv /\ ConfiguredInWatch /\ next = 1 => InTurn)'
      BY TurnBegin, PTL
  <2> QED BY <2>1, <2>3
<1>6. ASSUME (\E p \in Projects : Edit(p)) \/ UNCHANGED vars
      PROVE  InTurn'
    BY <1>6, <1>s DEF Edit, vars, graph, Silent
<1> QED BY <1>1, <1>2, <1>3, <1>4, <1>5, <1>6 DEF Next, Build

(* report, prevReporter: what is printed about a project follows what is   *)
(* printed about all projects before it in the order, in whatever order    *)
(* goroutines finish them, also when a graph is made of the tasks of an    *)
(* earlier cycle, provided that in watch mode every project has a          *)
(* configuration.                                                          *)
THEOREM ReportsAreInOrder == Spec /\ []ConfiguredInWatch => []ReportsInOrder
<1>1. Init /\ IInv /\ ConfiguredInWatch => InTurn
    BY TurnBegin DEF Init
<1>2. IInv /\ InTurn /\ [Next]_vars /\ IInv' /\ ConfiguredInWatch' => InTurn'
    BY TurnStep
<1>3. InTurn => ReportsInOrder
    BY DEF InTurn, ReportsInOrder
<1> QED BY <1>1, <1>2, <1>3, Invariance, PTL DEF Spec
=============================================================================
