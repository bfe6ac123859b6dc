------------------------- MODULE BuildOrchestrator -------------------------
(***************************************************************************)
(* Building projects that reference each other (tsc -b, internal/execute/  *)
(* build): one task per project, taken in dependency order by a number of  *)
(* goroutines, once per invocation or, in watch mode, once per cycle.      *)
(*                                                                         *)
(* A task waits for the tasks of the projects it references, decides from  *)
(* times and from the build info of the last build what to do, and then    *)
(* compiles, only touches its outputs, or does nothing.  In watch mode it  *)
(* keeps its status from cycle to cycle, and a task that compiles corrects *)
(* the statuses of the projects that reference it.                         *)
(*                                                                         *)
(* A project has one source file, whose text is named by the time it was   *)
(* written; what other projects see of it is the signature of its          *)
(* declarations.  All projects are composite, so the build info describes  *)
(* all outputs.  Time is a clock that no two writes share.                 *)
(***************************************************************************)
EXTENDS Integers, Sequences, FiniteSets, Functions

CONSTANTS
    Projects,
    Reexporting,  \* projects whose declarations include those they reference
    Builders,     \* goroutines
    Uses,         \* what the user asks for and does
    Graph(_, _),  \* o.order and whether there is a cycle, of the roots and what each project references
    Null

Kinds == {"ConfigFileNotFound", "UpstreamErrors", "ForceBuild", "OutputMissing",
          "OutOfDateBuildInfoWithErrors", "InputFileNewer", "UpToDateWithUpstreamTypes",
          "UpToDateWithInputFileText", "UpToDate", "BuildErrors"}
StatusType == [kind : Kinds, ref : Projects \cup {Null}, input : Nat]

(* done and reportDone are TRUE once these channels are closed.  prev is   *)
(* prevReporter.                                                           *)
TaskType ==
    [status : StatusType \cup {Null}, pending : BOOLEAN, isInitialCycle : BOOLEAN, resolved : BOOLEAN,
     refs : Seq(Projects), entry : BOOLEAN, done : BOOLEAN, reportDone : BOOLEAN,
     prev : Projects \cup {Null, "open", "closed"}, inputTime : Nat, configTime : Nat]

(* What project p may reference.                                           *)
RefsOf(u, p) == {<<>>, u.refs[p]} \cup u.otherRefs[p]
AllRefsOf(u) == {refs \in [Projects -> UNION {RefsOf(u, p) : p \in Projects}] :
                    \A p \in Projects : refs[p] \in RefsOf(u, p)}

ASSUME BuildAssumption ==
    /\ Reexporting \subseteq Projects /\ Null \notin Projects \cup Nat \cup StatusType \cup TaskType
    /\ \A u \in Uses :
          /\ u.roots \in Seq(Projects) /\ u.missing \subseteq Projects
          /\ u.during \in BOOLEAN /\ u.watch \in BOOLEAN /\ u.stopOnErrors \in BOOLEAN
          /\ u.modes \subseteq {"build", "force", "clean"} /\ (u.watch => "clean" \notin u.modes)
          /\ u.edits \subseteq {"touch", "body", "api", "error", "config", "remove"} /\ u.maxEdits \in Nat
          /\ \A p \in Projects : RefsOf(u, p) \subseteq Seq(Projects)

(* The order has every project once, and after those it references.        *)
InOrder(g, refs) ==
    /\ g.order \in Seq(Projects) /\ IsInjective(g.order) /\ g.cyclic \in BOOLEAN
    /\ \A i \in DOMAIN g.order : \A p \in Range(refs[g.order[i]]) :
          \E j \in DOMAIN g.order : g.order[j] = p /\ (j < i \/ g.cyclic)

ASSUME GraphAssumption ==
    \A u \in Uses : \A refs \in AllRefsOf(u) : InOrder(Graph(u.roots, refs), refs)

VARIABLES
    clock, edits,
    src,          \* source files: time, text, signature, whether there are errors
    cfg,          \* configurations: time (0 when there is none) and references
    out,          \* build info and outputs, or Null
    mTimes,       \* host.mTimes: times of sources and configurations, or Null
    task,         \* o.tasks, Null for projects that have none
    order,        \* o.order
    cyclic,       \* o.errors: references form a cycle
    next,         \* currentTaskIndex
    worker,       \* what each goroutine is doing
    phase,        \* of the orchestrator: "build" or "idle"
    mode, panicked,
    fresh,        \* history: no edit since the build was started
    use           \* the use of this behaviour

disk == <<clock, edits, src, cfg, out, fresh>>
graph == <<order, cyclic>>
vars == <<disk, mTimes, task, graph, next, worker, phase, mode, panicked, use>>

Roots == use.roots                \* the projects on the command line, a sequence
Watch == use.watch                \* watch mode
StopOnErrors == use.stopOnErrors  \* --stopBuildOnErrors
Modes == use.modes                \* of an invocation
InitRefs == use.refs              \* the projects each one references at first, a sequence
OtherRefs == use.otherRefs        \* what editing a configuration may make of them, a set
Missing == use.missing            \* projects without a configuration at first
During == use.during              \* files may be edited while a build is under way
Edits == use.edits                \* kinds of edits that are made
MaxEdits == use.maxEdits          \* bound: edits, and invocations that are forced or clean

Status(k) == [kind |-> k, ref |-> Null, input |-> 0]
isError(s) == s.kind \in {"ConfigFileNotFound", "BuildErrors", "UpstreamErrors"}
isPseudoBuild(s) == s.kind \in {"UpToDateWithUpstreamTypes", "UpToDateWithInputFileText"}

----------------------------------------------------------------------------
(* The graph of tasks *)

ConfigRefs(c, p) == IF c[p].time = 0 THEN <<>> ELSE c[p].refs

(* A task as createBuildTasks makes it.                                    *)
NewTask(c, p, initial, entry) ==
    [status |-> Null, pending |-> TRUE, isInitialCycle |-> initial,
     resolved |-> c[p].time # 0, refs |-> ConfigRefs(c, p), entry |-> entry,
     done |-> FALSE, reportDone |-> FALSE, prev |-> Null, inputTime |-> 0, configTime |-> 0]

(* Fault: a task has no one to report after.                               *)
WithReporterNone(tasks, g) == tasks

(* setupBuildTask makes every task report after the one before it; that of *)
(* the first task is left as it is.                                        *)
WithReporter(tasks, g) ==
    [p \in Projects |->
        IF p \notin Range(g.order) THEN Null
        ELSE LET i == CHOOSE k \in DOMAIN g.order : g.order[k] = p
             IN  IF i = 1 THEN tasks[p] ELSE [tasks[p] EXCEPT !.prev = g.order[i - 1]]]

NewTasks(c) ==
    WithReporter([p \in Projects |-> NewTask(c, p, TRUE, FALSE)],
                 Graph(Roots, [p \in Projects |-> ConfigRefs(c, p)]))

Idle == [pc |-> "next", project |-> Null, text |-> 0, sig |-> <<>>, err |-> FALSE, deps |-> <<>>]
(* Nothing is built if references form a cycle.                            *)
Workers(cycle) == [w \in Builders |-> [Idle EXCEPT !.pc = IF cycle THEN "end" ELSE "next"]]
NoTimes == [src |-> [p \in Projects |-> Null], cfg |-> [p \in Projects |-> Null]]

Init ==
    /\ use \in Uses
    /\ clock = 2 /\ edits = 0 /\ fresh = TRUE
    /\ src = [p \in Projects |-> [time |-> 1, text |-> 1, sig |-> 1, err |-> FALSE]]
    /\ cfg = [p \in Projects |-> [time |-> IF p \in Missing THEN 0 ELSE 1, refs |-> InitRefs[p]]]
    /\ out = [p \in Projects |-> Null]
    /\ mTimes = NoTimes
    /\ task = NewTasks(cfg)
    /\ LET g == Graph(Roots, [p \in Projects |-> ConfigRefs(cfg, p)])
       IN  order = g.order /\ cyclic = g.cyclic
    /\ next = 1
    /\ worker = Workers(cyclic)
    /\ phase = "build"
    /\ mode \in Modes
    /\ panicked = FALSE

----------------------------------------------------------------------------
(* The user edits a file.                                                  *)

NewSources(s) ==
    LET e == [s EXCEPT !.time = clock, !.text = clock]
    IN  {[s EXCEPT !.time = clock] : k \in Edits \cap {"touch"}}
        \cup {e : k \in Edits \cap {"body"}}
        \cup {[e EXCEPT !.sig = clock] : k \in Edits \cap {"api"}}
        \cup {[e EXCEPT !.err = ~@, !.sig = v] : v \in IF "error" \in Edits THEN {e.sig, clock} ELSE {}}

NewConfigs(p) ==
    {[time |-> clock, refs |-> r] : r \in IF "config" \in Edits THEN OtherRefs[p] \cup {cfg[p].refs} ELSE {}}
    \cup {[cfg[p] EXCEPT !.time = 0] : k \in Edits \cap {"remove"}}

Edit(p) ==
    /\ edits < MaxEdits /\ (During \/ phase = "idle")
    /\ edits' = edits + 1 /\ clock' = clock + 1 /\ fresh' = FALSE
    /\ \/ \E s \in NewSources(src[p]) : src' = [src EXCEPT ![p] = s] /\ UNCHANGED cfg
       \/ \E c \in NewConfigs(p) : cfg' = [cfg EXCEPT ![p] = c] /\ UNCHANGED src
    /\ UNCHANGED <<out, mTimes, task, graph, next, worker, phase, mode, panicked>>

----------------------------------------------------------------------------
(* The status of a project *)

(* GetMTime: the time in the cache, or the one on disk.                    *)
SrcTime(p) == IF mTimes.src[p] = Null THEN src[p].time ELSE mTimes.src[p]
CfgTime(p) == IF mTimes.cfg[p] = Null THEN cfg[p].time ELSE mTimes.cfg[p]

(* The first of some places in a list.                                     *)
First(S) == CHOOSE i \in S : \A j \in S : i <= j

(* Statuses that are known before any time is looked at, or Null.          *)
EarlyStatus(p) ==
    LET refs == task[p].refs
        failed == {i \in DOMAIN refs : isError(task[refs[i]].status)}
    IN  IF task[p].status # Null THEN task[p].status
        ELSE IF ~task[p].resolved THEN Status("ConfigFileNotFound")
        ELSE IF StopOnErrors /\ failed # {}
             THEN [Status("UpstreamErrors") EXCEPT !.ref = refs[First(failed)]]
        ELSE IF mode = "force" THEN Status("ForceBuild")
        ELSE IF out[p] = Null THEN Status("OutputMissing")
        ELSE IF out[p].err THEN Status("OutOfDateBuildInfoWithErrors")
        ELSE Null

(* The source was written after the outputs, and has another text.         *)
SourceNewer(p) == SrcTime(p) > out[p].time /\ src[p].text # out[p].text

(* The newest input of a referenced project is older than our outputs.  It *)
(* is not known if the project was just compiled.                          *)
InputsOlder(u, time) == task[u].status.input # 0 /\ task[u].status.input < time

(* The declarations of a referenced project changed after our outputs.     *)
UpstreamNewer(u, time) ==
    ~InputsOlder(u, time) /\ ~(task[u].entry /\ out[u] # Null /\ out[u].dtsTime < time)

(* The places of such projects in the list of references.                  *)
Newer(p) == {i \in DOMAIN task[p].refs : UpstreamNewer(task[p].refs[i], out[p].time)}

getUpToDateStatus(p) ==
    LET time == out[p].time
        current == IF \E u \in Range(task[p].refs) : ~InputsOlder(u, time) THEN "UpToDateWithUpstreamTypes"
                   ELSE IF SrcTime(p) > time THEN "UpToDateWithInputFileText"
                   ELSE "UpToDate"
    IN  IF EarlyStatus(p) # Null THEN EarlyStatus(p)
        ELSE IF SourceNewer(p) \/ Newer(p) # {} \/ CfgTime(p) > time THEN Status("InputFileNewer")
        ELSE [Status(current) EXCEPT !.input = SrcTime(p)]

(* getLatestChangedDtsMTime of a task that has no build info.              *)
NilBuildInfo(p) ==
    /\ EarlyStatus(p) = Null /\ ~SourceNewer(p)
    /\ Newer(p) # {} /\ ~task[task[p].refs[First(Newer(p))]].entry

(* The times that were read on the way to the status stay in the cache.    *)
TimesRead(p) ==
    [src |-> [mTimes.src EXCEPT ![p] = IF EarlyStatus(p) = Null THEN SrcTime(p) ELSE @],
     cfg |-> [mTimes.cfg EXCEPT ![p] = IF EarlyStatus(p) = Null /\ ~SourceNewer(p) /\ Newer(p) = {}
                                       THEN CfgTime(p) ELSE @]]

----------------------------------------------------------------------------
(* The goroutines *)

Goto(w, pc) == worker' = [worker EXCEPT ![w].pc = pc]

(* getNextTask                                                             *)
Take(w) ==
    /\ phase = "build" /\ worker[w].pc = "next"
    /\ IF next <= Len(order)
       THEN /\ worker' = [worker EXCEPT ![w].pc = IF mode = "clean" THEN "clean" ELSE "wait",
                                        ![w].project = order[next]]
            /\ next' = next + 1
       ELSE Goto(w, "end") /\ UNCHANGED next
    /\ UNCHANGED <<disk, mTimes, task, graph, phase, mode, panicked>>

(* cleanProject                                                            *)
cleanProject(w) ==
    LET p == worker[w].project
    IN  /\ worker[w].pc = "clean"
        /\ out' = IF task[p].resolved THEN [out EXCEPT ![p] = Null] ELSE out
        /\ Goto(w, "report")
        /\ UNCHANGED <<clock, edits, src, cfg, fresh, mTimes, task, graph, next, phase, mode, panicked>>

(* Fault: the task does not wait for the projects it references.           *)
waitOnUpstreamNot(p) == \A u \in Range(task[p].refs) : task[u].status # Null

waitOnUpstream(p) == \A u \in Range(task[p].refs) : task[u].done

(* loadOrStoreBuildInfo: whether the task has its build info after it has  *)
(* computed status s.                                                      *)
HasBuildInfo(p, s) ==
    \/ task[p].entry
    \/ task[p].status = Null /\ s.kind \notin {"ConfigFileNotFound", "UpstreamErrors", "ForceBuild"}

(* handleStatusThatDoesntRequireBuild: these are done with.                *)
NoBuildRequired(s) == s.kind \in {"UpToDate", "UpstreamErrors", "ConfigFileNotFound"}

(* Touching the outputs.                                                   *)
updateTimeStamps(p) == out' = [out EXCEPT ![p].time = clock] /\ clock' = clock + 1

(* buildProject up to the compilation: the status is computed, and handled *)
(* if it does not require one.                                             *)
buildProject(w) ==
    LET p == worker[w].project
        s == getUpToDateStatus(p)
        entry == HasBuildInfo(p, s)
    IN  /\ worker[w].pc = "wait" /\ ~panicked
        /\ waitOnUpstream(p)
        /\ CASE ~task[p].pending ->
                  Goto(w, "unblock") /\ UNCHANGED <<clock, out, mTimes, task, panicked>>
             [] task[p].pending /\ NilBuildInfo(p) ->
                  panicked' = TRUE /\ UNCHANGED <<clock, out, mTimes, task, worker>>
             [] task[p].pending /\ ~NilBuildInfo(p) /\ isPseudoBuild(s) ->
                  /\ mTimes' = TimesRead(p)
                  /\ updateTimeStamps(p)
                  /\ task' = [task EXCEPT ![p].status = [s EXCEPT !.kind = "UpToDate"], ![p].entry = entry]
                  /\ Goto(w, "unblock") /\ UNCHANGED panicked
             [] OTHER ->
                  /\ mTimes' = TimesRead(p)
                  /\ task' = [task EXCEPT ![p].status = s, ![p].entry = entry]
                  /\ Goto(w, IF NoBuildRequired(s) THEN "unblock" ELSE "compile")
                  /\ UNCHANGED <<clock, out, panicked>>
        /\ UNCHANGED <<edits, src, cfg, fresh, graph, next, phase, mode>>

(* The projects that p references, directly or not.                        *)
AllRefs(p) == {u \in Projects : \E n \in 2..Len(order) : \E s \in [1..n -> Range(order)] :
                  /\ s[1] = p /\ s[n] = u
                  /\ \A i \in 1..(n - 1) : s[i + 1] \in Range(task[s[i]].refs)}

(* What a project sees of those it references.                             *)
Declarations(refs) == [i \in DOMAIN refs |-> IF out[refs[i]] = Null THEN <<>> ELSE out[refs[i]].sig]

(* compileAndEmit creates the program: it reads the source and the         *)
(* declarations of the referenced projects.  A missing configuration       *)
(* among those is an error of the program.                                 *)
CreateProgram(w) ==
    LET p == worker[w].project
        deps == Declarations(task[p].refs)
    IN  /\ worker[w].pc = "compile"
        /\ worker' = [worker EXCEPT ![w] =
               [@ EXCEPT !.pc = "emit", !.text = src[p].text, !.deps = deps,
                         !.sig = <<src[p].sig>> \o (IF p \in Reexporting THEN deps ELSE <<>>),
                         !.err = src[p].err \/ \E u \in AllRefs(p) : ~task[u].resolved]]
        /\ UNCHANGED <<disk, mTimes, task, graph, next, phase, mode, panicked>>

(* Fault: changed declarations are no news to a project that was touched.  *)
DownstreamStatusTouched(u, s, changed) ==
    IF s # Null /\ s.kind = "UpToDate" THEN [s EXCEPT !.kind = "UpToDateWithUpstreamTypes"] ELSE s

(* updateDownstream: the status s of a project that references u becomes   *)
(* this after u is compiled.                                               *)
DownstreamStatus(u, s, changed) ==
    CASE s = Null -> Null
      [] s # Null /\ s.kind = "UpToDate" /\ ~changed -> [s EXCEPT !.kind = "UpToDateWithUpstreamTypes"]
      [] s # Null /\ changed /\ (s.kind = "UpToDate" \/ isPseudoBuild(s)) -> Status("InputFileNewer")
      [] s # Null /\ s.kind = "UpstreamErrors" /\ s.ref = u -> Null
      [] OTHER -> s

(* The projects that are told, in watch mode and after the first cycle.    *)
Downstream(p, err) ==
    IF Watch /\ ~task[p].isInitialCycle /\ ~(StopOnErrors /\ err)
    THEN {q \in Range(order) : p \in Range(task[q].refs)} ELSE {}

(* onBuildInfoEmit: the build info for what goroutine w has compiled.      *)
BuildInfo(w, changed) ==
    [time |-> clock, dtsTime |-> IF changed THEN clock ELSE out[worker[w].project].dtsTime,
     sig |-> worker[w].sig, text |-> worker[w].text, err |-> worker[w].err, deps |-> worker[w].deps]

(* compileAndEmit and updateDownstream: outputs that differ are written,   *)
(* the build info is touched (not if it was read for its errors only and   *)
(* nothing is emitted), and the projects downstream are told.              *)
compileAndEmit(w) ==
    LET p == worker[w].project
        r == worker[w]
        new == out[p] = Null
        changed == new \/ out[p].sig # r.sig
        same == ~new /\ task[p].status.kind = "OutOfDateBuildInfoWithErrors"
                /\ ~changed /\ <<out[p].text, out[p].err, out[p].deps>> = <<r.text, r.err, r.deps>>
    IN  /\ r.pc = "emit"
        /\ out' = IF same THEN out ELSE [out EXCEPT ![p] = BuildInfo(w, changed)]
        /\ clock' = IF same THEN clock ELSE clock + 1
        /\ task' = [q \in Projects |->
               CASE q = p -> [task[p] EXCEPT !.status = Status(IF r.err THEN "BuildErrors" ELSE "UpToDate"),
                                             !.entry = TRUE]
                 [] q # p /\ q \in Downstream(p, r.err) ->
                        [task[q] EXCEPT !.status = DownstreamStatus(p, @, changed), !.pending = TRUE]
                 [] OTHER -> task[q]]
        /\ worker' = [worker EXCEPT ![w] = [Idle EXCEPT !.pc = "unblock", !.project = p]]
        /\ UNCHANGED <<edits, src, cfg, fresh, mTimes, graph, next, phase, mode, panicked>>

(* Closing a channel that is closed is a panic.                            *)
unblockDownstream(w) ==
    LET p == worker[w].project
    IN  /\ worker[w].pc = "unblock" /\ ~panicked
        /\ task' = [task EXCEPT ![p].pending = FALSE, ![p].isInitialCycle = FALSE, ![p].done = TRUE]
        /\ panicked' = task[p].done
        /\ Goto(w, "report")
        /\ UNCHANGED <<disk, mTimes, graph, next, phase, mode>>

(* A reporter is a task of the graph, or one that is no longer in it and   *)
(* whose channel is closed, or open for ever.                              *)
Reported(q) == IF q \in Projects THEN task[q].reportDone ELSE q # "open"

report(w) ==
    LET p == worker[w].project
    IN  /\ worker[w].pc = "report" /\ ~panicked
        /\ Reported(task[p].prev)
        /\ panicked' = task[p].reportDone
        /\ task' = [task EXCEPT ![p].reportDone = TRUE]
        /\ worker' = [worker EXCEPT ![w] = Idle]
        /\ UNCHANGED <<disk, mTimes, graph, next, phase, mode>>

----------------------------------------------------------------------------
(* The orchestrator *)

(* Fault: the times are not noted.                                         *)
updateWatchForgets(p) == task[p]

(* updateWatch: the times to compare with are those that were read in the  *)
(* cycle, or those on disk.                                                *)
updateWatch(p) ==
    IF task[p] = Null THEN Null
    ELSE [task[p] EXCEPT !.configTime = CfgTime(p),
                         !.inputTime = IF task[p].resolved THEN SrcTime(p) ELSE @]

(* rangeTask is over, or was not started because of a cycle.               *)
EndBuild ==
    /\ phase = "build" /\ (\A w \in Builders : worker[w].pc = "end")
    /\ phase' = "idle" /\ next' = 1
    /\ worker' = [w \in Builders |-> Idle]
    /\ task' = IF Watch THEN [p \in Projects |-> updateWatch(p)] ELSE task
    /\ mTimes' = NoTimes
    /\ UNCHANGED <<disk, graph, mode, panicked>>

ConfigChanged(p) == task[p] # Null /\ cfg[p].time # task[p].configTime
InputChanged(p) == task[p] # Null /\ task[p].resolved /\ src[p].time # task[p].inputTime

(* hasUpdate: a changed input resets the status.  New channels are made    *)
(* unless the configuration changed or does not exist.                     *)
hasUpdate(p) ==
    LET t == IF InputChanged(p) THEN [task[p] EXCEPT !.status = Null, !.pending = TRUE] ELSE task[p]
    IN  IF task[p] # Null /\ task[p].resolved /\ ~ConfigChanged(p)
        THEN [t EXCEPT !.done = FALSE, !.reportDone = FALSE] ELSE t

(* Fault: tasks that are reused keep their channels.                       *)
ReusedTaskKeeps(p) ==
    CASE task[p] = Null -> NewTask(cfg, p, FALSE, FALSE)
      [] ConfigChanged(p) -> NewTask(cfg, p, FALSE, task[p].entry)
      [] OTHER -> [hasUpdate(p) EXCEPT !.done = task[p].done]

(* createBuildTasks: the task of before unless its configuration changed.  *)
(* The tasks it reports after may be gone.                                 *)
ReusedTask(p) ==
    CASE task[p] = Null -> NewTask(cfg, p, FALSE, FALSE)
      [] ConfigChanged(p) -> NewTask(cfg, p, FALSE, task[p].entry)
      [] OTHER -> [hasUpdate(p) EXCEPT !.done = FALSE, !.reportDone = FALSE]

StaleReporter(g, q) ==
    IF q \in {Null, "open", "closed"} \/ (q \in Range(g.order) /\ ~ConfigChanged(q)) THEN q
    ELSE IF hasUpdate(q).reportDone THEN "closed" ELSE "open"

GenerateGraphReusingOldTasks ==
    LET tasks == [p \in Projects |-> ReusedTask(p)]
        g == Graph(Roots, [p \in Projects |-> tasks[p].refs])
    IN  /\ task' = WithReporter([p \in Projects |-> [tasks[p] EXCEPT !.prev = StaleReporter(g, @)]], g)
        /\ order' = g.order /\ cyclic' = g.cyclic

(* DoCycle in watch mode                                                   *)
DoCycle ==
    /\ Watch /\ phase = "idle"
    /\ IF \E p \in Projects : ConfigChanged(p) THEN GenerateGraphReusingOldTasks
       ELSE task' = [p \in Projects |-> hasUpdate(p)] /\ UNCHANGED graph
    /\ IF \E p \in Projects : ConfigChanged(p) \/ InputChanged(p)
       THEN /\ mTimes' = [src |-> [p \in Projects |-> IF task[p] # Null /\ task[p].resolved
                                                      THEN src[p].time ELSE Null],
                          cfg |-> [p \in Projects |-> IF task[p] # Null THEN cfg[p].time ELSE Null]]
            /\ phase' = "build" /\ fresh' = TRUE
            /\ worker' = Workers(cyclic')
       ELSE UNCHANGED <<mTimes, phase, fresh, worker>>
    /\ UNCHANGED <<clock, edits, src, cfg, out, next, mode, panicked>>

(* Start: another invocation, without watch mode.  One that builds or      *)
(* removes everything counts as an edit.                                   *)
Start ==
    /\ ~Watch /\ phase = "idle"
    /\ task' = NewTasks(cfg)
    /\ LET g == Graph(Roots, [p \in Projects |-> ConfigRefs(cfg, p)])
       IN  /\ order' = g.order /\ cyclic' = g.cyclic
           /\ worker' = Workers(g.cyclic)
    /\ \/ mode' = "build" /\ UNCHANGED edits
       \/ mode' \in Modes \ {"build"} /\ edits < MaxEdits /\ edits' = edits + 1
    /\ phase' = "build" /\ fresh' = TRUE
    /\ UNCHANGED <<clock, src, cfg, out, mTimes, next, panicked>>

Build(w) ==
    \/ Take(w) \/ cleanProject(w) \/ buildProject(w) \/ CreateProgram(w) \/ compileAndEmit(w)
    \/ unblockDownstream(w) \/ report(w)

Next ==
    /\ \/ \E p \in Projects : Edit(p)
       \/ \E w \in Builders : Build(w)
       \/ EndBuild \/ DoCycle \/ Start
    /\ UNCHANGED use

Spec == Init /\ [][Next]_vars

(* Goroutines run, the watch timer fires, and invocations end.             *)
FairSpec ==
    /\ Spec
    /\ \A w \in Builders : WF_vars(Build(w) /\ UNCHANGED use)
    /\ WF_vars(EndBuild /\ UNCHANGED use) /\ WF_vars(DoCycle /\ UNCHANGED use)

----------------------------------------------------------------------------
(* Types, and that the graph and the tasks agree.                          *)
TypeOK ==
    /\ task \in [Projects -> TaskType \cup {Null}]
    /\ order \in Seq(Projects) /\ IsInjective(order) /\ next \in 1..(Len(order) + 1)
    /\ \A p \in Projects :
          /\ src[p].time \in 1..clock /\ cfg[p].time \in 0..clock
          /\ out[p] # Null => out[p].dtsTime <= out[p].time /\ out[p].time < clock
          /\ (task[p] # Null) <=> p \in Range(order)
          /\ task[p] # Null /\ task[p].status # Null =>
                task[p].status.ref \in Range(task[p].refs) \cup {Null}
    /\ phase \in {"build", "idle"} /\ panicked \in BOOLEAN /\ cyclic \in BOOLEAN

(* close of the channels of BuildTask and getLatestChangedDtsMTime: no     *)
(* channel is closed twice, and no build info is used that is not there.   *)
NoPanic == TypeOK /\ ~panicked

(* waitOnUpstream: while a project is compiled, none that it references,   *)
(* directly or not, is being compiled.                                     *)
UpstreamSettled ==
    \A v, w \in Builders :
        worker[w].pc \in {"compile", "emit"} /\ worker[v].pc \in {"compile", "emit"} =>
            worker[v].project \notin AllRefs(worker[w].project)

(* report: what is printed about a project follows what is printed about   *)
(* all projects before it in the order, whoever is built first.            *)
ReportsInOrder ==
    \A i \in DOMAIN order : phase = "build" /\ ~cyclic /\ task[order[i]].reportDone =>
        \A j \in 1..(i - 1) : task[order[j]].reportDone

(* The build that follows will see nothing new.                            *)
Noticed == IF Watch THEN \A p \in Projects : ~ConfigChanged(p) /\ ~InputChanged(p) ELSE fresh

(* The sources or the configuration of a project in the order, or of one   *)
(* it references, are in error.                                            *)
Faulty ==
    LET f[i \in DOMAIN order] ==
            \/ cfg[order[i]].time = 0 \/ src[order[i]].err
            \/ \E j \in 1..(i - 1) : order[j] \in Range(cfg[order[i]].refs) /\ f[j]
    IN  {order[i] : i \in {k \in DOMAIN order : f[k]}}

(* getUpToDateStatus, updateDownstream, hasUpdate: when a build is over    *)
(* and every change on disk has been noticed, so that nothing more would   *)
(* be done, the outputs of every project are those of its present text and *)
(* of the present declarations of the projects it references, and it has   *)
(* the errors it should have, provided that files were not edited while a  *)
(* build was under way.  Projects that stopBuildOnErrors keeps from being  *)
(* built are excepted.                                                     *)
UpToDate ==
    ~During /\ phase = "idle" /\ mode # "clean" /\ ~cyclic /\ Noticed =>
        \A p \in Range(order) :
            cfg[p].time # 0 /\ ~(StopOnErrors /\ Range(cfg[p].refs) \cap Faulty # {}) =>
                /\ out[p] # Null
                /\ out[p].text = src[p].text
                /\ out[p].err <=> src[p].err \/ \E u \in AllRefs(p) : cfg[u].time = 0
                /\ out[p].deps = Declarations(cfg[p].refs)

(* buildOrClean, DoCycle: the watcher comes to rest.  Every build ends, no *)
(* goroutine waits for ever for a project or for a report, and once files  *)
(* are no longer edited builds are no longer started.                      *)
Quiesces == Watch => <>[](phase = "idle" /\ Noticed)
=============================================================================
