------------------------------- MODULE Filing -------------------------------
(***************************************************************************)
(* Inbound messages become reports in a local tracker, and each report is  *)
(* mirrored to the shared project: file_reports runs in a thread at the    *)
(* end of every on_submit, one batch a turn, while a rebind may exchange   *)
(* the state it works on and the process may die.                          *)
(*                                                                         *)
(* An on_submit that is cancelled while it waits for its thread frees the  *)
(* hook's lock and leaves the thread running, and the next one starts      *)
(* another beside it, on the same state.                                   *)
(*                                                                         *)
(* Messages are numbered in the order they were sent, which stands for the *)
(* order of the dictionaries too.  The tracker is another program: an add  *)
(* takes effect, if it does, before its command ends.                      *)
(***************************************************************************)
EXTENDS Naturals, FiniteSets, QueueNames

CONSTANTS
  Hooks,             \* processes with a hook mounted on this machine
  Of,                \* the hook each thread belongs to
  Messages,          \* the messages sent to these hooks
  To,                \* the <<hook, project>> each is addressed to
  Oversize,          \* those too large to file whole
  Expired,           \* those the service evicts from the cache in the end
  Forbidden,         \* projects whose credential may not write shared work
  REPORT_BATCH, MIRROR_MAX_ATTEMPTS,
  RebindWhileFiling, \* may a rebind run beside a thread of the hook?
  MaxCrashes,        \* bound: deaths of a process
  MaxRebinds,        \* bound: changes of project
  MaxOverlaps,       \* bound: threads started while another of the hook runs
  MaxFaults          \* bound: these together, an overlap counting as two

NoName == "none"

ASSUME FilingAssumption ==
  /\ IsFiniteSet(Threads) /\ Of \in [Threads -> Hooks]
  /\ Messages \subseteq Nat /\ Oversize \cup Expired \subseteq Messages
  /\ To \in [Messages -> Hooks \X Projects]
  /\ {REPORT_BATCH, MIRROR_MAX_ATTEMPTS} \subseteq Nat \ {0}
  /\ {MaxCrashes, MaxRebinds, MaxOverlaps, MaxFaults} \subseteq Nat
  /\ NoName \notin Names

(* What state["filed"], ["mirrored"] and ["mirror_attempts"] say of a message. *)
Marks == [filed : {"no", "filed", "refused", "unknown"},
          mirror : {"no", "mirrored", "gave_up"},
          tries : 0 .. MIRROR_MAX_ATTEMPTS - 1]
NoMark == [filed |-> "no", mirror |-> "no", tries |-> 0]
NoMarks == [m \in Messages |-> NoMark]

VARIABLES
  jour,       \* the marks in each session's saved state
  mem,        \* the marks in self.state
  cache,      \* the messages in self.state["cache"]
  known,      \* is the session's own agent record in it?
  bind,       \* the project of self.connection
  name,       \* self.filing.name
  said,       \* self.mirror_said
  pc,         \* where each thread stands
  batch,      \* the project it was bound to when it took its state
  todo,       \* messages it still has to treat, the first one next
  back,       \* who called mirror: retry_mirrors or file_reports
  result,     \* what the call it last made returned
  tracker,    \* copies of each message in each tracker project
  shared,     \* <<message, project>>: mirrored there
  calm,       \* every call answers from now on, nobody dies, leaves or is cancelled
  crashes, rebinds, overlaps

state == <<jour, mem>>
inbox == <<cache, known>>
binding == <<bind, name, said>>
thread == <<batch, todo, back, result>>
world == <<calm, crashes, rebinds, overlaps>>
vars == <<jour, mem, cache, known, bind, name, said, pc, batch, todo, back, result,
          tracker, shared, calm, crashes, rebinds, overlaps, registry, asked, read>>

Naming == {"ready", "claim", "write", "probe"}

TypeOK ==
  /\ NamesTypeOK
  /\ jour \in [Hooks -> [Projects -> [Messages -> Marks]]]
  /\ mem \in [Hooks -> [Messages -> Marks]]
  /\ cache \in [Hooks -> SUBSET Messages] /\ known \in [Hooks -> BOOLEAN]
  /\ bind \in [Hooks -> Projects]
  /\ name \in [Hooks -> Names \cup {NoName}]
  /\ said \in [Hooks -> BOOLEAN]
  /\ pc \in [Threads -> {"idle", "retry", "pending", "file", "added", "mirror", "answer"} \cup Naming]
  /\ batch \in [Threads -> Projects]
  /\ todo \in [Threads -> SUBSET Messages]
  /\ back \in [Threads -> {"retry", "file"}]
  /\ result \in [Threads -> {"ok", "error", "conflict", "forbidden"}]
  /\ tracker \in [Names -> [Messages -> Nat]]
  /\ shared \subseteq Messages \X Projects
  /\ calm \in BOOLEAN
  /\ crashes \in 0 .. MaxCrashes /\ rebinds \in 0 .. MaxRebinds /\ overlaps \in 0 .. MaxOverlaps

Init ==
  /\ NamesInit
  /\ jour = [h \in Hooks |-> [p \in Projects |-> NoMarks]]
  /\ mem = [h \in Hooks |-> NoMarks]
  /\ cache = [h \in Hooks |-> {}] /\ known = [h \in Hooks |-> FALSE]
  /\ bind \in [Hooks -> Projects]
  /\ name = [h \in Hooks |-> NoName]
  /\ said = [h \in Hooks |-> FALSE]
  /\ pc = [t \in Threads |-> "idle"]
  /\ batch = [t \in Threads |-> bind[Of[t]]]
  /\ todo = [t \in Threads |-> {}]
  /\ back = [t \in Threads |-> "retry"]
  /\ result = [t \in Threads |-> "ok"]
  /\ tracker = [n \in Names |-> [m \in Messages |-> 0]]
  /\ shared = {} /\ calm = FALSE /\ crashes = 0 /\ rebinds = 0 /\ overlaps = 0

-----------------------------------------------------------------------------
(* What a batch works on *)

Addressed(h) == {m \in Messages : To[m] = <<h, bind[h]>>}

First(S) == {m \in S : Cardinality({k \in S : k < m}) < REPORT_BATCH}

(* unfiled: cached messages for this session without a mark. *)
unfiled(h) == {m \in cache[h] \cap Addressed(h) : mem[h][m].filed = "no"}

(* retry_mirrors: filed, and neither mirrored nor given up.  A message that
   left the cache still takes its place in the batch. *)
outstanding(h) == {m \in Messages : mem[h][m].filed = "filed" /\ mem[h][m].mirror = "no"}

Goto(t, label) == pc' = [pc EXCEPT ![t] = label]

(* The call ends, and what it held with it. *)
Rest(t) == Goto(t, "idle") /\ todo' = [todo EXCEPT ![t] = {}]

Current(t) == CHOOSE m \in todo[t] : \A k \in todo[t] : m <= k
Advance(t, label) == Goto(t, label) /\ todo' = [todo EXCEPT ![t] = @ \ {Current(t)}]
Rebound(h, t) == bind[h] # batch[t]

(* The state's marks become `marks`, in memory or saved as well. *)
Remember(h, marks) == mem' = [mem EXCEPT ![h] = marks] /\ UNCHANGED jour
SaveMarks(h, marks) == mem' = [mem EXCEPT ![h] = marks] /\ jour' = [jour EXCEPT ![h][bind[h]] = marks]

ThreadsOf(h) == {t \in Threads : Of[t] = h}
Resting(h) == \A t \in ThreadsOf(h) : pc[t] = "idle"

Room(cost) == crashes + rebinds + 2 * overlaps + cost <= MaxFaults

(* Threads differ in nothing but their names: a handler takes any that is free. *)
Free(h) == CHOOSE t \in ThreadsOf(h) : pc[t] = "idle"

(* A handler runs when the one before is done, and so is its thread, unless
   that handler was cancelled. *)
Starts(h, t) ==
  /\ pc[t] = "idle" /\ t = Free(h)
  /\ \/ Resting(h) /\ UNCHANGED overlaps
     \/ ~ Resting(h) /\ ~ calm /\ Room(2) /\ overlaps < MaxOverlaps /\ overlaps' = overlaps + 1
  /\ UNCHANGED <<calm, crashes, rebinds>>

-----------------------------------------------------------------------------
(* file_reports *)

(* What retrieve left in the cache is any part of what is addressed to the
   session, and in the end all that did not expire.  The handler saves its
   state on the way. *)
Turn(h, t) ==
  /\ Starts(h, t) /\ SaveMarks(h, mem[h])
  /\ \E C \in SUBSET Addressed(h), k \in BOOLEAN :
       /\ calm => C = Addressed(h) \ Expired /\ k
       /\ cache' = [cache EXCEPT ![h] = C] /\ known' = [known EXCEPT ![h] = k]
  /\ Goto(t, "retry")
  /\ batch' = [batch EXCEPT ![t] = bind[h]]
  /\ todo' = [todo EXCEPT ![t] = First(outstanding(h))]
  /\ result' = [result EXCEPT ![t] = "ok"]
  /\ UNCHANGED <<back, tracker, shared, binding, names>>

(* The name of the queue is resolved outside of file_reports too: when the
   session registers (status) and when local items are published (items). *)
Resolve(h, t) ==
  /\ Starts(h, t) /\ name[h] = NoName
  /\ Goto(t, "ready")
  /\ batch' = [batch EXCEPT ![t] = bind[h]]
  /\ todo' = [todo EXCEPT ![t] = {}]
  /\ result' = [result EXCEPT ![t] = "ok"]
  /\ UNCHANGED <<back, tracker, shared, inbox, state, binding, names>>

(* Mutant: a report whose mirror failed is not looked at again. *)
RetryNone(h, t) ==
  /\ pc[t] = "retry"
  /\ Goto(t, "pending")
  /\ UNCHANGED <<thread, tracker, shared, inbox, state, binding, world, names>>

(* One round of retry_mirrors: what is not in the cache is passed over. *)
Retry(h, t) ==
  /\ pc[t] = "retry"
  /\ IF todo[t] = {} THEN Goto(t, "pending") /\ UNCHANGED <<todo, back>>
     ELSE IF Current(t) \in cache[h]
     THEN Goto(t, "mirror") /\ back' = [back EXCEPT ![t] = "retry"] /\ UNCHANGED todo
     ELSE Advance(t, "retry") /\ UNCHANGED back
  /\ UNCHANGED <<batch, result, tracker, shared, inbox, state, binding, world, names>>

(* The batch of unfiled messages; nothing to do ends the call. *)
Pending(h, t) ==
  /\ pc[t] = "pending"
  /\ batch' = [batch EXCEPT ![t] = bind[h]]
  /\ todo' = [todo EXCEPT ![t] = First(unfiled(h))]
  /\ Goto(t, IF unfiled(h) = {} THEN "idle" ELSE IF name[h] = NoName THEN "ready" ELSE "file")
  /\ UNCHANGED <<back, result, tracker, shared, inbox, state, binding, world, names>>

(* Mutant: a name held by another project is taken over. *)
BindNameTakesOver(h, t) ==
  /\ pc[t] = "ready"
  /\ ReadRegistry(t, bind[h])
  /\ Goto(t, IF Held(registry, bind[h]) = bind[h] THEN "probe" ELSE "claim")
  /\ UNCHANGED <<thread, tracker, shared, inbox, state, binding, world>>

(* Mutant: a name this project already holds is refused too. *)
BindNameOnce(h, t) ==
  /\ pc[t] = "ready"
  /\ \/ Held(registry, bind[h]) # NoProject /\ Goto(t, "idle") /\ UNCHANGED names
     \/ Held(registry, bind[h]) = NoProject /\ Goto(t, "claim") /\ ReadRegistry(t, bind[h])
  /\ UNCHANGED <<thread, tracker, shared, inbox, state, binding, world>>

(* Queue.ready, bind: the registry is read; a name another project holds is
   refused, and nothing is filed. *)
BindName(h, t) ==
  /\ pc[t] = "ready"
  /\ \/ Conflict(registry, bind[h]) /\ Rest(t) /\ UNCHANGED names
     \/ /\ ~ Conflict(registry, bind[h]) /\ ReadRegistry(t, bind[h])
        /\ Goto(t, IF Held(registry, bind[h]) = bind[h] THEN "probe" ELSE "claim")
        /\ UNCHANGED todo
  /\ UNCHANGED <<batch, back, result, tracker, shared, inbox, state, binding, world>>

ClaimName(h, t) ==
  /\ \/ pc[t] = "claim" /\ TruncateRegistry /\ Goto(t, "write")
     \/ pc[t] = "write" /\ WriteRegistry(t) /\ Goto(t, "probe")
  /\ UNCHANGED <<thread, tracker, shared, inbox, state, binding, world>>

(* The queue is listed once; the name is kept unless that fails or the project
   changed meanwhile. *)
Probe(h, t) ==
  /\ pc[t] = "probe"
  /\ \/ /\ asked[t] = bind[h]
        /\ name' = [name EXCEPT ![h] = normalise[asked[t]]]
        /\ Goto(t, IF todo[t] = {} THEN "idle" ELSE "file") /\ UNCHANGED todo
     \/ /\ ~ calm \/ asked[t] # bind[h]
        /\ Rest(t) /\ UNCHANGED name
  /\ CloseRegistry(t)
  /\ UNCHANGED <<bind, said, batch, back, result, tracker, shared, inbox, state, world>>

(* The next message of the batch is refused, or handed to the tracker, whose
   command may fail whether the item landed or not.  After a rebind there is
   no name to hand it to, or no map to mark it in, and the call raises.  The
   end of the batch saves. *)
File(h, t) ==
  /\ pc[t] = "file"
  /\ \/ /\ todo[t] = {}
        /\ SaveMarks(h, mem[h]) /\ Goto(t, "idle")
        /\ UNCHANGED <<todo, result, tracker>>
     \/ /\ todo[t] # {} /\ Current(t) \in Oversize
        /\ Remember(h, [mem[h] EXCEPT ![Current(t)].filed = "refused"])
        /\ Advance(t, "file")
        /\ UNCHANGED <<result, tracker>>
     \/ /\ todo[t] # {}
        /\ IF Current(t) \in Oversize THEN Rebound(h, t) ELSE name[h] = NoName
        /\ Rest(t)
        /\ UNCHANGED <<state, result, tracker>>
     \/ /\ todo[t] # {} /\ Current(t) \notin Oversize /\ name[h] # NoName
        /\ \E landed \in BOOLEAN, r \in {"ok", "error"} :
             /\ r = "ok" => landed
             /\ calm => r = "ok"
             /\ tracker' = IF landed THEN [tracker EXCEPT ![name[h]][Current(t)] = @ + 1] ELSE tracker
             /\ result' = [result EXCEPT ![t] = r]
        /\ Goto(t, "added")
        /\ UNCHANGED <<state, todo>>
  /\ UNCHANGED <<batch, back, shared, inbox, binding, world, names>>

(* Mutants: a failed add is taken for a report that did not land, or that did. *)
FindNothing(h, t) == FALSE
FindAnything(h, t) == name[h] # NoName

(* The add failed: the queue is read back.  It shows the report, or proves it
   absent, or is too long or unreadable and proves nothing. *)
FindFiled(h, t) == name[h] # NoName /\ tracker[name[h]][Current(t)] > 0

ReadBack(h, t) ==
  /\ pc[t] = "added" /\ result[t] = "error"
  /\ \/ /\ FindFiled(h, t)
        /\ Remember(h, [mem[h] EXCEPT ![Current(t)].filed = "filed"])
        /\ Goto(t, "mirror") /\ back' = [back EXCEPT ![t] = "file"] /\ UNCHANGED todo
     \/ /\ name[h] # NoName /\ ~ FindFiled(h, t)
        /\ SaveMarks(h, mem[h]) /\ Rest(t) /\ UNCHANGED back
     \/ /\ name[h] # NoName /\ ~ calm
        /\ Remember(h, [mem[h] EXCEPT ![Current(t)].filed = "unknown"])
        /\ Advance(t, "file") /\ UNCHANGED back
     \/ /\ name[h] = NoName
        /\ Rest(t) /\ UNCHANGED <<state, back>>
  /\ result' = [result EXCEPT ![t] = "ok"]
  /\ UNCHANGED <<batch, tracker, shared, inbox, binding, world, names>>

(* The add succeeded: the mark goes into the state of whatever session the
   hook has by now, if that has a map for it. *)
Added(h, t) ==
  /\ pc[t] = "added" /\ result[t] = "ok"
  /\ \/ /\ Remember(h, [mem[h] EXCEPT ![Current(t)].filed = "filed"])
        /\ Goto(t, "mirror") /\ back' = [back EXCEPT ![t] = "file"]
        /\ UNCHANGED todo
     \/ Rebound(h, t) /\ Rest(t) /\ UNCHANGED <<state, back>>
  /\ UNCHANGED <<batch, result, tracker, shared, inbox, binding, world, names>>

(* mirror ends, and whoever called it goes on. *)
Return(t) == Advance(t, back[t]) /\ back' = [back EXCEPT ![t] = "retry"]

(* mirror: nothing to do, or one request, applied once for each message and
   project, whose answer may be lost. *)
MirrorRequest(h, t) ==
  LET p == bind[h] m == Current(t) IN
  /\ pc[t] = "mirror"
  /\ \/ /\ mem[h][m].mirror # "no" \/ said[h] \/ ~ known[h]
        /\ Return(t)
        /\ UNCHANGED <<batch, result, shared>>
     \/ /\ mem[h][m].mirror = "no" /\ ~ said[h] /\ known[h]
        /\ \E applied \in BOOLEAN, r \in {"ok", "error", "conflict", "forbidden"} :
             /\ applied => p \notin Forbidden /\ <<m, p>> \notin shared
             /\ r = "ok" <=> (applied /\ r # "error")
             /\ r = "forbidden" => p \in Forbidden
             /\ r = "conflict" => p \notin Forbidden /\ <<m, p>> \in shared
             /\ calm => r # "error"
             /\ shared' = IF applied THEN shared \cup {<<m, p>>} ELSE shared
             /\ result' = [result EXCEPT ![t] = r]
        /\ batch' = [batch EXCEPT ![t] = bind[h]]
        /\ Goto(t, "answer") /\ UNCHANGED <<todo, back>>
  /\ UNCHANGED <<tracker, inbox, state, binding, world, names>>

(* The mark of a report whose mirror failed once more. *)
AfterFailure(mark) ==
  IF mark.tries + 1 >= MIRROR_MAX_ATTEMPTS THEN [mark EXCEPT !.mirror = "gave_up", !.tries = 0]
  ELSE [mark EXCEPT !.tries = @ + 1]

(* The answer is noted in the map mirror had before its request: after a
   rebind that map is no longer part of the state, and 403 silences the
   mirror of the new project. *)
MirrorAnswer(h, t) ==
  LET m == Current(t) IN
  /\ pc[t] = "answer"
  /\ IF Rebound(h, t) THEN (IF result[t] = "forbidden" THEN UNCHANGED state ELSE SaveMarks(h, mem[h]))
     ELSE CASE result[t] \in {"ok", "conflict"} ->
                 SaveMarks(h, [mem[h] EXCEPT ![m].mirror = "mirrored"])
            [] result[t] = "error" -> SaveMarks(h, [mem[h] EXCEPT ![m] = AfterFailure(@)])
            [] result[t] = "forbidden" -> UNCHANGED state
  /\ said' = [said EXCEPT ![h] = @ \/ result[t] = "forbidden"]
  /\ Return(t) /\ result' = [result EXCEPT ![t] = "ok"]
  /\ UNCHANGED <<batch, tracker, shared, inbox, bind, name, world, names>>

-----------------------------------------------------------------------------
(* Around the batch *)

(* What the threads of h held is gone. *)
Cleared(local, h, none) == [t \in Threads |-> IF Of[t] = h THEN none ELSE local[t]]

MayRebind(h) == Resting(h) \/ RebindWhileFiling

(* Another project: an open turn is closed and its state saved, and the other
   session's state is loaded.  A thread under way goes on with it. *)
Rebind(h) ==
  /\ MayRebind(h) /\ ~ calm /\ Room(1) /\ rebinds < MaxRebinds /\ rebinds' = rebinds + 1
  /\ \E p \in Projects \ {bind[h]} :
       /\ bind' = [bind EXCEPT ![h] = p]
       /\ mem' = [mem EXCEPT ![h] = jour[h][p]]
  /\ jour' = [jour EXCEPT ![h][bind[h]] = IF Resting(h) THEN @ ELSE mem[h]]
  /\ \E k \in BOOLEAN : known' = [known EXCEPT ![h] = k]
  /\ name' = [name EXCEPT ![h] = NoName]
  /\ said' = [said EXCEPT ![h] = FALSE]
  /\ cache' = [cache EXCEPT ![h] = {}]
  /\ UNCHANGED <<pc, thread, tracker, shared, calm, crashes, overlaps, names>>

(* The process dies between two steps (but not inside the one write of the
   registry, which would leave it empty) and is started again, bound to any
   project. *)
Crash(h) ==
  /\ \A t \in ThreadsOf(h) : pc[t] # "write"
  /\ ~ calm /\ Room(1) /\ crashes < MaxCrashes /\ crashes' = crashes + 1
  /\ pc' = Cleared(pc, h, "idle") /\ todo' = Cleared(todo, h, {})
  /\ back' = Cleared(back, h, "retry") /\ result' = Cleared(result, h, "ok")
  /\ asked' = Cleared(asked, h, NoProject) /\ read' = Cleared(read, h, EmptyRegistry)
  /\ \E p \in Projects :
       /\ bind' = [bind EXCEPT ![h] = p]
       /\ mem' = [mem EXCEPT ![h] = jour[h][p]]
  /\ cache' = [cache EXCEPT ![h] = {}] /\ known' = [known EXCEPT ![h] = FALSE]
  /\ name' = [name EXCEPT ![h] = NoName] /\ said' = [said EXCEPT ![h] = FALSE]
  /\ UNCHANGED <<jour, batch, tracker, shared, calm, rebinds, overlaps, registry>>

(* From here on nothing fails. *)
Calm ==
  /\ ~ calm /\ calm' = TRUE
  /\ UNCHANGED <<pc, thread, tracker, shared, inbox, state, binding, crashes, rebinds, overlaps, names>>

Step(h, t) ==
  \/ Retry(h, t) \/ Pending(h, t) \/ BindName(h, t) \/ ClaimName(h, t) \/ Probe(h, t)
  \/ File(h, t) \/ ReadBack(h, t) \/ Added(h, t) \/ MirrorRequest(h, t) \/ MirrorAnswer(h, t)

Next ==
  \/ Calm
  \/ \E h \in Hooks :
       \/ \E t \in ThreadsOf(h) : Turn(h, t) \/ Resolve(h, t) \/ Step(h, t)
       \/ Rebind(h) \/ Crash(h)

(* Threads go on, people keep asking for turns, whatever else resolves the
   name in between, and faults end. *)
Fairness ==
  /\ WF_vars(Calm)
  /\ \A h \in Hooks :
       /\ SF_vars(\E t \in ThreadsOf(h) : Turn(h, t))
       /\ \A t \in ThreadsOf(h) : WF_vars(Step(h, t))

Spec == Init /\ [][Next]_vars /\ Fairness

-----------------------------------------------------------------------------
(* What filing owes to a teammate's request *)

Sent(m) == To[m][2]
Copies(m) == {n \in Names : tracker[n][m] > 0}

(* A message counts as filed only if its words are in the queue of the
   project it was sent in: filed is what ends every retry (unfiled).  A rebind
   beside a running thread would break it (RebindWhileFiling). *)
FiledIsThere ==
  \A h \in Hooks : \A m \in Messages :
    mem[h][m].filed = "filed" => tracker[normalise[Sent(m)]][m] > 0

(* A message is filed once, and once more at most for each death of the
   process and each thread that was started beside a running one: failed adds,
   time-outs, refusals and evictions never duplicate it, nor does a rebind that
   finds no thread at work (reports.Queue.file, "Ambiguity is resolved by
   reading back, never by retrying"). *)
FiledOnce ==
  \A m \in Messages : \A n \in Names : tracker[n][m] <= 1 + crashes + overlaps

(* No tracker project holds the reports of two teamwork projects
   (queue_name.bind: "refuse if another project holds it").  Two processes
   that claim a name at once break it (MCFilingNames), and so do overlapping
   threads of one process and a third project (MCFilingOverlap). *)
OneBacklog ==
  \A m1, m2 \in Messages :
    Copies(m1) \cap Copies(m2) # {} => Sent(m1) = Sent(m2)

(* Inbound words are mirrored to the project they were sent in and to no
   other (mirror, on_submit: file_reports keeps the records of its batch). *)
MirroredHome == \A s \in shared : s[2] = Sent(s[1])

(* When faults end, a message to the session a hook stays in is filed, unless
   its queue name belongs to another project, it is evicted before, or its fate
   is kept as unknown (unfiled: "is filed on a later turn"). *)
Waiting(h, m) == calm /\ To[m] = <<h, bind[h]>> /\ m \notin Expired
EventuallyFiled ==
  \A h \in Hooks : \A m \in Messages :
    Waiting(h, m) ~> (mem[h][m].filed # "no" \/ Conflict(registry, bind[h]))

(* And a filed one reaches the shared project or is given up, unless that
   project refuses or the batch is full of reports whose messages were
   evicted (retry_mirrors takes the first REPORT_BATCH, cached or not). *)
Starved(h) == Cardinality(outstanding(h) \cap Expired) >= REPORT_BATCH
EventuallyMirrored ==
  \A h \in Hooks : \A m \in Messages :
    (Waiting(h, m) /\ mem[h][m].filed = "filed")
      ~> (mem[h][m].mirror # "no" \/ said[h] \/ Starved(h))
=============================================================================
