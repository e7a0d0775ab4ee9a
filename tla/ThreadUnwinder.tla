--------------------------- MODULE ThreadUnwinder ---------------------------
(***************************************************************************)
(* AndroidLocalUnwinder on several threads, and the unwind of another      *)
(* thread: the requesting thread sends a signal, the target's handler      *)
(* leaves its context in the ThreadEntry of its tid and stands still until *)
(* the unwind is done.  Both sides count wait_value_ up and wait for their *)
(* number, with a timeout.  Entries are shared, reference counted objects. *)
(***************************************************************************)
EXTENDS Integers, FiniteSets

CONSTANTS
  Requester, Target,
  EntryId,       \* bound: entries ever allocated
  MaxRequests,   \* bound: calls of AndroidUnwinder::Unwind
  MaxMoves,      \* bound: steps of a target's own code
  MayFail,       \* what may go wrong: "maps", "sigaction", "tgkill", "exit"
  SlowThreads    \* whether a wait may time out although its wake is on the way

(* None is nobody, no entry and no target; a requester that names itself   *)
(* unwinds its own stack.                                                  *)
ASSUME SlowAssumption == SlowThreads \in BOOLEAN
ASSUME ThreadAssumption == 0 \notin Requester \cup Target /\ Requester \cap Target = {}
ASSUME FiniteAssumption == IsFiniteSet(Requester)
ASSUME EntryAssumption == 0 \notin EntryId

VARIABLES
  initialize_,   \* the once-flag of AndroidUnwinder::Initialize, and its status
  entries_,      \* ThreadEntry::entries_: target -> entry
  entry,         \* the ThreadEntry objects: ref_count_, mutex_, wait_value_, ucontext_
  action,        \* the signal's action
  action_mutex,
  pending,       \* signals queued for each target
  req,           \* each requester: where it is, target, entry, old_action, error
  hnd,           \* each target: where its handler is, and its entry
  moved,         \* how far each target's own code has come
  requests,
  lagging        \* history: targets that ever had two signals unanswered after a timeout

ghosts == << requests, lagging >>  \* the model's own, not the program's

vars == << initialize_, entries_, entry, action, action_mutex, pending, req, hnd, moved, ghosts >>

None == 0
WAIT_FOR_UCONTEXT == 1
WAIT_FOR_UNWIND_TO_COMPLETE == 2
WAIT_FOR_THREAD_TO_RESTART == 3

Free == [ref |-> 0, by |-> None, value |-> 0, ctx |-> 0]

Init ==
  /\ initialize_ = "none"
  /\ entries_ = [t \in Target |-> None]
  /\ entry = [e \in EntryId |-> Free]
  /\ action = "default" /\ action_mutex = None
  /\ pending = [t \in Target |-> 0]
  /\ req = [r \in Requester |-> [at |-> "idle", tid |-> None, entry |-> None, old |-> "default",
                                 error |-> "NONE"]]
  /\ hnd = [t \in Target |-> [at |-> "own", entry |-> None]]
  /\ moved = [t \in Target |-> 0]
  /\ requests = 0 /\ lagging = {}

At(r, l)   == req[r].at = l
To(r, l)   == req' = [req EXCEPT ![r].at = l]
Fails(r, l, e) == req' = [req EXCEPT ![r].at = l, ![r].error = e]
HTo(t, l)  == hnd' = [hnd EXCEPT ![t].at = l]
Wake(e)    == entry' = [entry EXCEPT ![e].value = @ + 1]
----------------------------------------------------------------------------
(* AndroidUnwinder::Unwind of target t, or of the caller itself.           *)
Unwind(r) ==
  /\ At(r, "idle") /\ requests < MaxRequests /\ requests' = requests + 1
  /\ \E t \in Target \cup {r} :
       req' = [req EXCEPT ![r] = [at |-> "initialize", tid |-> t, entry |-> None, old |-> "default",
                                  error |-> "NONE"]]
  /\ UNCHANGED << initialize_, entries_, entry, action, action_mutex, pending, hnd, moved, lagging >>

(* Initialize: the first caller parses the maps, the others wait for it.   *)
(* When it failed the later callers are told nothing of the error.         *)
Initialize(r) ==
  /\ At(r, "initialize")
  /\ \/ initialize_ = "none" /\ initialize_' = "running" /\ To(r, "parse")
     \/ initialize_ = "ok" /\ To(r, IF req[r].tid = r THEN "local" ELSE "send") /\ UNCHANGED initialize_
     \/ initialize_ = "failed" /\ To(r, "idle") /\ UNCHANGED initialize_
  /\ UNCHANGED << entries_, entry, action, action_mutex, pending, hnd, moved, ghosts >>

InternalInitialize(r) ==
  /\ At(r, "parse")
  /\ \/ initialize_' = "ok" /\ To(r, "initialize")
     \/ "maps" \in MayFail /\ initialize_' = "failed" /\ Fails(r, "idle", "MAPS_PARSE")
  /\ UNCHANGED << entries_, entry, action, action_mutex, pending, hnd, moved, ghosts >>

(* InternalUnwind of the calling thread: no signal is needed.              *)
UnwindLocal(r) ==
  /\ At(r, "local") /\ To(r, "idle")
  /\ UNCHANGED << initialize_, entries_, entry, action, action_mutex, pending, hnd, moved, ghosts >>
----------------------------------------------------------------------------
(* SendSignalToThread.                                                     *)
Get_NoRef(t) ==  \* mutant: an entry that is found is not counted
  IF entries_[t] # None THEN UNCHANGED entry
  ELSE entry' = [entry EXCEPT ![CHOOSE e \in EntryId : entry[e].ref = 0] = [Free EXCEPT !.ref = 1]]

(* ThreadEntry::Get, under entries_mutex_.                                 *)
Get(t) ==
  IF entries_[t] # None THEN entry' = [entry EXCEPT ![entries_[t]].ref = @ + 1]
  ELSE entry' = [entry EXCEPT ![CHOOSE e \in EntryId : entry[e].ref = 0] = [Free EXCEPT !.ref = 1]]

Got(t) == IF entries_[t] # None THEN entries_[t] ELSE CHOOSE e \in EntryId : entry[e].ref = 0

GetEntry(r) ==
  LET t == req[r].tid IN
  /\ At(r, "send") /\ action_mutex = None
  /\ entries_[t] # None \/ \E e \in EntryId : entry[e].ref = 0
  /\ action_mutex' = r
  /\ Get(t) /\ entries_' = [entries_ EXCEPT ![t] = Got(t)]
  /\ req' = [req EXCEPT ![r].at = "lock", ![r].entry = Got(t)]
  /\ UNCHANGED << initialize_, action, pending, hnd, moved, ghosts >>

(* ThreadEntry::Lock resets wait_value_.                                   *)
Locked_KeepsValue(e, r) == [entry EXCEPT ![e].by = r]  \* mutant

Locked(e, r) == [entry EXCEPT ![e].by = r, ![e].value = 0]

Lock(r) ==
  /\ At(r, "lock") /\ entry[req[r].entry].by = None
  /\ entry' = Locked(req[r].entry, r)
  /\ To(r, "sigaction")
  /\ UNCHANGED << initialize_, entries_, action, action_mutex, pending, hnd, moved, ghosts >>

Sigaction(r) ==
  /\ At(r, "sigaction")
  /\ \/ action' = "handler" /\ req' = [req EXCEPT ![r].at = "tgkill", ![r].old = action]
     \/ "sigaction" \in MayFail /\ Fails(r, "unlock", "SYSTEM_CALL") /\ UNCHANGED action
  /\ UNCHANGED << initialize_, entries_, entry, action_mutex, pending, hnd, moved, ghosts >>

Gone(t) == hnd[t].at = "gone"

Tgkill(r) ==
  LET t == req[r].tid IN
  /\ At(r, "tgkill")
  /\ \/ /\ ~ Gone(t) /\ pending' = [pending EXCEPT ![t] = @ + 1] /\ To(r, "ucontext")
        /\ UNCHANGED action
     \/ /\ Gone(t) /\ Fails(r, "unlock", "THREAD_DOES_NOT_EXIST")
        /\ action' = req[r].old /\ UNCHANGED pending
     \/ /\ "tgkill" \in MayFail /\ Fails(r, "unlock", "SYSTEM_CALL")
        /\ action' = req[r].old /\ UNCHANGED pending
  /\ UNCHANGED << initialize_, entries_, entry, action_mutex, hnd, moved, ghosts >>

(* ThreadEntry::Wait, until wait_value_ is the number waited for.          *)
WaitUcontext(r) ==
  /\ At(r, "ucontext") /\ entry[req[r].entry].value = WAIT_FOR_UCONTEXT
  /\ To(r, "unwind") /\ action_mutex' = None
  /\ UNCHANGED << initialize_, entries_, entry, action, pending, hnd, moved, ghosts >>

(* A signal that may still come must not find the default action.          *)
AfterTimeout_Old(r) == req[r].old  \* mutant: the old action is always restored

AfterTimeout(r) == IF req[r].old = "default" THEN "log_only" ELSE req[r].old

(* The handler that is about to answer in the entry.                       *)
Answers(r) == hnd[req[r].tid].entry = req[r].entry /\ hnd[req[r].tid].at \notin {"own", "gone"}

(* Signals sent to t whose handler has not woken anybody yet.              *)
InFlight(t) == pending[t] + IF hnd[t].at \in {"get", "copy", "wake"} THEN 1 ELSE 0

UcontextTimeout(r) ==
  /\ At(r, "ucontext") /\ entry[req[r].entry].value # WAIT_FOR_UCONTEXT
  /\ action' = AfterTimeout(r)
  /\ lagging' = lagging \cup {t \in {req[r].tid} : InFlight(t) > 1}
  /\ Fails(r, "unlock", IF Gone(req[r].tid) THEN "THREAD_DOES_NOT_EXIST" ELSE "THREAD_TIMEOUT")
  /\ UNCHANGED << initialize_, entries_, entry, action_mutex, pending, hnd, moved, requests >>

(* UnwindWithSignal, once it has the entry: the unwind, Wake, Wait.        *)
UnwindDone(r) ==
  /\ At(r, "unwind") /\ Wake(req[r].entry) /\ To(r, "restart")
  /\ UNCHANGED << initialize_, entries_, action, action_mutex, pending, hnd, moved, ghosts >>

WaitRestart(r) ==
  /\ At(r, "restart")
  /\ \/ entry[req[r].entry].value = WAIT_FOR_THREAD_TO_RESTART
     \/ entry[req[r].entry].value # WAIT_FOR_THREAD_TO_RESTART /\ (SlowThreads \/ ~ Answers(r))
  /\ To(r, "unlock")
  /\ UNCHANGED << initialize_, entries_, entry, action, action_mutex, pending, hnd, moved, ghosts >>

(* ThreadEntry::Remove: Unlock, then the count under entries_mutex_.       *)
Unlock_Not(r) == UNCHANGED entry  \* mutant: the entry stays locked

Unlock(r) == entry' = [entry EXCEPT ![req[r].entry].by = None]

RemoveUnlock(r) ==
  /\ At(r, "unlock") /\ Unlock(r) /\ To(r, "remove")
  /\ UNCHANGED << initialize_, entries_, action, action_mutex, pending, hnd, moved, ghosts >>

Remove(r) ==
  LET e == req[r].entry
      t == req[r].tid
  IN
  /\ At(r, "remove")
  /\ entry' = [entry EXCEPT ![e].ref = @ - 1]
  /\ entries_' = IF entry[e].ref = 1 THEN [entries_ EXCEPT ![t] = None] ELSE entries_
  /\ req' = [req EXCEPT ![r].at = "idle", ![r].entry = None]
  /\ action_mutex' = IF action_mutex = r THEN None ELSE action_mutex
  /\ UNCHANGED << initialize_, action, pending, hnd, moved, ghosts >>
----------------------------------------------------------------------------
(* The target: its own code, the signal's delivery, SignalHandler.         *)
Moves(t) ==
  /\ hnd[t].at = "own" /\ moved[t] < MaxMoves
  /\ moved' = [moved EXCEPT ![t] = @ + 1]
  /\ UNCHANGED << initialize_, entries_, entry, action, action_mutex, pending, req, hnd, ghosts >>

Exits(t) ==
  /\ hnd[t].at = "own" /\ "exit" \in MayFail
  /\ HTo(t, "gone") /\ pending' = [pending EXCEPT ![t] = 0]
  /\ UNCHANGED << initialize_, entries_, entry, action, action_mutex, req, moved, ghosts >>

Deliver(t) ==
  /\ hnd[t].at = "own" /\ pending[t] > 0
  /\ pending' = [pending EXCEPT ![t] = @ - 1]
  /\ HTo(t, CASE action = "handler" -> "get" [] action = "log_only" -> "own" [] OTHER -> "killed")
  /\ UNCHANGED << initialize_, entries_, entry, action, action_mutex, req, moved, ghosts >>

HandlerGet(t) ==
  /\ hnd[t].at = "get"
  /\ \/ /\ entries_[t] # None /\ Get(t)
        /\ hnd' = [hnd EXCEPT ![t] = [at |-> "copy", entry |-> entries_[t]]]
     \/ entries_[t] = None /\ HTo(t, "own") /\ UNCHANGED entry
  /\ UNCHANGED << initialize_, entries_, action, action_mutex, pending, req, moved, ghosts >>

(* CopyUcontextFromSigcontext.                                             *)
HandlerCopy(t) ==
  /\ hnd[t].at = "copy"
  /\ entry' = [entry EXCEPT ![hnd[t].entry].ctx = moved[t]]
  /\ HTo(t, "wake")
  /\ UNCHANGED << initialize_, entries_, action, action_mutex, pending, req, moved, ghosts >>

HandlerWake(t) ==
  /\ hnd[t].at = "wake" /\ Wake(hnd[t].entry) /\ HTo(t, "complete")
  /\ UNCHANGED << initialize_, entries_, action, action_mutex, pending, req, moved, ghosts >>

HandlerWait(t) ==
  /\ hnd[t].at = "complete"
  /\ entry[hnd[t].entry].value = WAIT_FOR_UNWIND_TO_COMPLETE
  /\ HTo(t, "wake_again")
  /\ UNCHANGED << initialize_, entries_, entry, action, action_mutex, pending, req, moved, ghosts >>

(* A requester has the context, or will see that it is there: it takes     *)
(* less time to unwind and to wake the handler than the handler waits.     *)
Unwinding(t) ==
  \E r \in Requester :
    /\ req[r].entry = hnd[t].entry
    /\ req[r].at \in {"sigaction", "tgkill", "ucontext", "unwind"}
    /\ entry[hnd[t].entry].value = WAIT_FOR_UCONTEXT

HandlerTimeout(t) ==
  /\ hnd[t].at = "complete"
  /\ entry[hnd[t].entry].value # WAIT_FOR_UNWIND_TO_COMPLETE
  /\ SlowThreads \/ ~ Unwinding(t)
  /\ hnd' = [hnd EXCEPT ![t] = [at |-> "own", entry |-> None]]
  /\ UNCHANGED << initialize_, entries_, entry, action, action_mutex, pending, req, moved, ghosts >>

HandlerWakeAgain(t) ==
  /\ hnd[t].at = "wake_again" /\ Wake(hnd[t].entry)
  /\ hnd' = [hnd EXCEPT ![t] = [at |-> "own", entry |-> None]]
  /\ UNCHANGED << initialize_, entries_, action, action_mutex, pending, req, moved, ghosts >>
----------------------------------------------------------------------------
RequesterStep(r) ==
  \/ Initialize(r) \/ InternalInitialize(r) \/ UnwindLocal(r)
  \/ GetEntry(r) \/ Lock(r) \/ Sigaction(r) \/ Tgkill(r)
  \/ WaitUcontext(r) \/ UcontextTimeout(r) \/ UnwindDone(r) \/ WaitRestart(r)
  \/ RemoveUnlock(r) \/ Remove(r)

HandlerStep(t) ==
  \/ HandlerGet(t) \/ HandlerCopy(t) \/ HandlerWake(t) \/ HandlerWait(t)
  \/ HandlerTimeout(t) \/ HandlerWakeAgain(t)

Next ==
  \/ \E r \in Requester : Unwind(r) \/ RequesterStep(r)
  \/ \E t \in Target : Moves(t) \/ Exits(t) \/ Deliver(t) \/ HandlerStep(t)

(* Threads inside the library run, and waits end; a signal need never be   *)
(* delivered.                                                              *)
Fairness ==
  /\ \A r \in Requester : WF_vars(RequesterStep(r))
  /\ \A t \in Target : WF_vars(HandlerStep(t))

Spec == Init /\ [][Next]_vars /\ Fairness
----------------------------------------------------------------------------
(* Nobody uses an entry that was deleted: not the requester, and not the   *)
(* handler of a signal that arrives after the requester gave up.           *)
EntryAlive ==
  /\ \A r \in Requester : req[r].entry # None => entry[req[r].entry].ref > 0
  /\ \A t \in Target : hnd[t].entry # None /\ hnd[t].at # "own" => entry[hnd[t].entry].ref > 0

(* While the stack of a thread is being unwound the thread stands still in *)
(* its handler, at the very place the context says, and it is the only     *)
(* unwind with that entry.  The context may come from the late signal of   *)
(* an earlier request that timed out.  Not so once two signals are late:   *)
(* the second of them takes the first one's Wake for the requester's.      *)
PausedForUnwind ==
  \A r \in Requester : At(r, "unwind") /\ req[r].tid \notin lagging =>
    LET e == req[r].entry
        t == req[r].tid
    IN  /\ hnd[t].at = "complete" /\ hnd[t].entry = e /\ entry[e].ctx = moved[t]
        /\ \A s \in Requester \ {r} : At(s, "unwind") => req[s].entry # e

(* A signal that was sent never finds the default action, which would end  *)
(* the process, however late it is delivered.                              *)
NeverDefault ==
  /\ \A t \in Target : pending[t] > 0 => action # "default"
  /\ \A t \in Target : hnd[t].at # "killed"

(* Every unwind returns and every handler lets its thread go on, also when *)
(* signals are never delivered, the target is gone, or two requests for    *)
(* the same thread cross.                                                  *)
RequestsReturn ==
  /\ \A r \in Requester : req[r].at # "idle" ~> req[r].at = "idle"
  /\ \A t \in Target : hnd[t].at \notin {"own", "gone", "killed"} ~> hnd[t].at = "own"
----------------------------------------------------------------------------
(* The inductive invariant, for ThreadUnwinder_proofs.                     *)
Actions == {"default", "handler", "log_only"}
Holding == {"lock", "sigaction", "tgkill", "ucontext", "unwind", "restart", "unlock", "remove"}
Locking == {"sigaction", "tgkill", "ucontext", "unwind", "restart", "unlock"}
Answering == {"copy", "wake", "complete", "wake_again"}
Active == {"sigaction", "tgkill", "ucontext", "unwind", "restart"}

EntryType == [ref : Nat, by : Requester \cup {None}, value : Nat, ctx : Nat]
RequestType == [at : {"idle", "initialize", "parse", "local", "send"} \cup Holding,
                tid : Requester \cup Target \cup {None}, entry : EntryId \cup {None},
                old : Actions,
                error : {"NONE", "MAPS_PARSE", "SYSTEM_CALL", "THREAD_TIMEOUT",
                         "THREAD_DOES_NOT_EXIST"}]
HandlerType == [at : {"own", "gone", "killed", "get"} \cup Answering,
                entry : EntryId \cup {None}]

TypeOK ==
  /\ initialize_ \in {"none", "running", "ok", "failed"}
  /\ entries_ \in [Target -> EntryId \cup {None}]
  /\ entry \in [EntryId -> EntryType]
  /\ action \in Actions /\ action_mutex \in Requester \cup {None}
  /\ pending \in [Target -> Nat]
  /\ req \in [Requester -> RequestType] /\ hnd \in [Target -> HandlerType]
  /\ moved \in [Target -> Nat] /\ requests \in Nat /\ lagging \in SUBSET Target

(* Who holds an entry holds the one entries_ has for the target.           *)
EntriesFollow ==
  /\ \A t \in Target : entries_[t] # None => entry[entries_[t]].ref > 0
  /\ \A t, u \in Target : entries_[t] # None /\ entries_[t] = entries_[u] => t = u
  /\ \A r \in Requester :
       /\ req[r].at \in {"initialize", "parse"} => req[r].tid \in Target \cup {r}
       /\ req[r].at = "send" => req[r].tid \in Target
       /\ IF req[r].at \in Holding
          THEN req[r].entry # None /\ req[r].tid \in Target /\ entries_[req[r].tid] = req[r].entry
          ELSE req[r].entry = None
  /\ \A t \in Target :
       IF hnd[t].at \in Answering
       THEN hnd[t].entry # None /\ entries_[t] = hnd[t].entry
       ELSE hnd[t].entry = None

(* A handler never gives its reference back, so it counts for good.        *)
Holders(e) == {r \in Requester : req[r].entry = e}

RefsCover ==
  \A e \in EntryId :
    /\ entry[e].ref >= Cardinality(Holders(e))
    /\ \A t \in Target : hnd[t].entry = e => entry[e].ref > Cardinality(Holders(e))

MutexesHeld ==
  \A r \in Requester :
    /\ req[r].at \in {"lock", "sigaction", "tgkill", "ucontext"} => action_mutex = r
    /\ req[r].at \in Locking => entry[req[r].entry].by = r

(* While one requester may put the old action back nobody else sends.      *)
ActionRight ==
  /\ \A t \in Target : pending[t] > 0 => action # "default"
  /\ \A r \in Requester : At(r, "tgkill") =>
       action = "handler" /\ \A t \in Target : pending[t] > 0 => req[r].old # "default"
  /\ \A t \in Target : hnd[t].at # "killed"

UseInv == TypeOK /\ EntriesFollow /\ RefsCover /\ MutexesHeld /\ ActionRight

(* What wait_value_ says of the two sides, while no target lags.  At most  *)
(* one signal is in flight but for the one a requester waits for, and the  *)
(* handlers' wakes since the last Lock use the signals up.                 *)
Standing(t) == hnd[t].at = "complete" /\ entry[hnd[t].entry].ctx = moved[t]

SignalsFew(t) ==
  /\ (\A r \in Requester : At(r, "ucontext") => req[r].tid # t) => InFlight(t) <= 1
  /\ \A r \in Requester : At(r, "ucontext") /\ req[r].tid = t =>
       InFlight(t) + entry[entries_[t]].value <= 2
  /\ /\ entries_[t] # None /\ entry[entries_[t]].value <= 1
     /\ \A r \in Requester : req[r].at \in {"ucontext", "unwind"} => req[r].tid # t
     => InFlight(t) + entry[entries_[t]].value <= 1

ValueTells(t) ==
  /\ hnd[t].at \in {"wake", "complete"} => entry[hnd[t].entry].ctx = moved[t]
  /\ hnd[t].at = "wake_again" => entry[hnd[t].entry].value = 2
  /\ entries_[t] # None /\ entry[entries_[t]].value = 2 =>
       /\ hnd[t].at \in {"complete", "wake_again"}
       /\ \E r \in Requester : At(r, "restart") /\ req[r].entry = entries_[t]
  /\ \A r \in Requester : req[r].entry # None /\ req[r].tid = t =>
       /\ req[r].at \in {"sigaction", "tgkill", "ucontext", "unwind"} =>
            entry[req[r].entry].value <= 1 /\ (entry[req[r].entry].value = 1 => Standing(t))
       /\ At(r, "unwind") => entry[req[r].entry].value = 1
       /\ At(r, "restart") => entry[req[r].entry].value >= 2

HandshakeInv == \A t \in Target \ lagging : SignalsFew(t) /\ ValueTells(t)
=============================================================================
