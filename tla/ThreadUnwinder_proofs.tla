----------------------- MODULE ThreadUnwinder_proofs -----------------------
(***************************************************************************)
(* Proofs about ThreadUnwinder: entries outlive their users and signals    *)
(* never meet the default action, whatever the threads' speed (UseInv);    *)
(* and a thread stands while its stack is unwound (HandshakeInv).          *)
(***************************************************************************)
EXTENDS ThreadUnwinder, TLAPS, FiniteSetTheorems

(* Reference counting: only finitely many requesters hold an entry.        *)
LEMMA HoldersFinite ==
  ASSUME NEW e
  PROVE  IsFiniteSet(Holders(e)) /\ Cardinality(Holders(e)) \in Nat
<1>1. Holders(e) \subseteq Requester
  BY DEF Holders
<1> QED BY <1>1, FS_Subset, FS_CardinalityType, FiniteAssumption

(* A step that gives nobody a new entry keeps the counts.                  *)
LEMMA RefsKeep ==
  ASSUME RefsCover,
         \A r \in Requester : req'[r].entry = req[r].entry,
         \A e \in EntryId : entry'[e].ref = entry[e].ref,
         \A t \in Target : hnd'[t].entry # None => hnd'[t].entry = hnd[t].entry
  PROVE  RefsCover'
<1>1. \A e : Holders(e)' = Holders(e)
  BY DEF Holders
<1> QED BY <1>1, EntryAssumption DEF RefsCover, None

----------------------------------------------------------------------------
(* UseInv in the initial state.                                            *)
LEMMA UseInit == Init => UseInv
<1> SUFFICES ASSUME Init PROVE UseInv
  OBVIOUS
<1> USE DEF Init, None
<1>1. TypeOK
  BY DEF TypeOK, Free, Actions, EntryType, RequestType, HandlerType
<1>2. EntriesFollow /\ MutexesHeld /\ ActionRight
  BY DEF EntriesFollow, MutexesHeld, ActionRight, At, Holding, Locking, Answering
<1>3. RefsCover
  <2> SUFFICES ASSUME NEW e \in EntryId
               PROVE  entry[e].ref >= Cardinality(Holders(e))
    BY EntryAssumption DEF RefsCover
  <2>1. Holders(e) = {}
    BY EntryAssumption DEF Holders
  <2> QED BY <2>1, FS_EmptySet DEF Free
<1> QED BY <1>1, <1>2, <1>3 DEF UseInv

(* The steps of a request that touch no entry.                             *)
LEMMA UseCalls ==
  ASSUME UseInv, NEW r \in Requester,
         Unwind(r) \/ Initialize(r) \/ InternalInitialize(r) \/ UnwindLocal(r)
  PROVE  UseInv'
<1> USE DEF UseInv, At, To, Fails, None, ghosts
<1>1. TypeOK'
  <2> USE DEF TypeOK, RequestType, Actions, Holding
  <2>1. CASE Unwind(r)
    BY <2>1 DEF Unwind
  <2>2. CASE Initialize(r)
    BY <2>2 DEF Initialize
  <2>3. CASE InternalInitialize(r)
    BY <2>3 DEF InternalInitialize
  <2>4. CASE UnwindLocal(r)
    BY <2>4 DEF UnwindLocal
  <2> QED BY <2>1, <2>2, <2>3, <2>4
<1>2. /\ UNCHANGED << entries_, entry, action, action_mutex, pending, hnd, moved >>
      /\ req[r].at \notin Holding /\ req'[r].at \notin Holding /\ req'[r].entry = None
      /\ req'[r].at \in {"initialize", "parse"} => req'[r].tid \in Target \cup {r}
      /\ req'[r].at = "send" => req'[r].tid \in Target
      /\ \A s \in Requester \ {r} : req'[s] = req[s]
  BY
     DEF TypeOK, RequestType, EntriesFollow, Unwind, Initialize, InternalInitialize, UnwindLocal,
         Holding
<1>3. EntriesFollow'
  BY <1>2 DEF EntriesFollow, Holding
<1>4. RefsCover'
  BY <1>2, RefsKeep DEF EntriesFollow
<1>5. MutexesHeld' /\ ActionRight'
  BY <1>2 DEF MutexesHeld, ActionRight, Locking, Holding
<1> QED BY <1>1, <1>3, <1>4, <1>5

(* The steps of a request that holds its entry and keeps it.               *)
LEMMA UseHolding ==
  ASSUME UseInv, NEW r \in Requester, TypeOK', MutexesHeld', ActionRight',
         UNCHANGED << entries_, hnd >>,
         req[r].at \in Holding, req'[r].at \in Holding,
         req'[r].entry = req[r].entry, req'[r].tid = req[r].tid,
         \A s \in Requester \ {r} : req'[s] = req[s],
         \A e \in EntryId : entry'[e].ref = entry[e].ref
  PROVE  UseInv'
<1> USE DEF UseInv
<1>1. EntriesFollow'
  BY DEF EntriesFollow, Holding, TypeOK, None
<1>2. RefsCover'
  BY RefsKeep
<1> QED BY <1>1, <1>2

(* From Lock to Unlock: one step per operation of a request.               *)
LEMMA UseSends ==
  ASSUME UseInv, NEW r \in Requester,
         \/ Lock(r) \/ Sigaction(r) \/ Tgkill(r) \/ WaitUcontext(r) \/ UcontextTimeout(r)
         \/ UnwindDone(r) \/ WaitRestart(r) \/ RemoveUnlock(r)
  PROVE  UseInv'
<1> DEFINE e == req[r].entry
<1> USE DEF UseInv, At, To, Fails, Wake, ghosts, Locked, Unlock
<1>1. /\ req[r].at \in Holding /\ e \in EntryId /\ req[r].tid \in Target
      /\ entry[e] \in EntryType
  BY DEF TypeOK, RequestType, EntriesFollow, Holding, Lock, Sigaction, Tgkill, WaitUcontext,
         UcontextTimeout, UnwindDone, WaitRestart, RemoveUnlock
<1>2. CASE Lock(r)
  <2>1. /\ entry' \in [EntryId -> EntryType]
        /\ entry'[e].ref = entry[e].ref /\ entry'[e].by = r
        /\ \A d \in EntryId \ {e} : entry'[d] = entry[d]
    BY <1>1, <1>2 DEF Lock, TypeOK, EntryType
  <2>2. TypeOK'
    BY <1>1, <1>2, <2>1 DEF Lock, TypeOK, RequestType, Holding
  <2>3. MutexesHeld' /\ ActionRight'
    <3>1. /\ req'[r].at = "sigaction" /\ req'[r].entry = e /\ req'[r].old = req[r].old
          /\ \A s \in Requester \ {r} : req'[s] = req[s]
          /\ entry[e].by = None /\ req[r].at = "lock" /\ UNCHANGED << action, action_mutex, pending, hnd >>
      BY <1>2 DEF Lock, TypeOK, RequestType
    <3>2. ActionRight'
      BY <3>1 DEF ActionRight
    <3>3. ASSUME NEW s \in Requester \ {r}, req[s].at \in Locking
          PROVE  entry'[req[s].entry].by = s
      BY <1>1, <2>1, <3>1, <3>3, ThreadAssumption
         DEF MutexesHeld, EntriesFollow, Locking, Holding, None, TypeOK, RequestType
    <3> QED BY <2>1, <3>1, <3>2, <3>3 DEF MutexesHeld
  <2> QED BY <1>1, <1>2, <2>1, <2>2, <2>3, UseHolding DEF Lock, TypeOK, RequestType, Holding
<1>3. CASE Sigaction(r)
  <2>1. TypeOK'
    BY <1>1, <1>3 DEF Sigaction, TypeOK, RequestType, Holding, Actions
  <2>2. MutexesHeld' /\ ActionRight'
    BY <1>1, <1>3 DEF Sigaction, TypeOK, RequestType, MutexesHeld, ActionRight, Locking
  <2> QED BY <1>1, <1>3, <2>1, <2>2, UseHolding DEF Sigaction, TypeOK, RequestType, Holding
<1>4. CASE Tgkill(r)
  <2>1. TypeOK'
    BY <1>1, <1>4 DEF Tgkill, TypeOK, RequestType, Holding, Actions
  <2>2. MutexesHeld'
    BY <1>1, <1>4 DEF Tgkill, TypeOK, RequestType, MutexesHeld, Locking
  <2>3. ActionRight'
    BY <1>1, <1>4 DEF Tgkill, TypeOK, RequestType, ActionRight, MutexesHeld
  <2> QED BY <1>1, <1>4, <2>1, <2>2, <2>3, UseHolding DEF Tgkill, TypeOK, RequestType, Holding
<1>5. CASE WaitUcontext(r)
  <2>1. TypeOK'
    BY <1>1, <1>5 DEF WaitUcontext, TypeOK, RequestType, Holding
  <2>2. MutexesHeld' /\ ActionRight'
    BY <1>1, <1>5 DEF WaitUcontext, TypeOK, RequestType, MutexesHeld, ActionRight, Locking
  <2> QED BY <1>1, <1>5, <2>1, <2>2, UseHolding DEF WaitUcontext, TypeOK, RequestType, Holding
<1>6. CASE UcontextTimeout(r)
  <2>1. TypeOK'
    <3>1. lagging' \in SUBSET Target
      BY <1>1, <1>6 DEF UcontextTimeout, TypeOK
    <3>2. req' \in [Requester -> RequestType]
      <4>1. PICK error \in {"THREAD_DOES_NOT_EXIST", "THREAD_TIMEOUT"} :
              req' = [req EXCEPT ![r].at = "unlock", ![r].error = error]
        BY <1>6 DEF UcontextTimeout
      <4>2. [req[r] EXCEPT !.at = "unlock", !.error = error] \in RequestType
        BY DEF TypeOK, RequestType, Holding
      <4> QED BY <4>1, <4>2 DEF TypeOK
    <3>3. action' \in Actions
      BY <1>1, <1>6 DEF UcontextTimeout, AfterTimeout, TypeOK, RequestType, Actions
    <3> QED BY <1>1, <1>6, <3>1, <3>2, <3>3 DEF UcontextTimeout, TypeOK
  <2>2. MutexesHeld'
    BY <1>1, <1>6 DEF UcontextTimeout, TypeOK, RequestType, MutexesHeld, Locking
  <2>3. ActionRight'
    BY <1>1, <1>6 DEF UcontextTimeout, AfterTimeout, TypeOK, RequestType, ActionRight, MutexesHeld
  <2> QED BY <1>1, <1>6, <2>1, <2>2, <2>3, UseHolding
             DEF UcontextTimeout, TypeOK, RequestType, Holding
<1>7. CASE UnwindDone(r)
  <2>1. TypeOK'
    BY <1>1, <1>7 DEF UnwindDone, TypeOK, RequestType, EntryType, Holding
  <2>2. MutexesHeld' /\ ActionRight'
    BY <1>1, <1>7 DEF UnwindDone, TypeOK, RequestType, EntryType, MutexesHeld, ActionRight, Locking
  <2> QED BY <1>1, <1>7, <2>1, <2>2, UseHolding
             DEF UnwindDone, TypeOK, RequestType, EntryType, Holding
<1>8. CASE WaitRestart(r)
  <2>1. TypeOK'
    BY <1>1, <1>8 DEF WaitRestart, TypeOK, RequestType, Holding
  <2>2. MutexesHeld' /\ ActionRight'
    BY <1>1, <1>8 DEF WaitRestart, TypeOK, RequestType, MutexesHeld, ActionRight, Locking
  <2> QED BY <1>1, <1>8, <2>1, <2>2, UseHolding DEF WaitRestart, TypeOK, RequestType, Holding
<1>9. CASE RemoveUnlock(r)
  <2>1. TypeOK'
    BY <1>1, <1>9 DEF RemoveUnlock, TypeOK, RequestType, EntryType, Holding
  <2>2. MutexesHeld' /\ ActionRight'
    BY <1>1, <1>9, ThreadAssumption
       DEF RemoveUnlock, TypeOK, RequestType, EntryType, MutexesHeld, ActionRight, Locking, None
  <2> QED BY <1>1, <1>9, <2>1, <2>2, UseHolding
             DEF RemoveUnlock, TypeOK, RequestType, EntryType, Holding
<1> QED BY <1>2, <1>3, <1>4, <1>5, <1>6, <1>7, <1>8, <1>9

(* The entry that ThreadEntry::Get returns, and what it makes of it.       *)
LEMMA GotEntry ==
  ASSUME UseInv, NEW t \in Target, Get(t),
         entries_[t] # None \/ \E e \in EntryId : entry[e].ref = 0
  PROVE  /\ Got(t) \in EntryId /\ entry' \in [EntryId -> EntryType]
         /\ entry'[Got(t)].ref = entry[Got(t)].ref + 1
         /\ entries_[t] # None => Got(t) = entries_[t]
         /\ entries_[t] # None => entry'[Got(t)].by = entry[Got(t)].by
         /\ entries_[t] # None => entry'[Got(t)].value = entry[Got(t)].value
         /\ entries_[t] # None => entry'[Got(t)].ctx = entry[Got(t)].ctx
         /\ entries_[t] = None => entry[Got(t)].ref = 0 /\ entry'[Got(t)].value = 0
         /\ \A d \in EntryId \ {Got(t)} : entry'[d] = entry[d]
<1> USE DEF UseInv, TypeOK, EntryType
<1>1. CASE entries_[t] # None
  BY <1>1 DEF Get, Got
<1>2. CASE entries_[t] = None
  <2> DEFINE e == CHOOSE e \in EntryId : entry[e].ref = 0
  <2>1. e \in EntryId /\ entry[e].ref = 0
    BY <1>2
  <2>2. Got(t) = e /\ entry' = [entry EXCEPT ![e] = [Free EXCEPT !.ref = 1]]
    BY <1>2 DEF Get, Got
  <2> HIDE DEF e
  <2> QED BY <1>2, <2>1, <2>2 DEF Free
<1> QED BY <1>1, <1>2

(* SendSignalToThread's Get counts the requester before anybody sees it.   *)
LEMMA UseGet ==
  ASSUME UseInv, NEW r \in Requester, GetEntry(r)
  PROVE  UseInv'
<1> USE DEF UseInv, At, ghosts
<1>0. PICK t : t = req[r].tid
  OBVIOUS
<1>1. t \in Target /\ req[r].at = "send" /\ req[r].entry = None
  BY <1>0 DEF GetEntry, EntriesFollow, Holding
<1>e. PICK e : e = Got(t)
  OBVIOUS
<1>2. /\ e \in EntryId /\ entry' \in [EntryId -> EntryType]
      /\ entry'[e].ref = entry[e].ref + 1
      /\ entries_[t] # None => e = entries_[t] /\ entry'[e].by = entry[e].by
      /\ entries_[t] = None => entry[e].ref = 0
      /\ \A d \in EntryId \ {e} : entry'[d] = entry[d]
  BY <1>0, <1>e, <1>1, GotEntry DEF GetEntry
<1>3. /\ entries_' = [entries_ EXCEPT ![t] = e] /\ action_mutex = None /\ action_mutex' = r
      /\ req'[r].at = "lock" /\ req'[r].entry = e /\ req'[r].tid = t
      /\ \A s \in Requester \ {r} : req'[s] = req[s]
      /\ UNCHANGED << initialize_, action, pending, hnd, moved, ghosts >>
  BY <1>0, <1>e DEF GetEntry, TypeOK, RequestType
<1>4. req' \in [Requester -> RequestType]
  <2>1. [req[r] EXCEPT !.at = "lock", !.entry = e] \in RequestType
    BY <1>2 DEF TypeOK, RequestType, Holding
  <2> QED BY <1>0, <1>e, <2>1 DEF GetEntry, TypeOK
<1>5. TypeOK'
  BY <1>1, <1>2, <1>3, <1>4 DEF TypeOK
<1>6. entries_[t] = None => Holders(e) = {} /\ \A u \in Target : entries_[u] # e /\ hnd[u].entry # e
  <2> SUFFICES ASSUME entries_[t] = None PROVE Holders(e) = {} /\ \A u \in Target : entries_[u] # e /\ hnd[u].entry # e
    OBVIOUS
  <2>1. Cardinality(Holders(e)) = 0 /\ \A u \in Target : hnd[u].entry # e
    BY <1>2, HoldersFinite DEF RefsCover
  <2>2. \A u \in Target : entries_[u] # e
    BY <1>2, EntryAssumption DEF EntriesFollow, None, TypeOK
  <2>3. Holders(e) = {}
    BY <2>1, HoldersFinite, FS_EmptySet
  <2> QED BY <2>1, <2>2, <2>3
<1>7. EntriesFollow'
  <2>1. \A u \in Target : entries_'[u] # None => entry'[entries_'[u]].ref > 0
    BY <1>1, <1>2, <1>3 DEF EntriesFollow, TypeOK, EntryType
  <2>2. \A u, v \in Target : entries_'[u] # None /\ entries_'[u] = entries_'[v] => u = v
    BY <1>1, <1>2, <1>3, <1>6 DEF EntriesFollow, TypeOK
  <2>3. \A s \in Requester :
           /\ req'[s].at \in {"initialize", "parse"} => req'[s].tid \in Target \cup {s}
           /\ req'[s].at = "send" => req'[s].tid \in Target
           /\ IF req'[s].at \in Holding
              THEN req'[s].entry # None /\ req'[s].tid \in Target /\ entries_'[req'[s].tid] = req'[s].entry
              ELSE req'[s].entry = None
    <3> TAKE s \in Requester
    <3>1. CASE s = r
      BY <1>1, <1>2, <1>3, <3>1, EntryAssumption DEF Holding, TypeOK, None
    <3>2. CASE s # r
      BY <1>1, <1>2, <1>3, <3>2, EntryAssumption DEF EntriesFollow, TypeOK, None
    <3> QED BY <3>1, <3>2
  <2>4. \A u \in Target :
          IF hnd'[u].at \in Answering THEN hnd'[u].entry # None /\ entries_'[u] = hnd'[u].entry
          ELSE hnd'[u].entry = None
    BY <1>1, <1>2, <1>3 DEF EntriesFollow, TypeOK
  <2> QED BY <2>1, <2>2, <2>3, <2>4 DEF EntriesFollow
<1>8. RefsCover'
  <2> SUFFICES ASSUME NEW d \in EntryId
               PROVE  /\ entry'[d].ref >= Cardinality(Holders(d)')
                      /\ \A u \in Target : hnd[u].entry = d => entry'[d].ref > Cardinality(Holders(d)')
    BY <1>3 DEF RefsCover
  <2>1. CASE d # e
    <3>1. \A s \in Requester : req'[s].entry = d <=> req[s].entry = d
      BY <1>1, <1>3, <2>1, EntryAssumption DEF None
    <3>2. Holders(d)' = Holders(d)
      BY <3>1 DEF Holders
    <3> QED BY <1>2, <2>1, <3>2 DEF RefsCover
  <2>2. CASE d = e
    <3>0. \A s \in Requester : req'[s].entry = e <=> s = r \/ req[s].entry = e
      BY <1>3
    <3>1. Holders(e)' = Holders(e) \cup {r} /\ r \notin Holders(e)
      BY <1>1, <1>2, <3>0, EntryAssumption DEF Holders, None
    <3>2. Cardinality(Holders(e)') = Cardinality(Holders(e)) + 1
      BY <3>1, HoldersFinite, FS_AddElement
    <3> QED BY <1>2, <2>2, <3>2, HoldersFinite DEF RefsCover, TypeOK, EntryType
  <2> QED BY <2>1, <2>2
<1>9. MutexesHeld'
  <2>1. ASSUME NEW s \in Requester \ {r}, req[s].at \in Locking
        PROVE  entry'[req[s].entry].by = s
    <3>1. req[s].entry \in EntryId /\ entry[req[s].entry].by = s /\ s \in Holders(req[s].entry)
      BY <2>1 DEF MutexesHeld, EntriesFollow, Locking, Holding, TypeOK, RequestType, Holders, None
    <3> QED BY <1>2, <1>6, <3>1
  <2> QED BY <1>1, <1>3, <2>1, ThreadAssumption DEF MutexesHeld, Locking, None
<1>10. ActionRight'
  BY <1>1, <1>3 DEF ActionRight
<1> QED BY <1>5, <1>7, <1>8, <1>9, <1>10

(* ThreadEntry::Remove: the last reference takes the entry off the map.    *)
LEMMA UseRemove ==
  ASSUME UseInv, NEW r \in Requester, Remove(r)
  PROVE  UseInv'
<1> USE DEF UseInv, At, ghosts
<1>0. PICK t, e : t = req[r].tid /\ e = req[r].entry
  OBVIOUS
<1>1. t \in Target /\ e \in EntryId /\ req[r].at = "remove" /\ entries_[t] = e
  BY <1>0 DEF Remove, EntriesFollow, Holding, TypeOK, RequestType
<1>2. r \in Holders(e) /\ Cardinality(Holders(e) \ {r}) = Cardinality(Holders(e)) - 1
      /\ Cardinality(Holders(e)) >= 1
  <2>1. r \in Holders(e)
    BY <1>0, <1>1 DEF Holders
  <2>2. Cardinality(Holders(e) \ {r}) = Cardinality(Holders(e)) - 1
    BY <2>1, HoldersFinite, FS_RemoveElement
  <2>3. Cardinality(Holders(e)) # 0
    BY <2>1, HoldersFinite, FS_EmptySet
  <2> QED BY <2>1, <2>2, <2>3, HoldersFinite
<1>3. entry[e].ref \in Nat /\ entry[e].ref >= 1
  BY <1>1, <1>2, HoldersFinite DEF RefsCover, TypeOK, EntryType
<1>4. /\ entry' \in [EntryId -> EntryType]
      /\ entry'[e].ref = entry[e].ref - 1 /\ entry'[e].by = entry[e].by
      /\ \A d \in EntryId \ {e} : entry'[d] = entry[d]
  BY <1>0, <1>1, <1>3 DEF Remove, TypeOK, EntryType
<1>5. /\ entries_' = IF entry[e].ref = 1 THEN [entries_ EXCEPT ![t] = None] ELSE entries_
      /\ req'[r].at = "idle" /\ req'[r].entry = None
      /\ \A s \in Requester \ {r} : req'[s] = req[s]
      /\ action_mutex' = IF action_mutex = r THEN None ELSE action_mutex
      /\ UNCHANGED << initialize_, action, pending, hnd, moved, ghosts >>
  BY <1>0 DEF Remove, TypeOK, RequestType
<1>6. req' \in [Requester -> RequestType]
  <2>1. [req[r] EXCEPT !.at = "idle", !.entry = None] \in RequestType
    BY DEF TypeOK, RequestType
  <2> QED BY <2>1 DEF Remove, TypeOK
<1>7. TypeOK'
  BY <1>1, <1>4, <1>5, <1>6 DEF TypeOK
<1>8. entry[e].ref = 1 => Holders(e) = {r} /\ \A u \in Target : hnd[u].entry # e
  <2> SUFFICES ASSUME entry[e].ref = 1
               PROVE  Holders(e) = {r} /\ \A u \in Target : hnd[u].entry # e
    OBVIOUS
  <2>1. Cardinality(Holders(e)) = 1 /\ \A u \in Target : hnd[u].entry # e
    BY <1>1, <1>2, HoldersFinite DEF RefsCover
  <2>2. Holders(e) \ {r} = {}
    <3>1. IsFiniteSet(Holders(e) \ {r})
      BY HoldersFinite, FS_Subset
    <3> QED BY <1>2, <2>1, <3>1, FS_EmptySet
  <2> QED BY <1>2, <2>1, <2>2
<1>9. EntriesFollow'
  <2>1. \A u \in Target : entries_'[u] # None => entry'[entries_'[u]].ref > 0
    <3> SUFFICES ASSUME NEW u \in Target, entries_'[u] # None
                 PROVE  entry'[entries_'[u]].ref > 0
      OBVIOUS
    <3>1. CASE u = t
      BY <1>1, <1>3, <1>4, <1>5, <3>1 DEF TypeOK
    <3>2. CASE u # t
      BY <1>1, <1>4, <1>5, <3>2 DEF EntriesFollow, TypeOK
    <3> QED BY <3>1, <3>2
  <2>2. \A u, v \in Target : entries_'[u] # None /\ entries_'[u] = entries_'[v] => u = v
    BY <1>1, <1>5 DEF EntriesFollow, TypeOK
  <2>3. \A s \in Requester :
           /\ req'[s].at \in {"initialize", "parse"} => req'[s].tid \in Target \cup {s}
           /\ req'[s].at = "send" => req'[s].tid \in Target
           /\ IF req'[s].at \in Holding
              THEN req'[s].entry # None /\ req'[s].tid \in Target /\ entries_'[req'[s].tid] = req'[s].entry
              ELSE req'[s].entry = None
    <3> TAKE s \in Requester
    <3>1. CASE s = r
      BY <1>5, <3>1 DEF Holding
    <3>2. CASE s # r
      <4>1. entry[e].ref = 1 => req[s].entry # e
        BY <1>8, <3>2 DEF Holders
      <4> QED BY <1>1, <1>5, <3>2, <4>1 DEF EntriesFollow, TypeOK
    <3> QED BY <3>1, <3>2
  <2>4. \A u \in Target :
          IF hnd'[u].at \in Answering THEN hnd'[u].entry # None /\ entries_'[u] = hnd'[u].entry
          ELSE hnd'[u].entry = None
    BY <1>1, <1>5, <1>8 DEF EntriesFollow, TypeOK
  <2> QED BY <2>1, <2>2, <2>3, <2>4 DEF EntriesFollow
<1>10. RefsCover'
  <2> SUFFICES ASSUME NEW d \in EntryId
               PROVE  /\ entry'[d].ref >= Cardinality(Holders(d)')
                      /\ \A u \in Target : hnd[u].entry = d => entry'[d].ref > Cardinality(Holders(d)')
    BY <1>5 DEF RefsCover
  <2>1. CASE d # e
    <3>1. \A s \in Requester : req'[s].entry = d <=> req[s].entry = d
      BY <1>0, <1>5, <2>1, EntryAssumption DEF None
    <3>2. Holders(d)' = Holders(d)
      BY <3>1 DEF Holders
    <3> QED BY <1>4, <2>1, <3>2 DEF RefsCover
  <2>2. CASE d = e
    <3>1. \A s \in Requester : req'[s].entry = e <=> s # r /\ req[s].entry = e
      BY <1>1, <1>5, EntryAssumption DEF None
    <3>2. Holders(e)' = Holders(e) \ {r}
      BY <3>1 DEF Holders
    <3>3. Cardinality(Holders(e)') = Cardinality(Holders(e)) - 1 /\ Cardinality(Holders(e)) \in Nat
      BY <1>2, <3>2, HoldersFinite
    <3>4. /\ entry[e].ref >= Cardinality(Holders(e))
          /\ \A u \in Target : hnd[u].entry = e => entry[e].ref > Cardinality(Holders(e))
      BY <1>1 DEF RefsCover
    <3> QED BY <1>3, <1>4, <2>2, <3>3, <3>4
  <2> QED BY <2>1, <2>2
<1>11. MutexesHeld'
  <2>1. ASSUME NEW s \in Requester \ {r}, req[s].at \in Locking
        PROVE  entry'[req[s].entry].by = s
    <3>1. req[s].entry \in EntryId /\ entry[req[s].entry].by = s
      BY <2>1 DEF MutexesHeld, EntriesFollow, Locking, Holding, TypeOK, RequestType, None
    <3> QED BY <1>4, <3>1
  <2> QED BY <1>5, <2>1 DEF MutexesHeld, Locking
<1>12. ActionRight'
  BY <1>5 DEF ActionRight
<1> QED BY <1>7, <1>9, <1>10, <1>11, <1>12

----------------------------------------------------------------------------
(* The target's side.                                                      *)
LEMMA UseTarget ==
  ASSUME UseInv, NEW t \in Target, TypeOK', ActionRight',
         UNCHANGED << entries_, req, action_mutex >>,
         \A e \in EntryId : entry'[e].ref = entry[e].ref /\ entry'[e].by = entry[e].by,
         IF hnd'[t].at \in Answering THEN hnd'[t].entry = hnd[t].entry /\ hnd[t].at \in Answering
         ELSE hnd'[t].entry = None,
         \A u \in Target \ {t} : hnd'[u] = hnd[u]
  PROVE  UseInv'
<1> USE DEF UseInv
<1>1. EntriesFollow'
  BY DEF EntriesFollow, TypeOK, None
<1>2. RefsCover'
  BY RefsKeep DEF EntriesFollow
<1>3. MutexesHeld'
  BY DEF MutexesHeld, EntriesFollow, Locking, Holding, TypeOK, RequestType, None
<1> QED BY <1>1, <1>2, <1>3

(* The operations of a target, but for Get.                                *)
LEMMA UseHandles ==
  ASSUME UseInv, NEW t \in Target,
         \/ Moves(t) \/ Exits(t) \/ Deliver(t) \/ HandlerCopy(t) \/ HandlerWake(t)
         \/ HandlerWait(t) \/ HandlerTimeout(t) \/ HandlerWakeAgain(t)
  PROVE  UseInv'
<1> USE DEF UseInv, HTo, Wake, ghosts
<1>1. hnd[t].at \in Answering => hnd[t].entry \in EntryId /\ entry[hnd[t].entry] \in EntryType
  BY DEF EntriesFollow, TypeOK, HandlerType
<1>2. hnd[t].at = "own" => hnd[t].entry = None
  BY DEF EntriesFollow, Answering
<1>3. CASE Moves(t)
  <2>1. TypeOK' /\ ActionRight'
    BY <1>3 DEF Moves, TypeOK, ActionRight, At
  <2> QED BY <1>2, <1>3, <2>1, UseTarget DEF Moves, EntriesFollow, Answering
<1>4. CASE Exits(t)
  <2>1. TypeOK' /\ ActionRight'
    BY <1>4 DEF Exits, TypeOK, HandlerType, ActionRight, At
  <2> QED BY <1>2, <1>4, <2>1, UseTarget DEF Exits, TypeOK, HandlerType, Answering
<1>5. CASE Deliver(t)
  <2>1. PICK l \in {"get", "own"} : hnd' = [hnd EXCEPT ![t].at = l]
    BY <1>5 DEF Deliver, ActionRight, TypeOK, Actions
  <2>2. TypeOK' /\ ActionRight'
    BY <1>5, <2>1 DEF Deliver, TypeOK, HandlerType, ActionRight, At
  <2>3. /\ hnd'[t].at \notin Answering /\ hnd'[t].entry = None
        /\ \A u \in Target \ {t} : hnd'[u] = hnd[u]
    BY <1>2, <1>5, <2>1 DEF Deliver, TypeOK, HandlerType, Answering
  <2> QED BY <1>5, <2>2, <2>3, UseTarget DEF Deliver
<1>6. CASE HandlerCopy(t)
  <2>1. /\ entry' \in [EntryId -> EntryType] /\ hnd' \in [Target -> HandlerType]
        /\ \A d \in EntryId : entry'[d].ref = entry[d].ref /\ entry'[d].by = entry[d].by
    BY <1>1, <1>6 DEF HandlerCopy, TypeOK, HandlerType, EntryType, Answering
  <2>2. /\ hnd[t].at \in Answering /\ hnd'[t].at = "wake" /\ hnd'[t].entry = hnd[t].entry
        /\ \A u \in Target \ {t} : hnd'[u] = hnd[u]
        /\ UNCHANGED << initialize_, entries_, action, action_mutex, pending, req, moved, ghosts >>
    BY <1>1, <1>6 DEF HandlerCopy, TypeOK, HandlerType, Answering
  <2>3. TypeOK' /\ ActionRight'
    BY <2>1, <2>2 DEF TypeOK, ActionRight, At
  <2> QED BY <2>1, <2>2, <2>3, UseTarget DEF Answering
<1>7. CASE HandlerWake(t)
  <2>1. /\ entry' \in [EntryId -> EntryType] /\ hnd' \in [Target -> HandlerType]
        /\ \A d \in EntryId : entry'[d].ref = entry[d].ref /\ entry'[d].by = entry[d].by
    <3>1. hnd' \in [Target -> HandlerType]
      BY <1>7 DEF HandlerWake, TypeOK, HandlerType, Answering
    <3>2. hnd[t].entry \in EntryId /\ entry[hnd[t].entry].value + 1 \in Nat
      BY <1>1, <1>7 DEF HandlerWake, EntryType, Answering
    <3> QED BY <1>7, <3>1, <3>2 DEF HandlerWake, TypeOK, EntryType
  <2>2. /\ hnd[t].at \in Answering /\ hnd'[t].at = "complete" /\ hnd'[t].entry = hnd[t].entry
        /\ \A u \in Target \ {t} : hnd'[u] = hnd[u]
        /\ UNCHANGED << initialize_, entries_, action, action_mutex, pending, req, moved, ghosts >>
    BY <1>1, <1>7 DEF HandlerWake, TypeOK, HandlerType, Answering
  <2>3. TypeOK' /\ ActionRight'
    BY <2>1, <2>2 DEF TypeOK, ActionRight, At
  <2> QED BY <2>1, <2>2, <2>3, UseTarget DEF Answering
<1>8. CASE HandlerWait(t)
  <2>1. TypeOK' /\ ActionRight'
    BY <1>8 DEF HandlerWait, TypeOK, HandlerType, ActionRight, At, Answering
  <2> QED BY <1>8, <2>1, UseTarget DEF HandlerWait, TypeOK, HandlerType, Answering
<1>9. CASE HandlerTimeout(t)
  <2>1. TypeOK' /\ ActionRight'
    BY <1>9 DEF HandlerTimeout, TypeOK, HandlerType, ActionRight, At
  <2> QED BY <1>9, <2>1, UseTarget DEF HandlerTimeout, TypeOK, HandlerType, Answering
<1>10. CASE HandlerWakeAgain(t)
  <2>1. /\ entry' \in [EntryId -> EntryType] /\ hnd' \in [Target -> HandlerType]
        /\ \A d \in EntryId : entry'[d].ref = entry[d].ref /\ entry'[d].by = entry[d].by
    BY <1>1, <1>10 DEF HandlerWakeAgain, TypeOK, HandlerType, EntryType, Answering
  <2>2. /\ hnd[t].at \in Answering /\ hnd'[t].at = "own" /\ hnd'[t].entry = None
        /\ \A u \in Target \ {t} : hnd'[u] = hnd[u]
        /\ UNCHANGED << initialize_, entries_, action, action_mutex, pending, req, moved, ghosts >>
    BY <1>1, <1>10 DEF HandlerWakeAgain, TypeOK, HandlerType, Answering
  <2>3. TypeOK' /\ ActionRight'
    BY <2>1, <2>2 DEF TypeOK, ActionRight, At
  <2> QED BY <2>1, <2>2, <2>3, UseTarget DEF Answering
<1> QED BY <1>3, <1>4, <1>5, <1>6, <1>7, <1>8, <1>9, <1>10

(* The handler's Get finds an entry that is alive and counts itself.       *)
LEMMA UseHandlerGet ==
  ASSUME UseInv, NEW t \in Target, HandlerGet(t)
  PROVE  UseInv'
<1> USE DEF UseInv, HTo, ghosts
<1>1. hnd[t].at = "get" /\ hnd[t].entry = None
  BY DEF HandlerGet, EntriesFollow, Answering
<1>2. CASE entries_[t] = None
  <2>1. TypeOK' /\ ActionRight'
    BY <1>2 DEF HandlerGet, TypeOK, HandlerType, ActionRight, At
  <2> QED BY <1>1, <1>2, <2>1, UseTarget DEF HandlerGet, TypeOK, HandlerType, Answering
<1>3. CASE entries_[t] # None
  <2>0. PICK e : e = entries_[t]
    OBVIOUS
  <2>1. /\ e \in EntryId /\ entry' \in [EntryId -> EntryType]
        /\ entry'[e].ref = entry[e].ref + 1 /\ entry'[e].by = entry[e].by
        /\ \A d \in EntryId \ {e} : entry'[d] = entry[d]
    BY <1>3, <2>0, GotEntry DEF HandlerGet
  <2>2. /\ hnd'[t] = [at |-> "copy", entry |-> e] /\ hnd' \in [Target -> HandlerType]
        /\ \A u \in Target \ {t} : hnd'[u] = hnd[u]
        /\ UNCHANGED << initialize_, entries_, action, action_mutex, pending, req, moved, ghosts >>
    BY <1>3, <2>0, <2>1 DEF HandlerGet, TypeOK, HandlerType, Answering
  <2>3. TypeOK' /\ ActionRight'
    BY <2>1, <2>2 DEF TypeOK, ActionRight, At
  <2>4. EntriesFollow'
    <3>1. \A u \in Target : entries_[u] # None => entry'[entries_[u]].ref > 0
      BY <2>1 DEF EntriesFollow, TypeOK, EntryType
    <3>2. \A u \in Target :
            IF hnd'[u].at \in Answering THEN hnd'[u].entry # None /\ entries_[u] = hnd'[u].entry
            ELSE hnd'[u].entry = None
      BY <1>3, <2>0, <2>2 DEF EntriesFollow, Answering
    <3> QED BY <2>2, <3>1, <3>2 DEF EntriesFollow
  <2>5. RefsCover'
    <3>1. \A d : Holders(d)' = Holders(d) /\ Cardinality(Holders(d)) \in Nat
      BY <2>2, HoldersFinite DEF Holders
    <3>2. \A d \in EntryId : entry'[d].ref >= Cardinality(Holders(d))
      BY <2>1, <3>1 DEF RefsCover, TypeOK, EntryType
    <3>3. \A u \in Target : hnd'[u].entry # None => entry'[hnd'[u].entry].ref > Cardinality(Holders(hnd'[u].entry))
      <4> SUFFICES ASSUME NEW u \in Target, hnd'[u].entry # None
                   PROVE  entry'[hnd'[u].entry].ref > Cardinality(Holders(hnd'[u].entry))
        OBVIOUS
      <4>1. CASE u = t
        BY <2>1, <2>2, <3>1, <4>1 DEF RefsCover, TypeOK, EntryType
      <4>2. CASE u # t
        <5>1. hnd'[u].entry = hnd[u].entry /\ hnd[u].entry \in EntryId
          BY <2>2, <4>2 DEF TypeOK, HandlerType
        <5>2. entry[hnd[u].entry].ref > Cardinality(Holders(hnd[u].entry))
          BY <5>1 DEF RefsCover
        <5> QED BY <2>1, <3>1, <5>1, <5>2 DEF TypeOK, EntryType
      <4> QED BY <4>1, <4>2
    <3> QED BY <2>2, <3>1, <3>2, <3>3, EntryAssumption DEF RefsCover, None
  <2>6. MutexesHeld'
    <3>1. \A d \in EntryId : entry'[d].by = entry[d].by
      BY <2>1
    <3> QED BY <2>2, <3>1
               DEF MutexesHeld, EntriesFollow, Locking, Holding, TypeOK, RequestType, None
  <2> QED BY <2>3, <2>4, <2>5, <2>6
<1> QED BY <1>2, <1>3

(* One step per operation of the two sides.                                *)
LEMMA UseStep == UseInv /\ [Next]_vars => UseInv'
<1> SUFFICES ASSUME UseInv, [Next]_vars PROVE UseInv'
  OBVIOUS
<1>1. CASE UNCHANGED vars
  <2>1. \A e : Holders(e)' = Holders(e)
    BY <1>1 DEF vars, Holders
  <2> QED BY <1>1, <2>1 DEF vars, ghosts, UseInv, TypeOK, EntriesFollow, RefsCover, MutexesHeld,
                          ActionRight, At
<1>2. ASSUME NEW r \in Requester, Unwind(r) \/ RequesterStep(r)
      PROVE  UseInv'
  BY <1>2, UseCalls, UseSends, UseGet, UseRemove DEF RequesterStep
<1>3. ASSUME NEW t \in Target, Moves(t) \/ Exits(t) \/ Deliver(t) \/ HandlerStep(t)
      PROVE  UseInv'
  BY <1>3, UseHandles, UseHandlerGet DEF HandlerStep
<1> QED BY <1>1, <1>2, <1>3 DEF Next

(* The inductive invariant about entries_, reference counts, mutexes and   *)
(* the signal's action, for every set of threads and every bound.          *)
THEOREM UseInvariant == Spec => []UseInv
BY UseInit, UseStep, PTL DEF Spec

(* EntryAlive: the entry a requester or a handler works on was never       *)
(* deleted, whatever the threads' speed and whatever fails.                *)
THEOREM EntriesLive == Spec => []EntryAlive
<1>1. UseInv => EntryAlive
  BY DEF UseInv, EntryAlive, EntriesFollow, TypeOK, RequestType, HandlerType, Holding, Answering
<1> QED BY <1>1, UseInvariant, PTL

(* NeverDefault: no signal of the unwinder ends the process.               *)
THEOREM SignalsHarmless == Spec => []NeverDefault
<1>1. UseInv => NeverDefault
  BY DEF UseInv, NeverDefault, ActionRight
<1> QED BY <1>1, UseInvariant, PTL

----------------------------------------------------------------------------
(* The handshake.  First what makes an active request the only one.        *)
LEMMA OneLocks ==
  ASSUME UseInv, NEW r \in Requester, NEW s \in Requester, req[r].at \in Locking,
         req[s].at \in Locking, req[r].tid = req[s].tid
  PROVE  r = s
BY DEF UseInv, MutexesHeld, EntriesFollow, Locking, Holding

(* The entry of a request that holds one is the one of its target.         *)
LEMMA ActiveEntry ==
  ASSUME UseInv, NEW r \in Requester, req[r].at \in Holding
  PROVE  /\ req[r].tid \in Target /\ req[r].entry \in EntryId
         /\ entries_[req[r].tid] = req[r].entry /\ entry[req[r].entry] \in EntryType
BY DEF UseInv, EntriesFollow, TypeOK, RequestType

(* A step that is not about target t keeps what wait_value_ says there.    *)
LEMMA Elsewhere ==
  ASSUME UseInv, NEW t \in Target, SignalsFew(t), ValueTells(t),
         pending'[t] = pending[t], hnd'[t] = hnd[t], moved'[t] = moved[t],
         entries_'[t] = entries_[t],
         entries_[t] # None => /\ entry'[entries_[t]].value = entry[entries_[t]].value
                               /\ entry'[entries_[t]].ctx = entry[entries_[t]].ctx,
         \A s \in Requester :
           \/ req'[s].at = req[s].at /\ req'[s].tid = req[s].tid /\ req'[s].entry = req[s].entry
           \/ /\ req[s].at \in Active => req[s].tid # t
              /\ req'[s].at \in Active => req'[s].tid # t
  PROVE  SignalsFew(t)' /\ ValueTells(t)'
<1> USE DEF UseInv, At
<1>1. InFlight(t)' = InFlight(t)
  BY DEF InFlight
<1>2. SignalsFew(t)'
  <2>1. (\A s \in Requester : At(s, "ucontext")' => req'[s].tid # t) => InFlight(t)' <= 1
    BY <1>1 DEF SignalsFew, Active
  <2>2. \A s \in Requester : At(s, "ucontext")' /\ req'[s].tid = t =>
          InFlight(t)' + entry'[entries_'[t]].value <= 2
    <3> SUFFICES ASSUME NEW s \in Requester, req'[s].at = "ucontext", req'[s].tid = t
                 PROVE  InFlight(t)' + entry'[entries_'[t]].value <= 2
      OBVIOUS
    <3>1. req[s].at = "ucontext" /\ req[s].tid = t
      BY DEF Active
    <3>2. entries_[t] # None
      BY <3>1 DEF EntriesFollow, Holding
    <3> QED BY <1>1, <3>1, <3>2 DEF SignalsFew
  <2>3. ASSUME entries_'[t] # None, entry'[entries_'[t]].value <= 1,
               \A s \in Requester : req'[s].at \in {"ucontext", "unwind"} => req'[s].tid # t
        PROVE  InFlight(t)' + entry'[entries_'[t]].value <= 1
    BY <1>1, <2>3 DEF SignalsFew, Active
  <2> QED BY <2>1, <2>2, <2>3 DEF SignalsFew
<1>3. ValueTells(t)'
  <2>1. hnd[t].at \in Answering => entries_[t] # None /\ entries_[t] = hnd[t].entry
    BY DEF EntriesFollow
  <2>2. /\ hnd'[t].at \in {"wake", "complete"} => entry'[hnd'[t].entry].ctx = moved'[t]
        /\ hnd'[t].at = "wake_again" => entry'[hnd'[t].entry].value = 2
    BY <2>1 DEF ValueTells, Answering
  <2>3. entries_'[t] # None /\ entry'[entries_'[t]].value = 2 =>
          /\ hnd'[t].at \in {"complete", "wake_again"}
          /\ \E s \in Requester : req'[s].at = "restart" /\ req'[s].entry = entries_'[t]
    <3> SUFFICES ASSUME entries_[t] # None, entry[entries_[t]].value = 2
                 PROVE  /\ hnd[t].at \in {"complete", "wake_again"}
                        /\ \E s \in Requester : req'[s].at = "restart" /\ req'[s].entry = entries_[t]
      OBVIOUS
    <3>1. PICK s \in Requester : req[s].at = "restart" /\ req[s].entry = entries_[t]
      BY DEF ValueTells
    <3>2. req[s].tid = t
      BY <3>1 DEF EntriesFollow, Holding
    <3> QED BY <3>1, <3>2 DEF ValueTells, Active
  <2>4. ASSUME NEW s \in Requester, req'[s].at \in Active, req'[s].tid = t
        PROVE  /\ req'[s].at # "restart" =>
                    entry'[req'[s].entry].value <= 1
                    /\ (entry'[req'[s].entry].value = 1 => Standing(t)')
               /\ req'[s].at = "unwind" => entry'[req'[s].entry].value = 1
               /\ req'[s].at = "restart" => entry'[req'[s].entry].value >= 2
    <3>1. req'[s].at = req[s].at /\ req[s].tid = t /\ req'[s].entry = req[s].entry
      BY <2>4
    <3>2. req[s].entry = entries_[t] /\ entries_[t] # None
      BY <2>4, <3>1 DEF EntriesFollow, Active, Holding
    <3>3. Standing(t)' <=> Standing(t)
      BY <2>1 DEF Standing, Answering
    <3> QED BY <2>4, <3>1, <3>2, <3>3 DEF ValueTells, Active
  <2> QED BY <2>2, <2>3, <2>4 DEF ValueTells, Active
<1> QED BY <1>2, <1>3

(* Get and Remove: a new entry starts at 0, and an entry that goes away    *)
(* has no handler.                                                         *)
LEMMA ShakeGet ==
  ASSUME UseInv, UseInv', NEW r \in Requester, GetEntry(r),
         NEW t \in Target, SignalsFew(t), ValueTells(t)
  PROVE  SignalsFew(t)' /\ ValueTells(t)'
<1> USE DEF At, ghosts
<1>0. PICK u, e : u = req[r].tid /\ e = Got(u)
  OBVIOUS
<1>1. u \in Target /\ req[r].at = "send"
  BY <1>0 DEF GetEntry, UseInv, EntriesFollow
<1>2. /\ e \in EntryId
      /\ entries_[u] # None => /\ e = entries_[u] /\ entry'[e].value = entry[e].value
                               /\ entry'[e].ctx = entry[e].ctx
      /\ entries_[u] = None => entry[e].ref = 0 /\ entry'[e].value = 0
      /\ \A d \in EntryId \ {e} : entry'[d] = entry[d]
  BY <1>0, <1>1, GotEntry DEF GetEntry
<1>3. /\ entries_' = [entries_ EXCEPT ![u] = e] /\ req'[r].at = "lock"
      /\ \A s \in Requester \ {r} : req'[s] = req[s]
      /\ UNCHANGED << pending, hnd, moved >>
  BY <1>0 DEF GetEntry, UseInv, TypeOK, RequestType
<1>4. CASE t # u \/ entries_[u] # None
  <2>1. entries_'[t] = entries_[t]
    BY <1>1, <1>2, <1>3, <1>4 DEF UseInv, TypeOK
  <2>2. entries_[t] # None => /\ entry'[entries_[t]].value = entry[entries_[t]].value
                              /\ entry'[entries_[t]].ctx = entry[entries_[t]].ctx
    <3> SUFFICES ASSUME entries_[t] # None
                 PROVE  /\ entry'[entries_[t]].value = entry[entries_[t]].value
                        /\ entry'[entries_[t]].ctx = entry[entries_[t]].ctx
      OBVIOUS
    <3>1. entries_[t] \in EntryId /\ entry[entries_[t]].ref > 0
      BY DEF UseInv, TypeOK, EntriesFollow
    <3> QED BY <1>1, <1>2, <3>1
  <2> QED BY <1>1, <1>3, <2>1, <2>2, Elsewhere DEF Active
<1>5. CASE t = u /\ entries_[u] = None
  <2>1. entries_'[t] = e /\ entry'[e].value = 0
    BY <1>1, <1>2, <1>3, <1>5 DEF UseInv, TypeOK
  <2>2. \A s \in Requester : req'[s].at \in Active => req'[s].tid # t
    BY <1>3, <1>5 DEF UseInv, EntriesFollow, Active, Holding
  <2>3. hnd[t].at \notin Answering
    BY <1>5 DEF UseInv, EntriesFollow
  <2>4. InFlight(t)' <= 1 /\ InFlight(t)' \in Nat
    <3>1. InFlight(t)' = InFlight(t) /\ InFlight(t) \in Nat
      BY <1>3 DEF InFlight, UseInv, TypeOK
    <3>2. \A s \in Requester : req[s].at = "ucontext" => req[s].tid # t
      BY <1>5 DEF UseInv, EntriesFollow, Holding
    <3> QED BY <3>1, <3>2 DEF SignalsFew
  <2>5. SignalsFew(t)'
    BY <2>1, <2>2, <2>4 DEF SignalsFew, Active
  <2>6. ValueTells(t)'
    BY <1>3, <2>1, <2>2, <2>3 DEF ValueTells, Active, Answering
  <2> QED BY <2>5, <2>6
<1> QED BY <1>4, <1>5

(* Remove, likewise.                                                       *)
LEMMA ShakeRemove ==
  ASSUME UseInv, UseInv', NEW r \in Requester, Remove(r),
         NEW t \in Target, SignalsFew(t), ValueTells(t)
  PROVE  SignalsFew(t)' /\ ValueTells(t)'
<1> USE DEF At, ghosts
<1>0. PICK u, e : u = req[r].tid /\ e = req[r].entry
  OBVIOUS
<1>1. u \in Target /\ req[r].at = "remove" /\ e \in EntryId /\ entries_[u] = e
  BY <1>0, ActiveEntry DEF Remove, Holding
<1>2. /\ \A d \in EntryId : entry'[d].value = entry[d].value /\ entry'[d].ctx = entry[d].ctx
      /\ entries_' = IF entry[e].ref = 1 THEN [entries_ EXCEPT ![u] = None] ELSE entries_
      /\ req'[r].at = "idle" /\ \A s \in Requester \ {r} : req'[s] = req[s]
      /\ UNCHANGED << pending, hnd, moved >>
  BY <1>0, <1>1 DEF Remove, UseInv, TypeOK, RequestType, EntryType
<1>3. CASE entries_'[t] = entries_[t]
  BY <1>1, <1>2, <1>3, Elsewhere DEF Active, UseInv, TypeOK
<1>4. CASE entries_'[t] # entries_[t]
  <2>1. t = u /\ entries_'[t] = None
    BY <1>1, <1>2, <1>4 DEF UseInv, TypeOK
  <2>2. \A s \in Requester : req'[s].at \in Holding => req'[s].tid # t
    BY <2>1 DEF UseInv, EntriesFollow
  <2>3. hnd'[t].at \notin Answering
    BY <2>1 DEF UseInv, EntriesFollow
  <2>4. \A s \in Requester : req[s].at = "ucontext" => req[s].tid # t
    BY <1>1, <1>2, <2>2 DEF Holding
  <2>5. InFlight(t)' <= 1
    BY <1>2, <2>4 DEF InFlight, SignalsFew
  <2>6. SignalsFew(t)'
    BY <2>1, <2>2, <2>5 DEF SignalsFew, Holding
  <2>7. ValueTells(t)'
    BY <2>1, <2>2, <2>3 DEF ValueTells, Answering, Holding
  <2> QED BY <2>6, <2>7
<1> QED BY <1>3, <1>4

(* A request about t itself, from Lock to the end of its wait.             *)
LEMMA ShakeHere ==
  ASSUME UseInv, UseInv', SlowThreads = FALSE, NEW r \in Requester, NEW t \in Target,
         req[r].tid = t, t \notin lagging', SignalsFew(t), ValueTells(t),
         \/ Lock(r) \/ Sigaction(r) \/ Tgkill(r) \/ WaitUcontext(r) \/ UcontextTimeout(r)
         \/ UnwindDone(r) \/ WaitRestart(r)
  PROVE  SignalsFew(t)' /\ ValueTells(t)'
<1> USE DEF At, To, Fails, ghosts, Wake, Locked
<1>0. PICK e : e = req[r].entry
  OBVIOUS
<1>1. /\ e \in EntryId /\ entries_[t] = e /\ e # None /\ entry[e] \in EntryType
      /\ req[r].at \in {"lock"} \cup Active
  BY <1>0, ActiveEntry, EntryAssumption
     DEF Holding, Active, Lock, Sigaction, Tgkill, WaitUcontext, UcontextTimeout, UnwindDone,
         WaitRestart, None
<1>2. /\ UNCHANGED << entries_, hnd, moved >> /\ req'[r].tid = t /\ req'[r].entry = e
      /\ \A s \in Requester \ {r} : req'[s] = req[s]
      /\ req'[r].at \in {"unlock"} \cup Active
  BY <1>0 DEF UseInv, TypeOK, RequestType, Active, Lock, Sigaction, Tgkill, WaitUcontext,
         UcontextTimeout, UnwindDone, WaitRestart
<1>3. /\ InFlight(t) \in Nat /\ entry[e].value \in Nat /\ entry'[e].value \in Nat
      /\ entry'[e].ctx = entry[e].ctx
  <2>1. InFlight(t) \in Nat /\ entry[e].value \in Nat
    BY <1>1 DEF InFlight, UseInv, TypeOK, EntryType
  <2>2. entry'[e].value \in Nat
    BY <1>1 DEF UseInv, TypeOK, EntryType
  <2>3. entry'[e].ctx = entry[e].ctx
    BY <1>0, <1>1
       DEF UseInv, TypeOK, EntryType, Lock, Sigaction, Tgkill, WaitUcontext, UcontextTimeout,
                 UnwindDone, WaitRestart
  <2> QED BY <2>1, <2>2, <2>3
<1>4. hnd[t].at \in Answering => hnd[t].entry = e
  BY <1>1 DEF UseInv, EntriesFollow
<1>5. \A s \in Requester \ {r} : req[s].at \in Active => req[s].tid # t
  <2> SUFFICES ASSUME NEW s \in Requester, req[s].at \in Active, req[s].tid = t
               PROVE  s = r
    OBVIOUS
  <2>1. req[s].at \in Locking /\ req[s].entry = e
    BY <1>1 DEF Active, Locking, Holding, UseInv, EntriesFollow
  <2>2. CASE req[r].at = "lock"
    <3>1. entry[e].by = None
      BY <1>0, <2>2
         DEF Lock, Sigaction, Tgkill, WaitUcontext, UcontextTimeout, UnwindDone, WaitRestart
    <3> QED BY <2>1, <3>1, ThreadAssumption DEF UseInv, MutexesHeld, None
  <2>3. CASE req[r].at \in Active
    BY <2>1, <2>3, OneLocks DEF Active, Locking
  <2> QED BY <1>1, <2>2, <2>3
<1>6. CASE Lock(r)
  <2>1. /\ entry'[e].value = 0 /\ req[r].at = "lock" /\ req'[r].at = "sigaction" /\ InFlight(t)' = InFlight(t)
    BY <1>0, <1>1, <1>2, <1>6 DEF Lock, UseInv, TypeOK, RequestType, EntryType, InFlight
  <2>2. InFlight(t) <= 1
    BY <1>5, <2>1 DEF SignalsFew, Active
  <2>3. hnd[t].at # "wake_again"
    <3> SUFFICES ASSUME hnd[t].at = "wake_again" PROVE FALSE
      OBVIOUS
    <3>1. entry[e].value = 2
      BY <1>4 DEF ValueTells, Answering
    <3>2. PICK s \in Requester : req[s].at = "restart" /\ req[s].entry = e
      BY <1>1, <3>1 DEF ValueTells
    <3>3. req[s].tid = t
      BY <1>1, <3>2 DEF UseInv, EntriesFollow, Holding
    <3> QED BY <1>5, <2>1, <3>2, <3>3 DEF Active
  <2>4. SignalsFew(t)'
    BY <1>1, <1>2, <1>3, <1>5, <2>1, <2>2 DEF SignalsFew, Active
  <2>5. ValueTells(t)'
    BY <1>1, <1>2, <1>3, <1>4, <1>5, <2>1, <2>3 DEF ValueTells, Active, Answering
  <2> QED BY <2>4, <2>5
<1>7. CASE Sigaction(r)
  <2>1. /\ entry' = entry /\ req[r].at = "sigaction" /\ req'[r].at \in {"tgkill", "unlock"}
        /\ InFlight(t)' = InFlight(t)
    BY <1>2, <1>7 DEF Sigaction, UseInv, TypeOK, RequestType, InFlight
  <2>2. SignalsFew(t)'
    BY <1>1, <1>2, <1>5, <2>1 DEF SignalsFew, Active
  <2>3. ValueTells(t)'
    BY <1>0, <1>1, <1>2, <1>5, <2>1 DEF ValueTells, Standing, Active
  <2> QED BY <2>2, <2>3
<1>8. CASE Tgkill(r)
  <2>1. /\ entry' = entry /\ req[r].at = "tgkill"
        /\ \/ req'[r].at = "ucontext" /\ InFlight(t)' = InFlight(t) + 1
           \/ req'[r].at = "unlock" /\ InFlight(t)' = InFlight(t)
    BY <1>2, <1>8 DEF Tgkill, UseInv, TypeOK, RequestType, InFlight
  <2>2. entry[e].value <= 1 /\ InFlight(t) + entry[e].value <= 1
    BY <1>0, <1>1, <1>5, <2>1 DEF SignalsFew, ValueTells, Active
  <2>3. SignalsFew(t)'
    BY <1>1, <1>2, <1>3, <1>5, <2>1, <2>2 DEF SignalsFew, Active
  <2>4. ValueTells(t)'
    BY <1>0, <1>1, <1>2, <1>5, <2>1 DEF ValueTells, Standing, Active
  <2> QED BY <2>3, <2>4
<1>9. CASE WaitUcontext(r)
  <2>1. /\ entry' = entry /\ req[r].at = "ucontext" /\ req'[r].at = "unwind" /\ entry[e].value = 1
        /\ InFlight(t)' = InFlight(t)
    BY <1>0, <1>2, <1>9 DEF WaitUcontext, UseInv, TypeOK, RequestType, InFlight, WAIT_FOR_UCONTEXT
  <2>2. InFlight(t) <= 1
    BY <1>1, <1>3, <2>1 DEF SignalsFew
  <2>3. SignalsFew(t)'
    BY <1>1, <1>2, <1>5, <2>1, <2>2 DEF SignalsFew, Active
  <2>4. ValueTells(t)'
    BY <1>0, <1>1, <1>2, <1>5, <2>1 DEF ValueTells, Standing, Active
  <2> QED BY <2>3, <2>4
<1>10. CASE UcontextTimeout(r)
  <2>1. /\ entry' = entry /\ req[r].at = "ucontext" /\ req'[r].at = "unlock" /\ entry[e].value # 1
        /\ InFlight(t)' = InFlight(t) /\ InFlight(t) <= 1
    <3>1. InFlight(t)' = InFlight(t)
      BY <1>2, <1>10 DEF UcontextTimeout, InFlight
    <3>2. ~ (InFlight(t) > 1)
      BY <1>10 DEF UcontextTimeout
    <3> QED BY <1>0, <1>3, <1>10, <3>1, <3>2
           DEF UcontextTimeout, UseInv, TypeOK, RequestType, WAIT_FOR_UCONTEXT
  <2>2. entry[e].value = 0
    BY <1>0, <1>1, <1>3, <2>1 DEF ValueTells
  <2>3. SignalsFew(t)'
    BY <1>1, <1>2, <1>3, <1>5, <2>1, <2>2 DEF SignalsFew, Active
  <2>4. ValueTells(t)'
    BY <1>0, <1>1, <1>2, <1>5, <2>1 DEF ValueTells, Standing, Active
  <2> QED BY <2>3, <2>4
<1>11. CASE UnwindDone(r)
  <2>1. req[r].at = "unwind" /\ req'[r].at = "restart" /\ InFlight(t)' = InFlight(t)
    BY <1>2, <1>11 DEF UnwindDone, UseInv, TypeOK, RequestType, InFlight
  <2>2. entry[e].value = 1 /\ Standing(t)
    BY <1>0, <1>1, <2>1 DEF ValueTells
  <2>3. entry'[e].value = 2
    BY <1>0, <1>1, <1>11, <2>2 DEF UnwindDone, UseInv, TypeOK, EntryType
  <2>4. SignalsFew(t)'
    BY <1>1, <1>2, <1>5, <2>1, <2>3 DEF SignalsFew, Active
  <2>5. ValueTells(t)'
    BY <1>0, <1>1, <1>2, <1>3, <1>4, <1>5, <2>1, <2>2, <2>3
       DEF ValueTells, Standing, Active, Answering
  <2> QED BY <2>4, <2>5
<1>12. CASE WaitRestart(r)
  <2>1. /\ entry' = entry /\ req[r].at = "restart" /\ req'[r].at = "unlock"
        /\ InFlight(t)' = InFlight(t)
    BY <1>2, <1>12 DEF WaitRestart, UseInv, TypeOK, RequestType, InFlight
  <2>2. entry[e].value # 2 /\ entry[e].value >= 2
    <3>1. entry[e].value = 2 => hnd[t].at \in {"complete", "wake_again"} /\ hnd[t].entry = e
      BY <1>1, <1>4 DEF ValueTells, Answering
    <3>2. entry[e].value = 3 \/ ~ Answers(r)
      BY <1>0, <1>12 DEF WaitRestart, WAIT_FOR_THREAD_TO_RESTART
    <3>3. entry[e].value >= 2
      BY <1>0, <1>1, <2>1 DEF ValueTells
    <3> QED BY <1>0, <3>1, <3>2, <3>3 DEF Answers
  <2>3. SignalsFew(t)'
    BY <1>1, <1>2, <1>3, <1>5, <2>1, <2>2 DEF SignalsFew, Active
  <2>4. ValueTells(t)'
    BY <1>0, <1>1, <1>2, <1>4, <1>5, <2>1, <2>2 DEF ValueTells, Standing, Active, Answering
  <2> QED BY <2>3, <2>4
<1> QED BY <1>6, <1>7, <1>8, <1>9, <1>10, <1>11, <1>12

(* The steps of target t itself.                                           *)
LEMMA ShakeTarget ==
  ASSUME UseInv, UseInv', SlowThreads = FALSE, NEW t \in Target, SignalsFew(t), ValueTells(t),
         Moves(t) \/ Exits(t) \/ Deliver(t) \/ HandlerStep(t)
  PROVE  SignalsFew(t)' /\ ValueTells(t)'
<1> USE DEF At, HTo, Wake, ghosts
<1>1. /\ UNCHANGED << entries_, req >>
      /\ hnd[t].at \in Answering => /\ hnd[t].entry \in EntryId /\ hnd[t].entry = entries_[t]
                                     /\ entries_[t] # None
  BY DEF Moves, Exits, Deliver, HandlerStep, HandlerGet, HandlerCopy, HandlerWake, HandlerWait,
         HandlerTimeout, HandlerWakeAgain, UseInv, EntriesFollow, TypeOK, HandlerType
<1>2. \A r \in Requester : req[r].entry # None /\ req[r].tid = t =>
        req[r].entry = entries_[t] /\ entries_[t] \in EntryId
  BY DEF UseInv, EntriesFollow, TypeOK
<1>3. /\ InFlight(t) \in Nat /\ InFlight(t)' \in Nat
      /\ entries_[t] # None => entry[entries_[t]].value \in Nat /\ entry'[entries_[t]].value \in Nat
  BY <1>1 DEF InFlight, UseInv, TypeOK, EntryType
<1>own. CASE Moves(t) \/ Exits(t) \/ Deliver(t)
  <2>1. /\ hnd[t].at = "own" /\ hnd'[t].at \notin Answering /\ entry' = entry
        /\ hnd'[t].at \in {"own", "gone", "get", "killed"}
    BY <1>own DEF Moves, Exits, Deliver, UseInv, TypeOK, HandlerType, Answering
  <2>2. InFlight(t)' <= InFlight(t)
    BY <1>own DEF Moves, Exits, Deliver, UseInv, TypeOK, HandlerType, InFlight
  <2>3. SignalsFew(t)'
    <3> HIDE DEF At
    <3>1. (\A r \in Requester : At(r, "ucontext")' => req'[r].tid # t) => InFlight(t)' <= 1
      BY <1>1, <1>3, <2>2 DEF SignalsFew, At
    <3>2. \A r \in Requester : At(r, "ucontext")' /\ req'[r].tid = t =>
            InFlight(t)' + entry'[entries_'[t]].value <= 2
      <4> SUFFICES ASSUME NEW r \in Requester, req[r].at = "ucontext", req[r].tid = t
                   PROVE  InFlight(t)' + entry[entries_[t]].value <= 2
        BY <1>1, <2>1 DEF At
      <4>1. entries_[t] # None
        BY DEF UseInv, EntriesFollow, Holding
      <4> QED BY <1>3, <2>2, <4>1 DEF SignalsFew, At
    <3>3. ASSUME entries_[t] # None, entry[entries_[t]].value <= 1,
                 \A r \in Requester : req[r].at \in {"ucontext", "unwind"} => req[r].tid # t
          PROVE  InFlight(t)' + entry[entries_[t]].value <= 1
      BY <1>3, <2>2, <3>3 DEF SignalsFew
    <3> QED BY <1>1, <2>1, <3>1, <3>2, <3>3 DEF SignalsFew
  <2>4. ValueTells(t)'
    BY <1>1, <1>2, <2>1 DEF ValueTells, Standing, Answering
  <2> QED BY <2>3, <2>4
<1>get. CASE HandlerGet(t)
  <2>1. /\ hnd[t].at = "get" /\ hnd'[t].at \in {"copy", "own"}
        /\ entries_[t] # None => entry'[entries_[t]].value = entry[entries_[t]].value
    <3>1. hnd[t].at = "get" /\ hnd'[t].at \in {"copy", "own"}
      BY <1>get DEF HandlerGet, UseInv, TypeOK, HandlerType
    <3>2. entries_[t] # None => entry'[entries_[t]].value = entry[entries_[t]].value
      BY <1>get, GotEntry DEF HandlerGet
    <3> QED BY <3>1, <3>2
  <2>2. InFlight(t)' <= InFlight(t)
    BY <1>get, <2>1 DEF HandlerGet, UseInv, TypeOK, InFlight
  <2>3. SignalsFew(t)'
    <3>1. (\A r \in Requester : req'[r].at = "ucontext" => req'[r].tid # t) => InFlight(t)' <= 1
      BY <1>1, <1>3, <2>2 DEF SignalsFew
    <3>2. \A r \in Requester : req'[r].at = "ucontext" /\ req'[r].tid = t =>
            InFlight(t)' + entry'[entries_'[t]].value <= 2
      <4> SUFFICES ASSUME NEW r \in Requester, req[r].at = "ucontext", req[r].tid = t
                   PROVE  InFlight(t)' + entry'[entries_[t]].value <= 2
        BY <1>1
      <4>1. entries_[t] # None
        BY DEF UseInv, EntriesFollow, Holding
      <4> QED BY <1>3, <2>1, <2>2, <4>1 DEF SignalsFew
    <3>3. ASSUME entries_[t] # None, entry'[entries_[t]].value <= 1,
                 \A r \in Requester : req[r].at \in {"ucontext", "unwind"} => req[r].tid # t
          PROVE  InFlight(t)' + entry'[entries_[t]].value <= 1
      BY <1>3, <2>1, <2>2, <3>3 DEF SignalsFew
    <3> QED BY <1>1, <3>1, <3>2, <3>3 DEF SignalsFew
  <2>4. ValueTells(t)'
    BY <1>1, <1>2, <2>1 DEF ValueTells, Standing
  <2> QED BY <2>3, <2>4
<1>copy. CASE HandlerCopy(t)
  <2>0. PICK e : e = entries_[t]
    OBVIOUS
  <2>1. /\ e \in EntryId /\ hnd[t].at = "copy" /\ hnd[t].entry = e /\ hnd'[t].at = "wake" /\ hnd'[t].entry = e
        /\ entry'[e].value = entry[e].value /\ entry'[e].ctx = moved'[t]
    BY <1>1, <1>copy, <2>0 DEF HandlerCopy, UseInv, TypeOK, HandlerType, EntryType, Answering
  <2>2. InFlight(t)' = InFlight(t)
    BY <1>copy, <2>1 DEF HandlerCopy, InFlight
  <2>3. SignalsFew(t)'
    BY <1>1, <2>0, <2>1, <2>2 DEF SignalsFew
  <2>4. ValueTells(t)'
    BY <1>1, <1>2, <2>0, <2>1 DEF ValueTells, Standing
  <2> QED BY <2>3, <2>4
<1>wake. CASE HandlerWake(t)
  <2>0. PICK e : e = entries_[t]
    OBVIOUS
  <2>1. /\ e \in EntryId /\ hnd[t].at = "wake" /\ hnd[t].entry = e
        /\ hnd'[t].at = "complete" /\ hnd'[t].entry = e /\ moved'[t] = moved[t]
        /\ entry'[e].value = entry[e].value + 1 /\ entry'[e].ctx = entry[e].ctx
    BY <1>1, <1>wake, <2>0 DEF HandlerWake, UseInv, TypeOK, HandlerType, EntryType, Answering
  <2>2. InFlight(t) >= 1 /\ InFlight(t)' = InFlight(t) - 1
    BY <1>wake, <2>1 DEF HandlerWake, UseInv, TypeOK, InFlight
  <2>3. e # None /\ entry[e].value \in Nat
    BY <1>1, <1>3, <2>0, <2>1 DEF Answering
  <2>4. entry[e].value # 1
    <3> SUFFICES ASSUME entry[e].value = 1 PROVE FALSE
      OBVIOUS
    <3>1. \A r \in Requester : req[r].at \in {"ucontext", "unwind"} => req[r].tid # t
      <4> SUFFICES ASSUME NEW r \in Requester, req[r].at \in {"ucontext", "unwind"}, req[r].tid = t
                   PROVE  FALSE
        OBVIOUS
      <4>1. req[r].entry # None
        BY DEF UseInv, EntriesFollow, Holding
      <4>2. req[r].entry = e
        BY <1>2, <2>0, <4>1
      <4>3. Standing(t)
        BY <4>1, <4>2 DEF ValueTells
      <4> QED BY <2>1, <4>3 DEF Standing
    <3> QED BY <1>3, <2>0, <2>2, <2>3, <3>1 DEF SignalsFew
  <2>5. entry[e].value # 2
    BY <2>0, <2>1, <2>3 DEF ValueTells
  <2>6. SignalsFew(t)'
    BY <1>1, <1>3, <2>0, <2>1, <2>2, <2>3 DEF SignalsFew
  <2>7. Standing(t)'
    BY <2>1 DEF Standing, ValueTells
  <2>8. ValueTells(t)'
    <3>1. \A r \in Requester : req'[r].entry # None /\ req'[r].tid = t =>
           /\ req'[r].at \in {"sigaction", "tgkill", "ucontext", "unwind"} =>
                entry'[req'[r].entry].value <= 1 /\ (entry'[req'[r].entry].value = 1 => Standing(t)')
           /\ req'[r].at = "unwind" => entry'[req'[r].entry].value = 1
           /\ req'[r].at = "restart" => entry'[req'[r].entry].value >= 2
      BY <1>1, <1>2, <2>0, <2>1, <2>3, <2>4, <2>7 DEF ValueTells
    <3> QED BY <1>1, <2>0, <2>1, <2>3, <2>4, <2>7, <3>1 DEF ValueTells, Standing
  <2> QED BY <2>6, <2>8
<1>wait. CASE HandlerWait(t)
  <2>1. /\ hnd[t].at = "complete" /\ hnd'[t].at = "wake_again" /\ hnd'[t].entry = hnd[t].entry
        /\ entry' = entry /\ entry[entries_[t]].value = 2 /\ hnd[t].entry = entries_[t] /\ entries_[t] # None
    BY <1>1, <1>wait
       DEF HandlerWait, UseInv, TypeOK, HandlerType, Answering, WAIT_FOR_UNWIND_TO_COMPLETE
  <2>2. InFlight(t)' = InFlight(t)
    BY <1>wait, <2>1 DEF HandlerWait, InFlight
  <2>3. SignalsFew(t)'
    BY <1>1, <2>1, <2>2 DEF SignalsFew
  <2>4. ValueTells(t)'
    BY <1>1, <1>2, <2>1 DEF ValueTells, Standing
  <2> QED BY <2>3, <2>4
<1>timeout. CASE HandlerTimeout(t)
  <2>1. /\ hnd[t].at = "complete" /\ hnd'[t].at = "own" /\ ~ Unwinding(t)
        /\ entry' = entry /\ entry[entries_[t]].value # 2 /\ hnd[t].entry = entries_[t] /\ entries_[t] # None
    BY <1>1, <1>timeout
       DEF HandlerTimeout, UseInv, TypeOK, HandlerType, Answering, WAIT_FOR_UNWIND_TO_COMPLETE
  <2>2. InFlight(t)' = InFlight(t)
    BY <1>timeout, <2>1 DEF HandlerTimeout, InFlight
  <2>3. SignalsFew(t)'
    BY <1>1, <2>1, <2>2 DEF SignalsFew
  <2>4. \A r \in Requester : req[r].entry # None /\ req[r].tid = t
             /\ req[r].at \in {"sigaction", "tgkill", "ucontext", "unwind"} => entry[entries_[t]].value # 1
    BY <1>2, <2>1 DEF Unwinding, WAIT_FOR_UCONTEXT
  <2>5. ValueTells(t)'
    BY <1>1, <1>2, <2>1, <2>4 DEF ValueTells
  <2> QED BY <2>3, <2>5
<1>again. CASE HandlerWakeAgain(t)
  <2>0. PICK e : e = entries_[t]
    OBVIOUS
  <2>1. /\ e \in EntryId /\ e # None /\ hnd[t].at = "wake_again" /\ hnd[t].entry = e /\ hnd'[t].at = "own"
        /\ entry'[e].value = entry[e].value + 1
    BY <1>1, <1>again, <2>0 DEF HandlerWakeAgain, UseInv, TypeOK, HandlerType, EntryType, Answering
  <2>2. entry[e].value = 2 /\ entry'[e].value = 3
    BY <2>1 DEF ValueTells
  <2>3. InFlight(t)' = InFlight(t)
    BY <1>again, <2>1 DEF HandlerWakeAgain, InFlight
  <2>4. SignalsFew(t)'
    <3>1. \A r \in Requester : req[r].at = "ucontext" => req[r].tid # t
      <4> SUFFICES ASSUME NEW r \in Requester, req[r].at = "ucontext", req[r].tid = t
                   PROVE  FALSE
        OBVIOUS
      <4>1. req[r].entry # None
        BY DEF UseInv, EntriesFollow, Holding
      <4> QED BY <1>2, <2>0, <2>2, <4>1 DEF ValueTells
    <3> QED BY <1>1, <2>0, <2>2, <2>3, <3>1 DEF SignalsFew
  <2>5. ValueTells(t)'
    BY <1>1, <1>2, <2>0, <2>1, <2>2 DEF ValueTells, Standing
  <2> QED BY <2>4, <2>5
<1> QED BY <1>own, <1>get, <1>copy, <1>wake, <1>wait, <1>timeout, <1>again DEF HandlerStep

(* Steps about another target, and those that change no wait_value_.       *)
LEMMA ShakeOther ==
  ASSUME UseInv, NEW r \in Requester, NEW t \in Target, SignalsFew(t), ValueTells(t),
         \/ Unwind(r) \/ Initialize(r) \/ InternalInitialize(r) \/ UnwindLocal(r) \/ RemoveUnlock(r)
         \/ /\ req[r].tid # t
            /\ \/ Lock(r) \/ Sigaction(r) \/ Tgkill(r) \/ WaitUcontext(r) \/ UcontextTimeout(r)
               \/ UnwindDone(r) \/ WaitRestart(r)
  PROVE  SignalsFew(t)' /\ ValueTells(t)'
<1> USE DEF At, To, Fails, ghosts, Wake, Locked, Unlock
<1>1. CASE Unwind(r) \/ Initialize(r) \/ InternalInitialize(r) \/ UnwindLocal(r)
  <2>1. /\ UNCHANGED << entries_, entry, pending, hnd, moved >>
        /\ req[r].at \notin Active /\ req'[r].at \notin Active
        /\ \A s \in Requester \ {r} : req'[s] = req[s]
    BY <1>1
       DEF Unwind, Initialize, InternalInitialize, UnwindLocal, UseInv, TypeOK, RequestType, Active
  <2> QED BY <2>1, Elsewhere
<1>2. CASE RemoveUnlock(r)
  <2>0. PICK e : e = req[r].entry /\ e \in EntryId
    BY <1>2, ActiveEntry DEF RemoveUnlock, Holding
  <2>1. /\ UNCHANGED << entries_, pending, hnd, moved >>
        /\ req[r].at \notin Active /\ req'[r].at \notin Active
        /\ \A s \in Requester \ {r} : req'[s] = req[s]
    BY <1>2 DEF RemoveUnlock, UseInv, TypeOK, RequestType, Active
  <2>2. \A d \in EntryId : entry'[d].value = entry[d].value /\ entry'[d].ctx = entry[d].ctx
    BY <1>2, <2>0 DEF RemoveUnlock, UseInv, TypeOK, EntryType
  <2>3. entries_[t] # None => entries_[t] \in EntryId
    BY DEF UseInv, TypeOK
  <2> QED BY <2>1, <2>2, <2>3, Elsewhere
<1>3. CASE /\ req[r].tid # t
           /\ \/ Lock(r) \/ Sigaction(r) \/ Tgkill(r) \/ WaitUcontext(r) \/ UcontextTimeout(r)
              \/ UnwindDone(r) \/ WaitRestart(r)
  <2>0. PICK e : e = req[r].entry
    OBVIOUS
  <2>1. req[r].tid \in Target /\ e \in EntryId /\ entries_[req[r].tid] = e
    BY <1>3, <2>0, ActiveEntry DEF Holding, Lock, Sigaction, Tgkill, WaitUcontext, UcontextTimeout,
       UnwindDone, WaitRestart
  <2>2. entries_[t] # None => entries_[t] # e /\ entries_[t] \in EntryId
    BY <1>3, <2>1 DEF UseInv, EntriesFollow, TypeOK
  <2>3. /\ \A d \in EntryId \ {e} : entry'[d] = entry[d]
        /\ UNCHANGED << entries_, hnd, moved >> /\ req'[r].tid = req[r].tid
        /\ \A s \in Requester \ {r} : req'[s] = req[s]
    BY <1>3, <2>0, <2>1
       DEF UseInv, TypeOK, RequestType, EntryType, Lock, Sigaction, Tgkill, WaitUcontext,
       UcontextTimeout, UnwindDone, WaitRestart
  <2>4. pending'[t] = pending[t]
    BY <1>3 DEF UseInv, TypeOK, Lock, Sigaction, Tgkill, WaitUcontext, UcontextTimeout, UnwindDone,
       WaitRestart
  <2> QED BY <1>3, <2>2, <2>3, <2>4, Elsewhere
<1> QED BY <1>1, <1>2, <1>3

(* Another target works on another entry.                                  *)
LEMMA ShakeOtherTarget ==
  ASSUME UseInv, NEW t \in Target, SignalsFew(t), ValueTells(t), NEW u \in Target \ {t},
         Moves(u) \/ Exits(u) \/ Deliver(u) \/ HandlerStep(u)
  PROVE  SignalsFew(t)' /\ ValueTells(t)'
<1> USE DEF HTo, Wake, ghosts
<1>1. /\ UNCHANGED << entries_, req >> /\ pending'[t] = pending[t] /\ hnd'[t] = hnd[t]
      /\ moved'[t] = moved[t]
  BY DEF UseInv, TypeOK, Moves, Exits, Deliver, HandlerStep, HandlerGet, HandlerCopy, HandlerWake,
     HandlerWait, HandlerTimeout, HandlerWakeAgain
<1>2. entries_[t] # None => entry'[entries_[t]] = entry[entries_[t]]
  <2> SUFFICES ASSUME entries_[t] # None PROVE entry'[entries_[t]] = entry[entries_[t]]
    OBVIOUS
  <2>1. entries_[t] \in EntryId /\ entries_[t] # entries_[u]
    BY DEF UseInv, TypeOK, EntriesFollow
  <2>2. CASE HandlerGet(u)
    BY <2>1, <2>2, GotEntry DEF HandlerGet
  <2>3. CASE HandlerCopy(u) \/ HandlerWake(u) \/ HandlerWakeAgain(u)
    <3>1. hnd[u].entry = entries_[u]
      BY <2>3 DEF UseInv, EntriesFollow, Answering, HandlerCopy, HandlerWake, HandlerWakeAgain
    <3> QED BY <2>1, <2>3, <3>1 DEF UseInv, TypeOK, HandlerCopy, HandlerWake, HandlerWakeAgain
  <2>4. CASE Moves(u) \/ Exits(u) \/ Deliver(u) \/ HandlerWait(u) \/ HandlerTimeout(u)
    BY <2>4 DEF Moves, Exits, Deliver, HandlerWait, HandlerTimeout
  <2> QED BY <2>2, <2>3, <2>4 DEF HandlerStep
<1> QED BY <1>1, <1>2, Elsewhere

(* The handshake is inductive together with UseInv.                        *)
LEMMA ShakeInit == Init => HandshakeInv
<1> SUFFICES ASSUME Init, NEW t \in Target PROVE SignalsFew(t) /\ ValueTells(t)
  BY DEF HandshakeInv
<1> QED BY DEF Init, SignalsFew, ValueTells, InFlight, At, None

(* One step per operation, about the target or about another one.          *)
LEMMA ShakeStep ==
  ASSUME SlowThreads = FALSE
  PROVE  UseInv /\ UseInv' /\ HandshakeInv /\ [Next]_vars => HandshakeInv'
<1> SUFFICES ASSUME UseInv, UseInv', HandshakeInv, [Next]_vars, NEW t \in Target, t \notin lagging'
             PROVE  SignalsFew(t)' /\ ValueTells(t)'
  BY DEF HandshakeInv
<1>1. lagging \subseteq lagging'
  BY
     DEF Next, vars, ghosts, RequesterStep, HandlerStep, Unwind, Initialize, InternalInitialize,
         UnwindLocal,
     GetEntry, Lock, Sigaction, Tgkill, WaitUcontext, UcontextTimeout, UnwindDone, WaitRestart,
     RemoveUnlock, Remove, Moves, Exits, Deliver, HandlerGet, HandlerCopy, HandlerWake, HandlerWait,
     HandlerTimeout, HandlerWakeAgain
<1>2. SignalsFew(t) /\ ValueTells(t)
  BY <1>1 DEF HandshakeInv
<1>3. CASE UNCHANGED vars
  BY <1>2, <1>3, Elsewhere DEF vars
<1>4. ASSUME NEW r \in Requester, Unwind(r) \/ RequesterStep(r)
      PROVE  SignalsFew(t)' /\ ValueTells(t)'
  BY <1>2, <1>4, ShakeGet, ShakeRemove, ShakeHere, ShakeOther DEF RequesterStep
<1>5. ASSUME NEW u \in Target, Moves(u) \/ Exits(u) \/ Deliver(u) \/ HandlerStep(u)
      PROVE  SignalsFew(t)' /\ ValueTells(t)'
  BY <1>2, <1>5, ShakeTarget, ShakeOtherTarget
<1> QED BY <1>3, <1>4, <1>5 DEF Next

(* PausedForUnwind: when no wait ends although its wake is on the way, and *)
(* a thread never lagged two signals behind, it stands in its handler for  *)
(* as long as its stack is unwound, and nobody else unwinds it.            *)
THEOREM UnwoundThreadsStand ==
  ASSUME SlowThreads = FALSE
  PROVE  Spec => []PausedForUnwind
<1>1. UseInv /\ HandshakeInv => PausedForUnwind
  <2> SUFFICES ASSUME UseInv, HandshakeInv, NEW r \in Requester, At(r, "unwind"), req[r].tid \notin lagging
               PROVE  /\ hnd[req[r].tid].at = "complete" /\ hnd[req[r].tid].entry = req[r].entry
                      /\ entry[req[r].entry].ctx = moved[req[r].tid]
                      /\ \A s \in Requester \ {r} : At(s, "unwind") => req[s].entry # req[r].entry
    BY DEF PausedForUnwind
  <2> USE DEF At
  <2>1. req[r].tid \in Target /\ entries_[req[r].tid] = req[r].entry /\ req[r].entry # None
    BY DEF UseInv, EntriesFollow, Holding
  <2>2. Standing(req[r].tid)
    BY <2>1 DEF HandshakeInv, ValueTells
  <2>3. hnd[req[r].tid].entry = req[r].entry
    BY <2>1, <2>2 DEF Standing, UseInv, EntriesFollow, Answering
  <2>4. \A s \in Requester \ {r} : At(s, "unwind") => req[s].entry # req[r].entry
    BY DEF UseInv, MutexesHeld, Locking
  <2> QED BY <2>2, <2>3, <2>4 DEF Standing
<1>2. UseInv /\ UseInv' /\ HandshakeInv /\ [Next]_vars => HandshakeInv'
  BY ShakeStep
<1> QED BY <1>1, <1>2, ShakeInit, UseInvariant, PTL DEF Spec
=============================================================================
