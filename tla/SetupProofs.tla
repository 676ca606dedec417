----------------------------- MODULE SetupProofs -----------------------------
(***************************************************************************)
(* The safety of Setup for any sets of keys, names and requests and any    *)
(* number of faults.                                                       *)
(***************************************************************************)
EXTENDS Setup, TLAPS

(* Types.                                                                  *)

LEMMA TypeInit == Init => TypeOK
<1> SUFFICES ASSUME Init PROVE TypeOK
  OBVIOUS
<1>1. faults \in 0 .. MaxFaults
  BY SetupAssumption DEF SetupAssumption, Init
<1>2. pc \in [Requests -> Points]
  BY DEF Init, Points
<1>3. QED
  BY <1>1, <1>2, Zenon DEF Init, TypeOK

LEMMA TypeStep == TypeOK /\ [Next]_vars => TypeOK'
<1> SUFFICES ASSUME TypeOK, [Next]_vars PROVE TypeOK'
  OBVIOUS
<1> USE SetupAssumption DEF SetupAssumption, TypeOK, disk, process, Goto
<1>1. CASE Boot
  <2>1. envDb' \in Keys \cup {"none", "uuid"} /\ envToken' \in Keys \cup {"none"}
    BY <1>1 DEF Boot, BootKey
  <2>2. QED
    BY <1>1, <2>1 DEF Boot
<1>2. CASE Crash
  <2>1. faults' \in 0 .. MaxFaults
    BY <1>2 DEF Crash
  <2>2. dead' \subseteq Requests
    BY <1>2, Zenon DEF Crash
  <2>3. QED
    BY <1>2, <2>1, <2>2 DEF Crash
<1>3. CASE OtherRoute
  BY <1>3 DEF OtherRoute, GetDb
<1>4. ASSUME NEW r \in Requests, Handle(r) PROVE TypeOK'
  <2>1. CASE Check(r)
    BY <2>1 DEF Check, GetDb, At, Points, Answers
  <2>2. CASE Reject(r)
    BY <2>2 DEF Reject, At, Points, Answers
  <2>3. CASE StoreOpen(r)
    BY <2>3 DEF StoreOpen, At, Points, Writing
  <2>4. CASE StoreWrite(r)
    BY <2>4 DEF StoreWrite, At, Points, Writing
  <2>5. CASE StoreThrows(r)
    BY <2>5 DEF StoreThrows, At, Points, Answers
  <2>6. CASE Rekey(r)
    BY <2>6 DEF Rekey, At, Points
  <2>7. CASE RekeyThrows(r)
    BY <2>7 DEF RekeyThrows, At, Points, Answers
  <2>8. CASE Insert(r)
    BY <2>8 DEF Insert, At, Points, Answers, Writing
  <2>9. CASE Mark(r)
    BY <2>9 DEF Mark, At, Points, Answers
  <2>10. CASE InsertThrows(r)
    BY <2>10 DEF InsertThrows, At, Points, Answers
  <2>11. CASE MarkThrows(r)
    BY <2>11 DEF MarkThrows, At, Points, Answers
  <2>12. QED
    BY <1>4, <2>1, <2>2, <2>3, <2>4, <2>5, <2>6, <2>7, <2>8, <2>9, <2>10, <2>11
       DEF Handle
<1>5. CASE SidecarBoot
  BY <1>5 DEF SidecarBoot
<1>6. CASE SidecarCrash
  BY <1>6 DEF SidecarCrash
<1>7. CASE UNCHANGED vars
  BY <1>7 DEF vars
<1>8. QED
  BY <1>1, <1>2, <1>3, <1>4, <1>5, <1>6, <1>7 DEF Next

\* Every variable keeps its type: no action stores a value outside its domain.
THEOREM TypeCorrect == Spec => []TypeOK
BY TypeInit, TypeStep, PTL DEF Spec

-----------------------------------------------------------------------------
(* The inductive invariant: one lemma per action, and in each one step for *)
(* the processes, one for the keys and one for the account and the tokens. *)

LEMMA InvariantInit == Init => IInv
BY TypeInit, SetupAssumption
   DEF SetupAssumption, Init, IInv, LoopDiscipline, ProcessState, KeyWindow, Provenance,
       ConnectionKeyInSync, ServesUnlessInterrupted, SetupDoneHasAdmin,
       OrphanAdminOnlyAtMark, Live, Openable, BootKey

LEMMA BootStep ==
  ASSUME IInv, Boot
  PROVE  IInv'
<1> USE SetupAssumption
    DEF SetupAssumption, IInv, Boot,
        disk, process, Answers, Writing, Live
<1>1. LoopDiscipline' /\ ProcessState'
  BY DEF TypeOK, LoopDiscipline, ProcessState, BootKey
<1>2. KeyWindow' /\ ConnectionKeyInSync' /\ ServesUnlessInterrupted'
  BY DEF TypeOK, KeyWindow, ConnectionKeyInSync, ServesUnlessInterrupted,
                 LoopDiscipline, ProcessState, Interrupted, Openable, BootKey
<1>3. Provenance' /\ SetupDoneHasAdmin' /\ OrphanAdminOnlyAtMark'
  BY DEF TypeOK, Provenance, SetupDoneHasAdmin, OrphanAdminOnlyAtMark,
                 ProcessState, Stored
<1>4. QED
  BY TypeStep, <1>1, <1>2, <1>3 DEF Next, Handle

LEMMA CrashStep ==
  ASSUME IInv, Crash
  PROVE  IInv'
<1> USE SetupAssumption
    DEF SetupAssumption, IInv, Crash,
        disk, process, Answers, Writing, Live
<1>1. LoopDiscipline' /\ ProcessState'
  BY DEF TypeOK, LoopDiscipline, ProcessState, BootKey
<1>2. KeyWindow' /\ ConnectionKeyInSync' /\ ServesUnlessInterrupted'
  BY DEF TypeOK, KeyWindow, ConnectionKeyInSync, ServesUnlessInterrupted,
                 LoopDiscipline, ProcessState, Interrupted, Openable, BootKey
<1>3. Provenance' /\ SetupDoneHasAdmin' /\ OrphanAdminOnlyAtMark'
  BY DEF TypeOK, Provenance, SetupDoneHasAdmin, OrphanAdminOnlyAtMark,
                 ProcessState, Stored
<1>4. QED
  BY TypeStep, <1>1, <1>2, <1>3 DEF Next, Handle

LEMMA OtherRouteStep ==
  ASSUME IInv, OtherRoute
  PROVE  IInv'
<1> USE SetupAssumption
    DEF SetupAssumption, IInv, OtherRoute,
        disk, process, Answers, Writing, Live, GetDb
<1>1. LoopDiscipline' /\ ProcessState'
  BY DEF TypeOK, LoopDiscipline, ProcessState, BootKey
<1>2. KeyWindow' /\ ConnectionKeyInSync' /\ ServesUnlessInterrupted'
  BY DEF TypeOK, KeyWindow, ConnectionKeyInSync, ServesUnlessInterrupted,
                 LoopDiscipline, ProcessState, Interrupted, Openable, BootKey
<1>3. Provenance' /\ SetupDoneHasAdmin' /\ OrphanAdminOnlyAtMark'
  BY DEF TypeOK, Provenance, SetupDoneHasAdmin, OrphanAdminOnlyAtMark,
                 ProcessState, Stored
<1>4. QED
  BY TypeStep, <1>1, <1>2, <1>3 DEF Next, Handle

LEMMA CheckStep ==
  ASSUME NEW r \in Requests, IInv, Check(r)
  PROVE  IInv'
<1> USE SetupAssumption
    DEF SetupAssumption, IInv, Check, At, Goto,
        disk, process, Answers, Writing, Live, GetDb
<1>1. LoopDiscipline' /\ ProcessState'
  BY DEF TypeOK, LoopDiscipline, ProcessState, BootKey
<1>2. KeyWindow' /\ ConnectionKeyInSync' /\ ServesUnlessInterrupted'
  BY DEF TypeOK, KeyWindow, ConnectionKeyInSync, ServesUnlessInterrupted,
                 LoopDiscipline, ProcessState, Interrupted, Openable, BootKey
<1>3. Provenance' /\ SetupDoneHasAdmin' /\ OrphanAdminOnlyAtMark'
  BY DEF TypeOK, Provenance, SetupDoneHasAdmin, OrphanAdminOnlyAtMark,
                 ProcessState, Stored
<1>4. QED
  BY TypeStep, <1>1, <1>2, <1>3 DEF Next, Handle

LEMMA RejectStep ==
  ASSUME NEW r \in Requests, IInv, Reject(r)
  PROVE  IInv'
<1> USE SetupAssumption
    DEF SetupAssumption, IInv, Reject, At, Goto,
        disk, process, Answers, Writing, Live
<1>1. LoopDiscipline' /\ ProcessState'
  BY DEF TypeOK, LoopDiscipline, ProcessState, BootKey
<1>2. KeyWindow' /\ ConnectionKeyInSync' /\ ServesUnlessInterrupted'
  BY DEF TypeOK, KeyWindow, ConnectionKeyInSync, ServesUnlessInterrupted,
                 LoopDiscipline, ProcessState, Interrupted, Openable, BootKey
<1>3. Provenance' /\ SetupDoneHasAdmin' /\ OrphanAdminOnlyAtMark'
  <2>1. Provenance'
    BY DEF TypeOK, Provenance, Stored
  <2>2. SetupDoneHasAdmin' /\ OrphanAdminOnlyAtMark'
    BY DEF TypeOK, SetupDoneHasAdmin, OrphanAdminOnlyAtMark
  <2>3. QED
    BY <2>1, <2>2
<1>4. QED
  BY TypeStep, <1>1, <1>2, <1>3 DEF Next, Handle

LEMMA StoreOpenStep ==
  ASSUME NEW r \in Requests, IInv, StoreOpen(r)
  PROVE  IInv'
<1> USE SetupAssumption
    DEF SetupAssumption, IInv, StoreOpen, At, Goto,
        disk, process, Answers, Writing, Live
<1>1. LoopDiscipline' /\ ProcessState'
  BY DEF TypeOK, LoopDiscipline, ProcessState, BootKey
<1>2. KeyWindow' /\ ConnectionKeyInSync' /\ ServesUnlessInterrupted'
  BY DEF TypeOK, KeyWindow, ConnectionKeyInSync, ServesUnlessInterrupted,
                 LoopDiscipline, ProcessState, Interrupted, Openable, BootKey
<1>3. Provenance' /\ SetupDoneHasAdmin' /\ OrphanAdminOnlyAtMark'
  BY DEF TypeOK, Provenance, SetupDoneHasAdmin, OrphanAdminOnlyAtMark,
                 ProcessState, Stored
<1>4. QED
  BY TypeStep, <1>1, <1>2, <1>3 DEF Next, Handle

LEMMA StoreWriteStep ==
  ASSUME NEW r \in Requests, IInv, StoreWrite(r)
  PROVE  IInv'
<1> USE SetupAssumption
    DEF SetupAssumption, IInv, StoreWrite, At, Goto,
        disk, process, Answers, Writing, Live
<1>1. LoopDiscipline' /\ ProcessState'
  BY DEF TypeOK, LoopDiscipline, ProcessState, BootKey
<1>2. KeyWindow' /\ ConnectionKeyInSync' /\ ServesUnlessInterrupted'
  BY DEF TypeOK, KeyWindow, ConnectionKeyInSync, ServesUnlessInterrupted,
                 LoopDiscipline, ProcessState, Interrupted, Openable, BootKey
<1>3. Provenance' /\ SetupDoneHasAdmin' /\ OrphanAdminOnlyAtMark'
  <2>1. /\ Stored' = Stored \cup {r}
        /\ body' = body
    BY DEF TypeOK, Stored
  <2>2. \A x \in {keyFile', envToken', sidecar'} \ {"none", "torn"} :
          \E q \in Stored' : body'[q].key = x
    BY <2>1 DEF Provenance
  <2>3. Provenance'
    BY <2>2 DEF Provenance
  <2>4. SetupDoneHasAdmin' /\ OrphanAdminOnlyAtMark'
    BY DEF TypeOK, SetupDoneHasAdmin, OrphanAdminOnlyAtMark
  <2>5. QED
    BY <2>3, <2>4
<1>4. QED
  BY TypeStep, <1>1, <1>2, <1>3 DEF Next, Handle

LEMMA StoreThrowsStep ==
  ASSUME NEW r \in Requests, IInv, StoreThrows(r)
  PROVE  IInv'
<1> USE SetupAssumption
    DEF SetupAssumption, IInv, StoreThrows, At, Goto,
        disk, process, Answers, Writing, Live
<1>1. LoopDiscipline' /\ ProcessState'
  BY DEF TypeOK, LoopDiscipline, ProcessState, BootKey
<1>2. KeyWindow' /\ ConnectionKeyInSync' /\ ServesUnlessInterrupted'
  BY DEF TypeOK, KeyWindow, ConnectionKeyInSync, ServesUnlessInterrupted,
                 LoopDiscipline, ProcessState, Interrupted, Openable, BootKey
<1>3. Provenance' /\ SetupDoneHasAdmin' /\ OrphanAdminOnlyAtMark'
  BY DEF TypeOK, Provenance, SetupDoneHasAdmin, OrphanAdminOnlyAtMark,
                 ProcessState, Stored
<1>4. QED
  BY TypeStep, <1>1, <1>2, <1>3 DEF Next, Handle

LEMMA RekeyStep ==
  ASSUME NEW r \in Requests, IInv, Rekey(r)
  PROVE  IInv'
<1> USE SetupAssumption
    DEF SetupAssumption, IInv, Rekey, At, Goto,
        disk, process, Answers, Writing, Live
<1>1. LoopDiscipline' /\ ProcessState'
  BY DEF TypeOK, LoopDiscipline, ProcessState, BootKey
<1>2. KeyWindow' /\ ConnectionKeyInSync' /\ ServesUnlessInterrupted'
  BY DEF TypeOK, KeyWindow, ConnectionKeyInSync, ServesUnlessInterrupted,
                 LoopDiscipline, ProcessState, Interrupted, Openable, BootKey
<1>3. Provenance' /\ SetupDoneHasAdmin' /\ OrphanAdminOnlyAtMark'
  BY DEF TypeOK, Provenance, SetupDoneHasAdmin, OrphanAdminOnlyAtMark,
                 ProcessState, Stored
<1>4. QED
  BY TypeStep, <1>1, <1>2, <1>3 DEF Next, Handle

LEMMA RekeyThrowsStep ==
  ASSUME NEW r \in Requests, IInv, RekeyThrows(r)
  PROVE  IInv'
<1> USE SetupAssumption
    DEF SetupAssumption, IInv, RekeyThrows, At, Goto,
        disk, process, Answers, Writing, Live
<1>1. LoopDiscipline' /\ ProcessState'
  BY DEF TypeOK, LoopDiscipline, ProcessState, BootKey
<1>2. KeyWindow' /\ ConnectionKeyInSync' /\ ServesUnlessInterrupted'
  BY DEF TypeOK, KeyWindow, ConnectionKeyInSync, ServesUnlessInterrupted,
                 LoopDiscipline, ProcessState, Interrupted, Openable, BootKey
<1>3. Provenance' /\ SetupDoneHasAdmin' /\ OrphanAdminOnlyAtMark'
  BY DEF TypeOK, Provenance, SetupDoneHasAdmin, OrphanAdminOnlyAtMark,
                 ProcessState, Stored
<1>4. QED
  BY TypeStep, <1>1, <1>2, <1>3 DEF Next, Handle

LEMMA InsertStep ==
  ASSUME NEW r \in Requests, IInv, Insert(r)
  PROVE  IInv'
<1> USE SetupAssumption
    DEF SetupAssumption, IInv, Insert, At, Goto,
        disk, process, Answers, Writing, Live
<1>1. LoopDiscipline' /\ ProcessState'
  BY DEF TypeOK, LoopDiscipline, ProcessState, BootKey
<1>2. KeyWindow' /\ ConnectionKeyInSync' /\ ServesUnlessInterrupted'
  BY DEF TypeOK, KeyWindow, ConnectionKeyInSync, ServesUnlessInterrupted,
                 LoopDiscipline, ProcessState, Interrupted, Openable, BootKey
<1>3. Provenance' /\ SetupDoneHasAdmin' /\ OrphanAdminOnlyAtMark'
  <2>1. /\ Stored' = Stored
        /\ body' = body
    BY DEF TypeOK, Stored
  <2>2. \A x \in {keyFile', envToken', sidecar'} \ {"none", "torn"} :
          \E q \in Stored' : body'[q].key = x
    BY <2>1 DEF Provenance
  <2>3. dbKey # "none"
    BY DEF ProcessState, ConnectionKeyInSync
  <2>4. body[r].name \in admins'
    BY DEF TypeOK
  <2>5. ~setupDone' => \E q \in Requests : pc'[q] \in {"mark", "markFailed"}
    <3>1. CASE body[r].name \in admins
      BY <3>1 DEF TypeOK, OrphanAdminOnlyAtMark
    <3>2. CASE body[r].name \notin admins
      BY <3>2 DEF TypeOK
    <3>3. QED
      BY <3>1, <3>2
  <2>6. Provenance'
    BY <2>2, <2>3, <2>4 DEF Provenance
  <2>7. SetupDoneHasAdmin' /\ OrphanAdminOnlyAtMark'
    BY <2>4, <2>5 DEF SetupDoneHasAdmin, OrphanAdminOnlyAtMark
  <2>8. QED
    BY <2>6, <2>7
<1>4. QED
  BY TypeStep, <1>1, <1>2, <1>3 DEF Next, Handle

LEMMA InsertThrowsStep ==
  ASSUME NEW r \in Requests, IInv, InsertThrows(r)
  PROVE  IInv'
<1> USE SetupAssumption
    DEF SetupAssumption, IInv, InsertThrows, At, Goto,
        disk, process, Answers, Writing, Live
<1>1. LoopDiscipline' /\ ProcessState'
  BY DEF TypeOK, LoopDiscipline, ProcessState, BootKey
<1>2. KeyWindow' /\ ConnectionKeyInSync' /\ ServesUnlessInterrupted'
  BY DEF TypeOK, KeyWindow, ConnectionKeyInSync, ServesUnlessInterrupted,
                 LoopDiscipline, ProcessState, Interrupted, Openable, BootKey
<1>3. Provenance' /\ SetupDoneHasAdmin' /\ OrphanAdminOnlyAtMark'
  <2>1. /\ Stored' = Stored
        /\ body' = body
    BY DEF TypeOK, Stored
  <2>2. \A x \in {keyFile', envToken', sidecar'} \ {"none", "torn"} :
          \E q \in Stored' : body'[q].key = x
    BY <2>1 DEF Provenance
  <2>3. Provenance'
    BY <2>2 DEF TypeOK, Provenance
  <2>4. SetupDoneHasAdmin' /\ OrphanAdminOnlyAtMark'
    BY DEF TypeOK, Provenance, SetupDoneHasAdmin, OrphanAdminOnlyAtMark
  <2>5. QED
    BY <2>3, <2>4
<1>4. QED
  BY TypeStep, <1>1, <1>2, <1>3 DEF Next, Handle

LEMMA MarkStep ==
  ASSUME NEW r \in Requests, IInv, Mark(r)
  PROVE  IInv'
<1> USE SetupAssumption
    DEF SetupAssumption, IInv, Mark, At, Goto,
        disk, process, Answers, Writing, Live
<1>1. LoopDiscipline' /\ ProcessState'
  BY DEF TypeOK, LoopDiscipline, ProcessState, BootKey
<1>2. KeyWindow' /\ ConnectionKeyInSync' /\ ServesUnlessInterrupted'
  BY DEF TypeOK, KeyWindow, ConnectionKeyInSync, ServesUnlessInterrupted,
                 LoopDiscipline, ProcessState, Interrupted, Openable, BootKey
<1>3. Provenance' /\ SetupDoneHasAdmin' /\ OrphanAdminOnlyAtMark'
  <2>1. /\ Stored' = Stored
        /\ body' = body
    BY DEF TypeOK, Stored
  <2>2. \A x \in {keyFile', envToken', sidecar'} \ {"none", "torn"} :
          \E q \in Stored' : body'[q].key = x
    BY <2>1 DEF Provenance
  <2>3. Provenance'
    BY <2>2 DEF TypeOK, Provenance
  <2>4. SetupDoneHasAdmin' /\ OrphanAdminOnlyAtMark'
    BY DEF TypeOK, Provenance, SetupDoneHasAdmin, OrphanAdminOnlyAtMark
  <2>5. QED
    BY <2>3, <2>4
<1>4. QED
  BY TypeStep, <1>1, <1>2, <1>3 DEF Next, Handle

LEMMA MarkThrowsStep ==
  ASSUME NEW r \in Requests, IInv, MarkThrows(r)
  PROVE  IInv'
<1> USE SetupAssumption
    DEF SetupAssumption, IInv, MarkThrows, At, Goto,
        disk, process, Answers, Writing, Live
<1>1. LoopDiscipline' /\ ProcessState'
  BY DEF TypeOK, LoopDiscipline, ProcessState, BootKey
<1>2. KeyWindow' /\ ConnectionKeyInSync' /\ ServesUnlessInterrupted'
  BY DEF TypeOK, KeyWindow, ConnectionKeyInSync, ServesUnlessInterrupted,
                 LoopDiscipline, ProcessState, Interrupted, Openable, BootKey
<1>3. Provenance' /\ SetupDoneHasAdmin' /\ OrphanAdminOnlyAtMark'
  <2>1. /\ Stored' = Stored
        /\ body' = body
    BY DEF TypeOK, Stored
  <2>2. \A x \in {keyFile', envToken', sidecar'} \ {"none", "torn"} :
          \E q \in Stored' : body'[q].key = x
    BY <2>1 DEF Provenance
  <2>3. Provenance'
    BY <2>2 DEF TypeOK, Provenance
  <2>4. SetupDoneHasAdmin' /\ OrphanAdminOnlyAtMark'
    BY DEF TypeOK, Provenance, SetupDoneHasAdmin, OrphanAdminOnlyAtMark
  <2>5. QED
    BY <2>3, <2>4
<1>4. QED
  BY TypeStep, <1>1, <1>2, <1>3 DEF Next, Handle

LEMMA SidecarBootStep ==
  ASSUME IInv, SidecarBoot
  PROVE  IInv'
<1> USE SetupAssumption
    DEF SetupAssumption, IInv, SidecarBoot,
        disk, process, Answers, Writing, Live
<1>1. LoopDiscipline' /\ ProcessState'
  BY DEF TypeOK, LoopDiscipline, ProcessState, BootKey
<1>2. KeyWindow' /\ ConnectionKeyInSync' /\ ServesUnlessInterrupted'
  BY DEF TypeOK, KeyWindow, ConnectionKeyInSync, ServesUnlessInterrupted,
                 LoopDiscipline, ProcessState, Interrupted, Openable, BootKey
<1>3. Provenance' /\ SetupDoneHasAdmin' /\ OrphanAdminOnlyAtMark'
  BY DEF TypeOK, Provenance, SetupDoneHasAdmin, OrphanAdminOnlyAtMark,
                 ProcessState, Stored
<1>4. QED
  BY TypeStep, <1>1, <1>2, <1>3 DEF Next, Handle

LEMMA SidecarCrashStep ==
  ASSUME IInv, SidecarCrash
  PROVE  IInv'
<1> USE SetupAssumption
    DEF SetupAssumption, IInv, SidecarCrash,
        disk, process, Answers, Writing, Live
<1>1. LoopDiscipline' /\ ProcessState'
  BY DEF TypeOK, LoopDiscipline, ProcessState, BootKey
<1>2. KeyWindow' /\ ConnectionKeyInSync' /\ ServesUnlessInterrupted'
  BY DEF TypeOK, KeyWindow, ConnectionKeyInSync, ServesUnlessInterrupted,
                 LoopDiscipline, ProcessState, Interrupted, Openable, BootKey
<1>3. Provenance' /\ SetupDoneHasAdmin' /\ OrphanAdminOnlyAtMark'
  BY DEF TypeOK, Provenance, SetupDoneHasAdmin, OrphanAdminOnlyAtMark,
                 ProcessState, Stored
<1>4. QED
  BY TypeStep, <1>1, <1>2, <1>3 DEF Next, Handle

\* Auth/setup/route.ts and keystore.ts: IInv is inductive.
THEOREM Invariance == Spec => []IInv
<1>1. IInv /\ [Next]_vars => IInv'
  <2> SUFFICES ASSUME IInv, [Next]_vars PROVE IInv'
    OBVIOUS
  <2>1. ASSUME NEW r \in Requests, Handle(r) PROVE IInv'
    BY <2>1, CheckStep, RejectStep, StoreOpenStep, StoreWriteStep, StoreThrowsStep,
       RekeyStep, RekeyThrowsStep, InsertStep, InsertThrowsStep, MarkStep,
       MarkThrowsStep DEF Handle
  <2>2. CASE UNCHANGED vars
    BY <2>2 DEF vars, IInv, TypeOK, LoopDiscipline, ProcessState, KeyWindow, Provenance,
       ConnectionKeyInSync, ServesUnlessInterrupted, SetupDoneHasAdmin,
       OrphanAdminOnlyAtMark, Live, Stored, Interrupted, Openable, BootKey
  <2>3. QED
    BY <2>1, <2>2, BootStep, CrashStep, OtherRouteStep, SidecarBootStep,
       SidecarCrashStep DEF Next
<1>2. QED
  BY <1>1, InvariantInit, PTL DEF Spec

-----------------------------------------------------------------------------
(* The properties the runs check.                                          *)

\* However setups interleave and crash, the key file opens the database between two
\* handlers unless a failure fell between storing the key and the end of the rekey.
THEOREM OpenableSafe == Spec => []OpenableUnlessInterrupted
<1>1. IInv => OpenableUnlessInterrupted
  BY SetupAssumption DEF SetupAssumption, IInv, OpenableUnlessInterrupted, KeyWindow,
     LoopDiscipline, Interrupted, Live, Answers, Writing
<1>2. QED
  BY <1>1, Invariance, PTL

\* The dashboard serves with a handle it can read, outside that window.
THEOREM ServingSafe == Spec => []ServesUnlessInterrupted
<1>1. IInv => ServesUnlessInterrupted
  BY DEF IInv
<1>2. QED
  BY <1>1, Invariance, PTL

\* No crash leaves setup_complete set without an admin account.
THEOREM AdminSafe == Spec => []SetupDoneHasAdmin
<1>1. IInv => SetupDoneHasAdmin
  BY DEF IInv
<1>2. QED
  BY <1>1, Invariance, PTL

\* The two processes hold the same internal token unless the key was replaced.
THEOREM TokensSafe == Spec => []TokensAgreeUnlessReplaced
<1>1. IInv => TokensAgreeUnlessReplaced
  <2> SUFFICES ASSUME IInv, envToken # "none", sidecar # "none", envToken # sidecar
               PROVE  \E r, q \in Stored : body[r].key # body[q].key
    BY DEF TokensAgreeUnlessReplaced
  <2>1. envToken # "torn" /\ sidecar # "torn"
    BY SetupAssumption DEF SetupAssumption, IInv, TypeOK
  <2>2. PICK r \in Stored : body[r].key = envToken
    BY <2>1 DEF IInv, Provenance
  <2>3. PICK q \in Stored : body[q].key = sidecar
    BY <2>1 DEF IInv, Provenance
  <2>4. QED
    BY <2>2, <2>3
<1>2. QED
  BY <1>1, Invariance, PTL

\* Once setup is complete and no handler is in flight, nothing changes the disk again.
THEOREM SettledFinal == Spec => SettledIsFinal
<1>1. IInv /\ [Next]_vars => [Settled => Settled' /\ UNCHANGED disk]_vars
  <2> SUFFICES ASSUME IInv, Next, Settled PROVE Settled' /\ UNCHANGED disk
    OBVIOUS
  <2> USE DEF IInv, TypeOK, Settled, disk
  <2>1. dbKey # "none"
    BY DEF Provenance
  <2>2. CASE Boot \/ SidecarBoot \/ SidecarCrash
    BY <2>2 DEF Boot, SidecarBoot, SidecarCrash, process
  <2>3. CASE Crash
    BY <2>3 DEF Crash
  <2>4. CASE OtherRoute
    BY <2>1, <2>4 DEF OtherRoute, GetDb
  <2>5. ASSUME NEW r \in Requests, Handle(r) PROVE Settled' /\ UNCHANGED disk
    <3>1. Check(r)
      BY <2>5 DEF Handle, Reject, StoreOpen, StoreWrite, StoreThrows, Rekey,
         RekeyThrows, Insert, InsertThrows, Mark, MarkThrows, At, Answers, Writing
    <3>2. QED
      BY <2>1, <3>1 DEF Check, GetDb, Goto, Answers, Writing
  <2>6. QED
    BY <2>2, <2>3, <2>4, <2>5 DEF Next
<1>2. QED
  BY <1>1, Invariance, PTL DEF Spec, SettledIsFinal
=============================================================================
