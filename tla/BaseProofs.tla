------------------------------ MODULE BaseProofs ------------------------------
(***************************************************************************)
(* Proofs about the base classes: Thread and its guards (ThreadStart), the   *)
(* configuration variable and its listeners (Config), the tables indexed by  *)
(* descriptor (FdTable) and the loggers (LogConfig), for every number of     *)
(* threads, listeners, descriptors and loggers and every bound on the calls. *)
(***************************************************************************)
EXTENDS ThreadStart, Config, FdTable, LogConfig, TLAPS, FiniteSetTheorems

(* Thread                                                                   *)

CreatorStates == {"new", "waiting", "built", "gone"}
RunStates == {"none", "enter", "swap", "notify", "call", "guarded", "ended"}
Started == {"call", "guarded", "ended"}

ThreadType ==
    /\ creatorPc \in [Creators -> CreatorStates] /\ runPc \in [Creators -> RunStates]
    /\ m_semaphore \in [Creators -> Nat]
    /\ m_id \in [Creators -> BOOLEAN] /\ m_cbFull \in [Creators -> BOOLEAN]
    /\ localCb \in [Creators -> BOOLEAN] /\ guard \in [Creators -> BOOLEAN]

\* Until run() has notified, the creator waits in the constructor and the
\* semaphore is zero; a creator that is past it found run() past the notify.
Handshake ==
    \A c \in Creators :
        /\ creatorPc[c] = "new" => runPc[c] = "none"
        /\ runPc[c] = "none" => creatorPc[c] \in {"new", "gone"} /\ m_semaphore[c] = 0
        /\ runPc[c] \in {"enter", "swap", "notify"} => creatorPc[c] = "waiting" /\ m_semaphore[c] = 0
        /\ runPc[c] \in {"none", "enter", "swap"} => localCb[c] = FALSE
        /\ runPc[c] \in {"swap", "notify"} \cup Started => m_id[c] = TRUE
        /\ runPc[c] \in {"notify"} \cup Started => m_cbFull[c] = FALSE

\* The mutex is free or held by the one thread whose guard says so.
GuardOwner ==
    /\ lockedBy = {} \/ \E c \in Creators : lockedBy = {c}
    /\ \A c \in Creators : (guard[c] = TRUE) <=> c \in lockedBy
    /\ badUnlock = FALSE

ThreadInv == ThreadType /\ Handshake /\ GuardOwner /\ freedUse = FALSE

\* Where run() goes from each of its first three steps.
LEMMA RunThenIs ==
  /\ \A c : RunThen(c, "enter") <=> runPc' = [runPc EXCEPT ![c] = "swap"]
  /\ \A c : RunThen(c, "swap") <=> runPc' = [runPc EXCEPT ![c] = "notify"]
  /\ \A c : RunThen(c, "notify") <=> runPc' = [runPc EXCEPT ![c] = "call"]
<1> DEFINE At(l) == CHOOSE i \in 1 .. 3 : RunOrder[i] = l
<1>1. At("enter") = 1 /\ At("swap") = 2 /\ At("notify") = 3
  BY DEF RunOrder
<1>2. RunOrder[2] = "swap" /\ RunOrder[3] = "notify" /\ RunOrder[4] = "call"
  BY DEF RunOrder
<1>3. \A c, l : RunThen(c, l) <=> runPc' = [runPc EXCEPT ![c] = RunOrder[1 + At(l)]]
  BY DEF RunThen
<1> HIDE DEF At
<1>4. QED  BY <1>1, <1>2, <1>3

\* Nothing has been created yet.
LEMMA ThreadInitInv == ThreadInit => ThreadInv
<1> SUFFICES ASSUME ThreadInit PROVE ThreadInv
  OBVIOUS
<1> USE DEF ThreadInit
<1>1. ThreadType
  BY DEF ThreadType, CreatorStates, RunStates
<1>2. Handshake
  BY DEF Handshake, Started
<1>3. GuardOwner
  BY DEF GuardOwner
<1>4. QED  BY <1>1, <1>2, <1>3 DEF ThreadInv

\* Types.
LEMMA ThreadTypeStep == ThreadInv /\ [ThreadNext]_threadVars => ThreadType'
<1> SUFFICES ASSUME ThreadInv, [ThreadNext]_threadVars PROVE ThreadType'
  OBVIOUS
<1> USE DEF ThreadInv, ThreadType, CreatorStates, RunStates
<1>1. ASSUME NEW c \in Creators, CreateThread(c) PROVE ThreadType'
  BY <1>1 DEF CreateThread, lockVars
<1>2. ASSUME NEW c \in Creators, ConstructorReturns(c) PROVE ThreadType'
  BY <1>2 DEF ConstructorReturns, lockVars
<1>3. ASSUME NEW c \in Creators, JoinThread(c) PROVE ThreadType'
  BY <1>3 DEF JoinThread, lockVars
<1>4. ASSUME NEW c \in Creators, DestroyThread(c) PROVE ThreadType'
  BY <1>4 DEF DestroyThread, lockVars
<1>5. ASSUME NEW c \in Creators, RunEnter(c) PROVE ThreadType'
  BY <1>5, RunThenIs DEF RunEnter, lockVars, Touch
<1>6. ASSUME NEW c \in Creators, RunSwap(c) PROVE ThreadType'
  BY <1>6, RunThenIs DEF RunSwap, lockVars, Touch
<1>7. ASSUME NEW c \in Creators, RunNotify(c) PROVE ThreadType'
  BY <1>7, RunThenIs DEF RunNotify, lockVars, Touch
<1>8. ASSUME NEW c \in Creators, RunCall(c) PROVE ThreadType'
  BY <1>8 DEF RunCall, lockVars
<1>9. ASSUME NEW c \in Creators, EarlyUnlock(c) PROVE ThreadType'
  BY <1>9 DEF EarlyUnlock, lockVars, GuardUnlock
<1>10. ASSUME NEW c \in Creators, LockAgain(c) PROVE ThreadType'
  BY <1>10 DEF LockAgain, lockVars
<1>11. ASSUME NEW c \in Creators, RunReturns(c) PROVE ThreadType'
  BY <1>11 DEF RunReturns, lockVars, GuardUnlock
<1>12. CASE UNCHANGED threadVars
  BY <1>12 DEF threadVars, lockVars
<1>13. QED
  BY <1>1, <1>2, <1>3, <1>4, <1>5, <1>6, <1>7, <1>8, <1>9, <1>10, <1>11, <1>12 DEF ThreadNext

\* No step of run() before the notify finds the object gone.
LEMMA HandshakeStep == ThreadInv /\ [ThreadNext]_threadVars => (Handshake /\ freedUse = FALSE)'
<1> SUFFICES ASSUME ThreadInv, [ThreadNext]_threadVars PROVE (Handshake /\ freedUse = FALSE)'
  OBVIOUS
<1> USE DEF ThreadInv, ThreadType, CreatorStates, RunStates, Handshake, Started
<1>1. ASSUME NEW c \in Creators, CreateThread(c) PROVE (Handshake /\ freedUse = FALSE)'
  BY <1>1 DEF CreateThread, lockVars
<1>2. ASSUME NEW c \in Creators, ConstructorReturns(c) PROVE (Handshake /\ freedUse = FALSE)'
  BY <1>2 DEF ConstructorReturns, lockVars
<1>3. ASSUME NEW c \in Creators, JoinThread(c) PROVE (Handshake /\ freedUse = FALSE)'
  BY <1>3 DEF JoinThread, lockVars
<1>4. ASSUME NEW c \in Creators, DestroyThread(c) PROVE (Handshake /\ freedUse = FALSE)'
  BY <1>4 DEF DestroyThread, lockVars
<1>5. ASSUME NEW c \in Creators, RunEnter(c) PROVE (Handshake /\ freedUse = FALSE)'
  BY <1>5, RunThenIs DEF RunEnter, lockVars, Touch
<1>6. ASSUME NEW c \in Creators, RunSwap(c) PROVE (Handshake /\ freedUse = FALSE)'
  BY <1>6, RunThenIs DEF RunSwap, lockVars, Touch
<1>7. ASSUME NEW c \in Creators, RunNotify(c) PROVE (Handshake /\ freedUse = FALSE)'
  BY <1>7, RunThenIs DEF RunNotify, lockVars, Touch
<1>8. ASSUME NEW c \in Creators, RunCall(c) PROVE (Handshake /\ freedUse = FALSE)'
  BY <1>8 DEF RunCall, lockVars
<1>9. ASSUME NEW c \in Creators, EarlyUnlock(c) PROVE (Handshake /\ freedUse = FALSE)'
  BY <1>9 DEF EarlyUnlock, lockVars, GuardUnlock
<1>10. ASSUME NEW c \in Creators, LockAgain(c) PROVE (Handshake /\ freedUse = FALSE)'
  BY <1>10 DEF LockAgain, lockVars
<1>11. ASSUME NEW c \in Creators, RunReturns(c) PROVE (Handshake /\ freedUse = FALSE)'
  BY <1>11 DEF RunReturns, lockVars, GuardUnlock
<1>12. CASE UNCHANGED threadVars
  BY <1>12 DEF threadVars, lockVars
<1>13. QED
  BY <1>1, <1>2, <1>3, <1>4, <1>5, <1>6, <1>7, <1>8, <1>9, <1>10, <1>11, <1>12 DEF ThreadNext

\* A guard gives up only its own lock, and once.
LEMMA GuardStep == ThreadInv /\ [ThreadNext]_threadVars => GuardOwner'
<1> SUFFICES ASSUME ThreadInv, [ThreadNext]_threadVars PROVE GuardOwner'
  OBVIOUS
<1> USE DEF ThreadInv, ThreadType, CreatorStates, RunStates, GuardOwner
<1>1. ASSUME NEW c \in Creators, CreateThread(c) PROVE GuardOwner'
  BY <1>1 DEF CreateThread, lockVars
<1>2. ASSUME NEW c \in Creators, ConstructorReturns(c) PROVE GuardOwner'
  BY <1>2 DEF ConstructorReturns, lockVars
<1>3. ASSUME NEW c \in Creators, JoinThread(c) PROVE GuardOwner'
  BY <1>3 DEF JoinThread, lockVars
<1>4. ASSUME NEW c \in Creators, DestroyThread(c) PROVE GuardOwner'
  BY <1>4 DEF DestroyThread, lockVars
<1>5. ASSUME NEW c \in Creators, RunEnter(c) PROVE GuardOwner'
  BY <1>5, RunThenIs DEF RunEnter, lockVars, Touch
<1>6. ASSUME NEW c \in Creators, RunSwap(c) PROVE GuardOwner'
  BY <1>6, RunThenIs DEF RunSwap, lockVars, Touch
<1>7. ASSUME NEW c \in Creators, RunNotify(c) PROVE GuardOwner'
  BY <1>7, RunThenIs DEF RunNotify, lockVars, Touch
<1>8. ASSUME NEW c \in Creators, RunCall(c) PROVE GuardOwner'
  BY <1>8 DEF RunCall, lockVars
<1>9. ASSUME NEW c \in Creators, EarlyUnlock(c) PROVE GuardOwner'
  BY <1>9 DEF EarlyUnlock, lockVars, GuardUnlock
<1>10. ASSUME NEW c \in Creators, LockAgain(c) PROVE GuardOwner'
  BY <1>10 DEF LockAgain, lockVars
<1>11. ASSUME NEW c \in Creators, RunReturns(c) PROVE GuardOwner'
  BY <1>11 DEF RunReturns, lockVars, GuardUnlock
<1>12. CASE UNCHANGED threadVars
  BY <1>12 DEF threadVars, lockVars
<1>13. QED
  BY <1>1, <1>2, <1>3, <1>4, <1>5, <1>6, <1>7, <1>8, <1>9, <1>10, <1>11, <1>12 DEF ThreadNext

\* run() never touches a Thread its creator destroyed, a constructed Thread has
\* its id and has given its callback away, and guards unlock exactly what they
\* hold, for every number of threads (thread.cc 76-137, thread.h 42-81).
THEOREM ThreadsCorrect == ThreadInit /\ [][ThreadNext]_threadVars => []ThreadsConsistent
<1>1. ThreadInv /\ [ThreadNext]_threadVars => ThreadInv'
  BY ThreadTypeStep, HandshakeStep, GuardStep DEF ThreadInv
<1>2. ThreadInv => StartHandshake
  <2> SUFFICES ASSUME ThreadInv, NEW c \in Creators, creatorPc[c] = "built"
               PROVE m_id[c] = TRUE /\ m_cbFull[c] = FALSE
    BY DEF ThreadInv, StartHandshake
  <2>1. runPc[c] \in Started
    BY DEF ThreadInv, ThreadType, RunStates, Handshake, Started
  <2>2. QED  BY <2>1 DEF ThreadInv, Handshake
<1>3. ThreadInv => GuardsBalanced
  <2> SUFFICES ASSUME ThreadInv PROVE GuardsBalanced
    OBVIOUS
  <2>1. lockedBy = {} \/ \E c \in Creators : lockedBy = {c}
    BY DEF ThreadInv, GuardOwner
  <2>2. Cardinality(lockedBy) <= 1
    BY <2>1, FS_EmptySet, FS_Singleton
  <2>3. QED  BY <2>2 DEF ThreadInv, ThreadType, GuardOwner, GuardsBalanced
<1>4. ThreadInv => ThreadsConsistent
  BY <1>2, <1>3 DEF ThreadsConsistent
<1>5. QED  BY <1>1, <1>4, ThreadInitInv, PTL

-----------------------------------------------------------------------------
(* ConfigVar and LoadFromConfDir                                            *)

SetStates == {"idle", "compare", "notify", "write", "stat", "load"}
Texts == Contents \cup {NoContent}

ConfigType ==
    /\ m_val \in Texts /\ m_cbs \subseteq Listeners /\ copy \in [Listeners -> Texts]
    /\ setPc \in [Setters -> SetStates] /\ setArg \in [Setters -> Texts]
    /\ told \in [Setters -> SUBSET Listeners]
    /\ \A t \in Setters : setPc[t] = "notify" => t \in readers
    /\ fileTime \in Nat /\ fileText \in Texts /\ s_file2modifytime \in Nat
    /\ seenTime \in [Setters -> Nat] /\ readTime \in Nat
    /\ overlap \in BOOLEAN

\* Without overlap at most one call is under way.
OneCall ==
    overlap = FALSE => \A t, u \in Setters : setPc[t] # "idle" /\ setPc[u] # "idle" => t = u

\* Without overlap, a listener was told the stored value, or the new one where
\* the call under way has been at it.
CopiesFollow ==
    overlap = FALSE =>
        /\ (\A t \in Setters : setPc[t] \notin {"notify", "write"}) => \A l \in m_cbs : copy[l] = m_val
        /\ \A t \in Setters : setPc[t] = "notify" => \A l \in m_cbs \cap told[t] : copy[l] = setArg[t]
        /\ \A t \in Setters : setPc[t] = "write" => \A l \in m_cbs : copy[l] = setArg[t]

\* No recorded time is ahead of the file, and the recorded version was read
\* unless a loader that recorded one is still to read.
TimesOK ==
    /\ \A t \in Setters : seenTime[t] <= fileTime
    /\ s_file2modifytime <= fileTime /\ readTime <= fileTime
    /\ s_file2modifytime <= readTime \/ \E t \in Setters : setPc[t] = "load"

ConfigInv == ConfigType /\ OneCall /\ CopiesFollow /\ TimesOK

\* No call is under way and every listener has the value.
LEMMA ConfigInitInv == ConfigInit => ConfigInv
<1> SUFFICES ASSUME ConfigInit PROVE ConfigInv
  OBVIOUS
<1>1. FirstValue \in Texts
  BY ConfigAssumption DEF FirstValue, Texts
<1> USE DEF ConfigInit
<1>2. ConfigType
  BY <1>1 DEF ConfigType, SetStates
<1>3. OneCall /\ CopiesFollow /\ TimesOK
  BY DEF OneCall, CopiesFollow, TimesOK
<1>4. QED  BY <1>2, <1>3 DEF ConfigInv

\* Types, and who holds the read lock.
LEMMA ConfigTypeStep == ConfigInv /\ [ConfigNext]_configVars => ConfigType'
<1> SUFFICES ASSUME ConfigInv, [ConfigNext]_configVars PROVE ConfigType'
  OBVIOUS
<1> USE DEF ConfigInv, ConfigType, SetStates, Texts
<1>1. ASSUME NEW t \in Setters, NEW v \in Contents, SetBegin(t, v) PROVE ConfigType'
  BY <1>1 DEF SetBegin, ConfigCall, setGoto, Alone
<1>2. ASSUME NEW t \in Setters, SetCompare(t) PROVE ConfigType'
  BY <1>2 DEF SetCompare, setGoto
<1>3. ASSUME NEW t \in Setters, NEW l \in Listeners, NotifyListener(t, l) PROVE ConfigType'
  BY <1>3 DEF NotifyListener
<1>4. ASSUME NEW t \in Setters, NotifyEnd(t) PROVE ConfigType'
  BY <1>4 DEF NotifyEnd, setGoto
<1>5. ASSUME NEW t \in Setters, SetWrite(t) PROVE ConfigType'
  BY <1>5 DEF SetWrite, Stored, setGoto, Alone
<1>6. ASSUME NEW t \in Setters, LoadBegin(t) PROVE ConfigType'
  BY <1>6 DEF LoadBegin, ConfigCall, setGoto, Alone
<1>7. ASSUME NEW t \in Setters, LoadRecord(t) PROVE ConfigType'
  BY <1>7 DEF LoadRecord, Unchanged, setGoto
<1>8. ASSUME NEW t \in Setters, LoadParse(t) PROVE ConfigType'
  BY <1>8 DEF LoadParse, setGoto
<1>9. ASSUME NEW l \in Listeners, addListener(l) PROVE ConfigType'
  BY <1>9 DEF addListener
<1>10. ASSUME NEW ls \in SUBSET Listeners, delListener(ls) PROVE ConfigType'
  BY <1>10 DEF delListener
<1>11. ASSUME NEW v \in Contents \cup {NoContent}, EditFile(v) PROVE ConfigType'
  BY <1>11, ConfigAssumption DEF EditFile
<1>12. CASE UNCHANGED configVars
  BY <1>12 DEF configVars
<1>13. QED
  BY <1>1, <1>2, <1>3, <1>4, <1>5, <1>6, <1>7, <1>8, <1>9, <1>10, <1>11, <1>12 DEF ConfigNext

\* A call that starts beside another sets overlap; it is reset only by the last.
LEMMA OneCallStep == ConfigInv /\ [ConfigNext]_configVars => OneCall'
<1> SUFFICES ASSUME ConfigInv, [ConfigNext]_configVars PROVE OneCall'
  OBVIOUS
<1> USE DEF ConfigInv, ConfigType, SetStates, Texts, OneCall
<1>1. ASSUME NEW t \in Setters, NEW v \in Contents, SetBegin(t, v) PROVE OneCall'
  <2>1. overlap' = (overlap \/ ~Alone(t))
    BY <1>1 DEF SetBegin, ConfigCall
  <2>2. overlap' = FALSE => overlap = FALSE /\ Alone(t)
    BY <2>1
  <2>3. QED  BY <1>1, <2>2 DEF SetBegin, ConfigCall, setGoto, Alone
<1>2. ASSUME NEW t \in Setters, SetCompare(t) PROVE OneCall'
  BY <1>2 DEF SetCompare, setGoto
<1>3. ASSUME NEW t \in Setters, NEW l \in Listeners, NotifyListener(t, l) PROVE OneCall'
  BY <1>3 DEF NotifyListener
<1>4. ASSUME NEW t \in Setters, NotifyEnd(t) PROVE OneCall'
  BY <1>4 DEF NotifyEnd, setGoto
<1>5. ASSUME NEW t \in Setters, SetWrite(t) PROVE OneCall'
  <2>1. CASE overlap = FALSE
    BY <2>1, <1>5 DEF SetWrite, Stored, setGoto, Alone
  <2>2. CASE overlap # FALSE
    <3>1. overlap' = FALSE => Alone(t) /\ \A l \in m_cbs : copy[l] = setArg[t]
      BY <2>2, <1>5 DEF SetWrite
    <3>2. m_val' = setArg[t] /\ m_cbs' = m_cbs /\ copy' = copy /\ setPc' = [setPc EXCEPT ![t] = "idle"]
      BY <1>5 DEF SetWrite, Stored, setGoto
    <3>3. QED  BY <2>2, <3>1, <3>2 DEF Alone
  <2>3. QED  BY <2>1, <2>2
<1>6. ASSUME NEW t \in Setters, LoadBegin(t) PROVE OneCall'
  <2>1. overlap' = (overlap \/ ~Alone(t))
    BY <1>6 DEF LoadBegin, ConfigCall
  <2>2. overlap' = FALSE => overlap = FALSE /\ Alone(t)
    BY <2>1
  <2>3. QED  BY <1>6, <2>2 DEF LoadBegin, ConfigCall, setGoto, Alone
<1>7. ASSUME NEW t \in Setters, LoadRecord(t) PROVE OneCall'
  BY <1>7 DEF LoadRecord, Unchanged, setGoto
<1>8. ASSUME NEW t \in Setters, LoadParse(t) PROVE OneCall'
  BY <1>8 DEF LoadParse, setGoto
<1>9. ASSUME NEW l \in Listeners, addListener(l) PROVE OneCall'
  <2>1. overlap' = FALSE => overlap = FALSE /\ \A t \in Setters : setPc[t] = "idle"
    BY <1>9 DEF addListener
  <2>2. QED  BY <1>9, <2>1 DEF addListener
<1>10. ASSUME NEW ls \in SUBSET Listeners, delListener(ls) PROVE OneCall'
  BY <1>10 DEF delListener
<1>11. ASSUME NEW v \in Contents \cup {NoContent}, EditFile(v) PROVE OneCall'
  BY <1>11 DEF EditFile
<1>12. CASE UNCHANGED configVars
  BY <1>12 DEF configVars
<1>13. QED
  BY <1>1, <1>2, <1>3, <1>4, <1>5, <1>6, <1>7, <1>8, <1>9, <1>10, <1>11, <1>12 DEF ConfigNext

\* Listeners change only while nobody notifies.
LEMMA CopiesStep == ConfigInv /\ [ConfigNext]_configVars => CopiesFollow'
<1> SUFFICES ASSUME ConfigInv, [ConfigNext]_configVars PROVE CopiesFollow'
  OBVIOUS
<1> USE DEF ConfigInv, ConfigType, SetStates, Texts, OneCall, CopiesFollow
<1>1. ASSUME NEW t \in Setters, NEW v \in Contents, SetBegin(t, v) PROVE CopiesFollow'
  <2>1. overlap' = (overlap \/ ~Alone(t))
    BY <1>1 DEF SetBegin, ConfigCall
  <2>2. overlap' = FALSE => overlap = FALSE /\ Alone(t)
    BY <2>1
  <2>3. QED  BY <1>1, <2>2 DEF SetBegin, ConfigCall, setGoto, Alone
<1>2. ASSUME NEW t \in Setters, SetCompare(t) PROVE CopiesFollow'
  BY <1>2 DEF SetCompare, setGoto
<1>3. ASSUME NEW t \in Setters, NEW l \in Listeners, NotifyListener(t, l) PROVE CopiesFollow'
  BY <1>3 DEF NotifyListener
<1>4. ASSUME NEW t \in Setters, NotifyEnd(t) PROVE CopiesFollow'
  BY <1>4 DEF NotifyEnd, setGoto
<1>5. ASSUME NEW t \in Setters, SetWrite(t) PROVE CopiesFollow'
  <2>1. CASE overlap = FALSE
    BY <2>1, <1>5 DEF SetWrite, Stored, setGoto, Alone
  <2>2. CASE overlap # FALSE
    <3>1. overlap' = FALSE => Alone(t) /\ \A l \in m_cbs : copy[l] = setArg[t]
      BY <2>2, <1>5 DEF SetWrite
    <3>2. m_val' = setArg[t] /\ m_cbs' = m_cbs /\ copy' = copy /\ setPc' = [setPc EXCEPT ![t] = "idle"]
      BY <1>5 DEF SetWrite, Stored, setGoto
    <3>3. QED  BY <2>2, <3>1, <3>2 DEF Alone
  <2>3. QED  BY <2>1, <2>2
<1>6. ASSUME NEW t \in Setters, LoadBegin(t) PROVE CopiesFollow'
  <2>1. overlap' = (overlap \/ ~Alone(t))
    BY <1>6 DEF LoadBegin, ConfigCall
  <2>2. overlap' = FALSE => overlap = FALSE /\ Alone(t)
    BY <2>1
  <2>3. QED  BY <1>6, <2>2 DEF LoadBegin, ConfigCall, setGoto, Alone
<1>7. ASSUME NEW t \in Setters, LoadRecord(t) PROVE CopiesFollow'
  BY <1>7 DEF LoadRecord, Unchanged, setGoto
<1>8. ASSUME NEW t \in Setters, LoadParse(t) PROVE CopiesFollow'
  BY <1>8 DEF LoadParse, setGoto
<1>9. ASSUME NEW l \in Listeners, addListener(l) PROVE CopiesFollow'
  <2>1. overlap' = FALSE => overlap = FALSE /\ \A t \in Setters : setPc[t] = "idle"
    BY <1>9 DEF addListener
  <2>2. QED  BY <1>9, <2>1 DEF addListener
<1>10. ASSUME NEW ls \in SUBSET Listeners, delListener(ls) PROVE CopiesFollow'
  BY <1>10 DEF delListener
<1>11. ASSUME NEW v \in Contents \cup {NoContent}, EditFile(v) PROVE CopiesFollow'
  BY <1>11 DEF EditFile
<1>12. CASE UNCHANGED configVars
  BY <1>12 DEF configVars
<1>13. QED
  BY <1>1, <1>2, <1>3, <1>4, <1>5, <1>6, <1>7, <1>8, <1>9, <1>10, <1>11, <1>12 DEF ConfigNext

\* Recording an older time than was read does no harm.
LEMMA TimesStep == ConfigInv /\ [ConfigNext]_configVars => TimesOK'
<1> SUFFICES ASSUME ConfigInv, [ConfigNext]_configVars PROVE TimesOK'
  OBVIOUS
<1> USE DEF ConfigInv, ConfigType, SetStates, Texts, TimesOK
<1>1. ASSUME NEW t \in Setters, NEW v \in Contents, SetBegin(t, v) PROVE TimesOK'
  BY <1>1 DEF SetBegin, ConfigCall, setGoto, Alone
<1>2. ASSUME NEW t \in Setters, SetCompare(t) PROVE TimesOK'
  BY <1>2 DEF SetCompare, setGoto
<1>3. ASSUME NEW t \in Setters, NEW l \in Listeners, NotifyListener(t, l) PROVE TimesOK'
  BY <1>3 DEF NotifyListener
<1>4. ASSUME NEW t \in Setters, NotifyEnd(t) PROVE TimesOK'
  BY <1>4 DEF NotifyEnd, setGoto
<1>5. ASSUME NEW t \in Setters, SetWrite(t) PROVE TimesOK'
  BY <1>5 DEF SetWrite, Stored, setGoto, Alone
<1>6. ASSUME NEW t \in Setters, LoadBegin(t) PROVE TimesOK'
  BY <1>6 DEF LoadBegin, ConfigCall, setGoto, Alone
<1>7. ASSUME NEW t \in Setters, LoadRecord(t) PROVE TimesOK'
  BY <1>7 DEF LoadRecord, Unchanged, setGoto
<1>8. ASSUME NEW t \in Setters, LoadParse(t) PROVE TimesOK'
  BY <1>8 DEF LoadParse, setGoto
<1>9. ASSUME NEW l \in Listeners, addListener(l) PROVE TimesOK'
  BY <1>9 DEF addListener
<1>10. ASSUME NEW ls \in SUBSET Listeners, delListener(ls) PROVE TimesOK'
  BY <1>10 DEF delListener
<1>11. ASSUME NEW v \in Contents \cup {NoContent}, EditFile(v) PROVE TimesOK'
  <2>1. fileTime' \in Nat /\ fileTime' >= fileTime
    BY <1>11, ConfigAssumption DEF EditFile
  <2>2. QED  BY <1>11, <2>1 DEF EditFile
<1>12. CASE UNCHANGED configVars
  BY <1>12 DEF configVars
<1>13. QED
  BY <1>1, <1>2, <1>3, <1>4, <1>5, <1>6, <1>7, <1>8, <1>9, <1>10, <1>11, <1>12 DEF ConfigNext

\* When no call is under way every listener has the stored value, unless calls
\* overlapped; and a file that LoadFromConfDir skips was read when it had the
\* modification time it has now, for every number of threads and listeners and
\* every interleaving of calls and edits, several in a second included
\* (config.h 408-425, config.cc 102-124).
THEOREM ConfigCorrect == ConfigInit /\ [][ConfigNext]_configVars => []ConfigConsistent
<1>1. ConfigInv /\ [ConfigNext]_configVars => ConfigInv'
  BY ConfigTypeStep, OneCallStep, CopiesStep, TimesStep DEF ConfigInv
<1>2. ConfigInv => ListenersAgree
  BY DEF ConfigInv, CopiesFollow, ListenersAgree
<1>3. ConfigInv => SkippedWasRead
  BY DEF ConfigInv, ConfigType, TimesOK, SkippedWasRead
<1>4. QED  BY <1>1, <1>2, <1>3, ConfigInitInv, PTL DEF ConfigConsistent

-----------------------------------------------------------------------------
(* FdManager and IOManager::m_fdContexts                                     *)

FdStates == {"idle", "get", "create", "del", "close_f", "resize", "register"}

FdType ==
    /\ opened \in [FdRange -> Nat] /\ hookedFd \subseteq FdRange /\ sockets \in Nat
    /\ m_datas \in [FdRange -> Nat] /\ datasSize \in Nat
    /\ contexts \in [FdRange -> Nat] /\ contextsSize \in Nat /\ made \in Nat
    /\ registered \subseteq FdRange \X Nat
    /\ fdPc \in [FdUsers -> FdStates] /\ fdArg \in [FdUsers -> FdRange]
    /\ fdPtr \in [FdUsers -> Nat] /\ decided \in [FdUsers -> Nat]
    /\ staleGrowth \in BOOLEAN

\* Tables never shrink below two, where fd * 1.5 is past fd.
SizesOK ==
    /\ datasSize >= 2 /\ contextsSize >= 2
    /\ \A t \in FdUsers : fdPc[t] = "resize" => fdArg[t] >= decided[t] /\ decided[t] >= 2
    /\ outOfBounds = FALSE

\* A call is alone with its descriptor, which stays open under it; a thread
\* that forgets the FdCtx is a hooked one.
CallsExclusive ==
    /\ \A t, u \in FdUsers : fdPc[t] # "idle" /\ fdPc[u] # "idle" /\ fdArg[t] = fdArg[u] => t = u
    /\ \A t \in FdUsers : fdPc[t] # "idle" => opened[fdArg[t]] # 0
    /\ \A t \in FdUsers : fdPc[t] = "del" => t \in HookedUsers

\* A call of open or close is between two of its steps on fd.
Changing(fd) ==
    \E t \in FdUsers : fdPc[t] \in {"get", "create", "del", "close_f"} /\ fdArg[t] = fd

\* Apart from descriptors an unhooked thread closed, FdManager knows no closed
\* descriptor, a new one only once get has built its FdCtx, and none that is
\* about to be closed.
DatasCurrent ==
    /\ \A fd \in FdRange \ leaked : opened[fd] = 0 => m_datas[fd] = 0
    /\ \A fd \in hookedFd \ leaked : opened[fd] # 0 /\ ~Changing(fd) => m_datas[fd] = opened[fd]
    /\ \A t \in FdUsers :
          fdPc[t] \in {"get", "create", "close_f"} /\ fdArg[t] \notin leaked => m_datas[fdArg[t]] = 0

\* A pointer a thread will register, and every registered one, is in the table.
ContextsKept ==
    staleGrowth = FALSE =>
        /\ \A r \in registered : r[1] < contextsSize /\ contexts[r[1]] = r[2]
        /\ \A t \in FdUsers : fdPc[t] = "register" =>
              fdArg[t] < contextsSize /\ contexts[fdArg[t]] = fdPtr[t]

FdInv == FdType /\ SizesOK /\ CallsExclusive /\ DatasCurrent /\ ContextsKept

\* fd * 1.5 rounds down to something larger than fd, from two on.
LEMMA GrownPast == \A n \in Nat : GrownSize(n) \in Nat /\ (n >= 2 => GrownSize(n) > n)
BY DEF GrownSize

\* close() on a hooked thread forgets the FdCtx and then closes, elsewhere it
\* only closes.
LEMMA CloseOrder ==
  ASSUME NEW t
  PROVE  /\ CloseSteps(t \in HookedUsers)[1] = (IF t \in HookedUsers THEN "del" ELSE "close_f")
         /\ CloseThen(t, "close_f") => fdPc' = [fdPc EXCEPT ![t] = "idle"]
         /\ t \in HookedUsers /\ CloseThen(t, "del") => fdPc' = [fdPc EXCEPT ![t] = "close_f"]
         /\ t \notin HookedUsers /\ CloseThen(t, "del") => fdPc' = [fdPc EXCEPT ![t] = "idle"]
<1>1. CASE t \in HookedUsers
  <2> DEFINE s == <<"del", "close_f">>
  <2>1. CloseSteps(t \in HookedUsers) = s
    BY <1>1 DEF CloseSteps
  <2>2. ~\E i \in DOMAIN s : i > 1 /\ s[i - 1] = "close_f"
    OBVIOUS
  <2>3. 2 \in DOMAIN s /\ \A i \in DOMAIN s : (i > 1 /\ s[i - 1] = "del") <=> i = 2
    OBVIOUS
  <2>4. (CHOOSE i \in DOMAIN s : i > 1 /\ s[i - 1] = "del") = 2
    BY <2>3
  <2>5. s[1] = "del" /\ s[2] = "close_f"
    OBVIOUS
  <2> HIDE DEF s
  <2>6. CloseThen(t, "del") => fdPc' = [fdPc EXCEPT ![t] = s[CHOOSE i \in DOMAIN s : i > 1 /\ s[i - 1] = "del"]]
    BY <2>1, <2>3 DEF CloseThen, fdGoto
  <2>7. CloseThen(t, "close_f") => fdPc' = [fdPc EXCEPT ![t] = "idle"]
    BY <2>1, <2>2 DEF CloseThen, fdGoto
  <2>8. QED  BY <1>1, <2>1, <2>4, <2>5, <2>6, <2>7
<1>2. CASE t \notin HookedUsers
  <2> DEFINE s == <<"close_f">>
  <2>1. CloseSteps(t \in HookedUsers) = s
    BY <1>2 DEF CloseSteps
  <2>2. \A l : ~\E i \in DOMAIN s : i > 1 /\ s[i - 1] = l
    OBVIOUS
  <2>3. s[1] = "close_f"
    OBVIOUS
  <2> HIDE DEF s
  <2>4. \A l : CloseThen(t, l) => fdPc' = [fdPc EXCEPT ![t] = "idle"]
    BY <2>1, <2>2 DEF CloseThen, fdGoto
  <2>5. QED  BY <1>2, <2>1, <2>3, <2>4
<1>3. QED  BY <1>1, <1>2

\* Descriptors are natural numbers.
LEMMA FdNat == \A fd \in FdRange : fd \in Nat
BY FdTableAssumption DEF FdRange

\* Both tables are empty.
LEMMA FdInitInv == FdInit => FdInv
<1> SUFFICES ASSUME FdInit PROVE FdInv
  OBVIOUS
<1> USE FdTableAssumption DEF FdInit
<1>1. FdType
  <2>1. 0 \in FdRange
    BY DEF FdRange
  <2>2. contexts \in [FdRange -> Nat]
    OBVIOUS
  <2>3. QED  BY <2>1, <2>2 DEF FdType, FdStates
<1>2. SizesOK /\ CallsExclusive /\ DatasCurrent /\ ContextsKept
  BY DEF SizesOK, CallsExclusive, DatasCurrent, ContextsKept, Changing
<1>3. QED  BY <1>1, <1>2 DEF FdInv

\* Types.
LEMMA FdTypeStep == FdInv /\ [FdNext]_fdTableVars => FdType'
<1> SUFFICES ASSUME FdInv, [FdNext]_fdTableVars PROVE FdType'
  OBVIOUS
<1> USE FdTableAssumption, FdNat DEF FdInv, FdType, FdStates, SizesOK
<1>1. ASSUME NEW t \in FdUsers, NEW fd \in FdRange, OpenSocket(t, fd) PROVE FdType'
  BY <1>1 DEF OpenSocket, FdCall, fdGoto
<1>2. ASSUME NEW t \in FdUsers, NEW fd \in FdRange, CloseBegin(t, fd) PROVE FdType'
  BY <1>2, CloseOrder DEF CloseBegin, FdCall, fdGoto, InUse
<1>3. ASSUME NEW t \in FdUsers, NEW fd \in FdRange, ContextRead(t, fd) PROVE FdType'
  BY <1>3 DEF ContextRead, FdCall, fdGoto, InUse
<1>4. ASSUME NEW t \in FdUsers, NEW fd \in FdRange, CancelEvents(t, fd) PROVE FdType'
  BY <1>4 DEF CancelEvents, FdCall
<1>5. ASSUME NEW t \in FdUsers, GetRead(t) PROVE FdType'
  BY <1>5 DEF GetRead, fdGoto
<1>6. ASSUME NEW t \in FdUsers, GetCreate(t) PROVE FdType'
  BY <1>6, GrownPast DEF GetCreate, fdGoto
<1>7. ASSUME NEW t \in FdUsers, CloseDel(t) PROVE FdType'
  BY <1>7, CloseOrder DEF CloseDel
<1>8. ASSUME NEW t \in FdUsers, CloseKernel(t) PROVE FdType'
  BY <1>8, CloseOrder DEF CloseKernel
<1>9. ASSUME NEW t \in FdUsers, contextResize(t) PROVE FdType'
  BY <1>9, GrownPast DEF contextResize, fdGoto, Resized
<1>10. ASSUME NEW t \in FdUsers, RegisterEvent(t) PROVE FdType'
  BY <1>10 DEF RegisterEvent, fdGoto
<1>11. CASE UNCHANGED fdTableVars
  BY <1>11 DEF fdTableVars
<1>12. QED
  BY <1>1, <1>2, <1>3, <1>4, <1>5, <1>6, <1>7, <1>8, <1>9, <1>10, <1>11 DEF FdNext

\* Each table is grown past the index that is used.
LEMMA SizesStep == FdInv /\ [FdNext]_fdTableVars => SizesOK'
<1> SUFFICES ASSUME FdInv, [FdNext]_fdTableVars PROVE SizesOK'
  OBVIOUS
<1> USE FdTableAssumption, FdNat DEF FdInv, FdType, FdStates, SizesOK
<1>1. ASSUME NEW t \in FdUsers, NEW fd \in FdRange, OpenSocket(t, fd) PROVE SizesOK'
  BY <1>1 DEF OpenSocket, FdCall, fdGoto
<1>2. ASSUME NEW t \in FdUsers, NEW fd \in FdRange, CloseBegin(t, fd) PROVE SizesOK'
  BY <1>2, CloseOrder DEF CloseBegin, FdCall, fdGoto, InUse
<1>3. ASSUME NEW t \in FdUsers, NEW fd \in FdRange, ContextRead(t, fd) PROVE SizesOK'
  BY <1>3 DEF ContextRead, FdCall, fdGoto, InUse
<1>4. ASSUME NEW t \in FdUsers, NEW fd \in FdRange, CancelEvents(t, fd) PROVE SizesOK'
  BY <1>4 DEF CancelEvents, FdCall
<1>5. ASSUME NEW t \in FdUsers, GetRead(t) PROVE SizesOK'
  BY <1>5 DEF GetRead, fdGoto
<1>6. ASSUME NEW t \in FdUsers, GetCreate(t) PROVE SizesOK'
  <2>1. datasSize' \in Nat /\ datasSize' >= datasSize /\ datasSize' > fdArg[t]
    BY <1>6, GrownPast DEF GetCreate
  <2>2. outOfBounds' = (outOfBounds \/ fdArg[t] >= datasSize') /\ ~(fdArg[t] >= datasSize')
    BY <1>6, <2>1, GrownPast DEF GetCreate
  <2>3. outOfBounds' = FALSE
    BY <2>2, Zenon
  <2>4. QED  BY <1>6, <2>1, <2>3 DEF GetCreate, fdGoto
<1>7. ASSUME NEW t \in FdUsers, CloseDel(t) PROVE SizesOK'
  BY <1>7, CloseOrder DEF CloseDel
<1>8. ASSUME NEW t \in FdUsers, CloseKernel(t) PROVE SizesOK'
  BY <1>8, CloseOrder DEF CloseKernel
<1>9. ASSUME NEW t \in FdUsers, contextResize(t) PROVE SizesOK'
  <2>1. contextsSize' = GrownSize(fdArg[t]) /\ contextsSize' > fdArg[t] /\ contextsSize' >= 2
    BY <1>9, GrownPast DEF contextResize
  <2>2. outOfBounds' = (outOfBounds \/ fdArg[t] >= contextsSize') /\ ~(fdArg[t] >= contextsSize')
    BY <1>9, <2>1, GrownPast DEF contextResize
  <2>3. outOfBounds' = FALSE
    BY <2>2, Zenon
  <2>4. QED  BY <1>9, <2>1, <2>3 DEF contextResize, fdGoto
<1>10. ASSUME NEW t \in FdUsers, RegisterEvent(t) PROVE SizesOK'
  BY <1>10 DEF RegisterEvent, fdGoto
<1>11. CASE UNCHANGED fdTableVars
  BY <1>11 DEF fdTableVars
<1>12. QED
  BY <1>1, <1>2, <1>3, <1>4, <1>5, <1>6, <1>7, <1>8, <1>9, <1>10, <1>11 DEF FdNext

\* Only socket() takes a descriptor that another call uses, and it takes closed ones.
LEMMA ExclusiveStep == FdInv /\ [FdNext]_fdTableVars => CallsExclusive'
<1> SUFFICES ASSUME FdInv, [FdNext]_fdTableVars PROVE CallsExclusive'
  OBVIOUS
<1> USE FdTableAssumption, FdNat DEF FdInv, FdType, FdStates, CallsExclusive
<1>1. ASSUME NEW t \in FdUsers, NEW fd \in FdRange, OpenSocket(t, fd) PROVE CallsExclusive'
  BY <1>1 DEF OpenSocket, FdCall, fdGoto
<1>2. ASSUME NEW t \in FdUsers, NEW fd \in FdRange, CloseBegin(t, fd) PROVE CallsExclusive'
  <2>1. fdPc' = [fdPc EXCEPT ![t] = IF t \in HookedUsers THEN "del" ELSE "close_f"]
    BY <1>2, CloseOrder DEF CloseBegin, fdGoto
  <2>2. QED  BY <1>2, <2>1 DEF CloseBegin, FdCall, InUse
<1>3. ASSUME NEW t \in FdUsers, NEW fd \in FdRange, ContextRead(t, fd) PROVE CallsExclusive'
  BY <1>3 DEF ContextRead, FdCall, fdGoto, InUse
<1>4. ASSUME NEW t \in FdUsers, NEW fd \in FdRange, CancelEvents(t, fd) PROVE CallsExclusive'
  BY <1>4 DEF CancelEvents, FdCall
<1>5. ASSUME NEW t \in FdUsers, GetRead(t) PROVE CallsExclusive'
  BY <1>5 DEF GetRead, fdGoto
<1>6. ASSUME NEW t \in FdUsers, GetCreate(t) PROVE CallsExclusive'
  BY <1>6, GrownPast DEF GetCreate, fdGoto
<1>7. ASSUME NEW t \in FdUsers, CloseDel(t) PROVE CallsExclusive'
  BY <1>7, CloseOrder DEF CloseDel
<1>8. ASSUME NEW t \in FdUsers, CloseKernel(t) PROVE CallsExclusive'
  BY <1>8, CloseOrder DEF CloseKernel
<1>9. ASSUME NEW t \in FdUsers, contextResize(t) PROVE CallsExclusive'
  BY <1>9, GrownPast DEF contextResize, fdGoto, Resized
<1>10. ASSUME NEW t \in FdUsers, RegisterEvent(t) PROVE CallsExclusive'
  BY <1>10 DEF RegisterEvent, fdGoto
<1>11. CASE UNCHANGED fdTableVars
  BY <1>11 DEF fdTableVars
<1>12. QED
  BY <1>1, <1>2, <1>3, <1>4, <1>5, <1>6, <1>7, <1>8, <1>9, <1>10, <1>11 DEF FdNext

\* FdManager follows the kernel.
LEMMA DatasStep == FdInv /\ [FdNext]_fdTableVars => DatasCurrent'
<1> SUFFICES ASSUME FdInv, [FdNext]_fdTableVars PROVE DatasCurrent'
  OBVIOUS
<1> USE FdTableAssumption, FdNat DEF FdInv, FdType, FdStates, CallsExclusive, DatasCurrent,
      Changing
<1>1. ASSUME NEW t \in FdUsers, NEW fd \in FdRange, OpenSocket(t, fd) PROVE DatasCurrent'
  BY <1>1 DEF OpenSocket, FdCall, fdGoto
<1>2. ASSUME NEW t \in FdUsers, NEW fd \in FdRange, CloseBegin(t, fd) PROVE DatasCurrent'
  BY <1>2, CloseOrder DEF CloseBegin, FdCall, fdGoto, InUse
<1>3. ASSUME NEW t \in FdUsers, NEW fd \in FdRange, ContextRead(t, fd) PROVE DatasCurrent'
  BY <1>3 DEF ContextRead, FdCall, fdGoto, InUse
<1>4. ASSUME NEW t \in FdUsers, NEW fd \in FdRange, CancelEvents(t, fd) PROVE DatasCurrent'
  BY <1>4 DEF CancelEvents, FdCall
<1>5. ASSUME NEW t \in FdUsers, GetRead(t) PROVE DatasCurrent'
  BY <1>5 DEF GetRead, fdGoto
<1>6. ASSUME NEW t \in FdUsers, GetCreate(t) PROVE DatasCurrent'
  BY <1>6, GrownPast DEF GetCreate, fdGoto
<1>7. ASSUME NEW t \in FdUsers, CloseDel(t) PROVE DatasCurrent'
  BY <1>7, CloseOrder DEF CloseDel
<1>8. ASSUME NEW t \in FdUsers, CloseKernel(t) PROVE DatasCurrent'
  BY <1>8, CloseOrder DEF CloseKernel
<1>9. ASSUME NEW t \in FdUsers, contextResize(t) PROVE DatasCurrent'
  BY <1>9, GrownPast DEF contextResize, fdGoto, Resized
<1>10. ASSUME NEW t \in FdUsers, RegisterEvent(t) PROVE DatasCurrent'
  BY <1>10 DEF RegisterEvent, fdGoto
<1>11. CASE UNCHANGED fdTableVars
  BY <1>11 DEF fdTableVars
<1>12. QED
  BY <1>1, <1>2, <1>3, <1>4, <1>5, <1>6, <1>7, <1>8, <1>9, <1>10, <1>11 DEF FdNext

\* A table grown on a current decision keeps every FdContext.
LEMMA ContextsStep == FdInv /\ [FdNext]_fdTableVars => ContextsKept'
<1> SUFFICES ASSUME FdInv, [FdNext]_fdTableVars PROVE ContextsKept'
  OBVIOUS
<1> USE FdTableAssumption, FdNat DEF FdInv, FdType, FdStates, SizesOK, ContextsKept
<1>1. ASSUME NEW t \in FdUsers, NEW fd \in FdRange, OpenSocket(t, fd) PROVE ContextsKept'
  BY <1>1 DEF OpenSocket, FdCall, fdGoto
<1>2. ASSUME NEW t \in FdUsers, NEW fd \in FdRange, CloseBegin(t, fd) PROVE ContextsKept'
  BY <1>2, CloseOrder DEF CloseBegin, FdCall, fdGoto, InUse
<1>3. ASSUME NEW t \in FdUsers, NEW fd \in FdRange, ContextRead(t, fd) PROVE ContextsKept'
  BY <1>3 DEF ContextRead, FdCall, fdGoto, InUse
<1>4. ASSUME NEW t \in FdUsers, NEW fd \in FdRange, CancelEvents(t, fd) PROVE ContextsKept'
  BY <1>4 DEF CancelEvents, FdCall
<1>5. ASSUME NEW t \in FdUsers, GetRead(t) PROVE ContextsKept'
  BY <1>5 DEF GetRead, fdGoto
<1>6. ASSUME NEW t \in FdUsers, GetCreate(t) PROVE ContextsKept'
  BY <1>6, GrownPast DEF GetCreate, fdGoto
<1>7. ASSUME NEW t \in FdUsers, CloseDel(t) PROVE ContextsKept'
  BY <1>7, CloseOrder DEF CloseDel
<1>8. ASSUME NEW t \in FdUsers, CloseKernel(t) PROVE ContextsKept'
  BY <1>8, CloseOrder DEF CloseKernel
<1>9. ASSUME NEW t \in FdUsers, contextResize(t) PROVE ContextsKept'
  <2> SUFFICES ASSUME staleGrowth' = FALSE PROVE ContextsKept'
    BY DEF ContextsKept
  <2>1. staleGrowth' = (staleGrowth \/ contextsSize # decided[t])
    BY <1>9 DEF contextResize
  <2>2. staleGrowth = FALSE /\ contextsSize = decided[t]
    BY <2>1
  <2>3. contextsSize' = GrownSize(fdArg[t]) /\ contextsSize' > fdArg[t] /\ contextsSize' > contextsSize
    BY <1>9, <2>2, GrownPast DEF contextResize
  <2>4. contexts' = Resized(GrownSize(fdArg[t])) /\ fdPtr' = [fdPtr EXCEPT ![t] = contexts'[fdArg[t]]]
    BY <1>9 DEF contextResize
  <2>5. \A i \in FdRange : i < contextsSize => contexts'[i] = contexts[i]
    BY <2>3, <2>4, GrownPast DEF Resized
  <2>6. registered' = registered /\ fdArg' = fdArg /\ fdPc' = [fdPc EXCEPT ![t] = "register"]
    BY <1>9 DEF contextResize, fdGoto
  <2>7. \A r \in registered : r[1] \in FdRange
    OBVIOUS
  <2>8. \A r \in registered' : r[1] < contextsSize' /\ contexts'[r[1]] = r[2]
    BY <2>2, <2>3, <2>5, <2>6, <2>7, GrownPast
  <2>9. \A u \in FdUsers : fdPc'[u] = "register" =>
              fdArg'[u] < contextsSize' /\ contexts'[fdArg'[u]] = fdPtr'[u]
    BY <2>2, <2>3, <2>4, <2>5, <2>6, GrownPast
  <2>10. QED  BY <2>8, <2>9
<1>10. ASSUME NEW t \in FdUsers, RegisterEvent(t) PROVE ContextsKept'
  BY <1>10 DEF RegisterEvent, fdGoto
<1>11. CASE UNCHANGED fdTableVars
  BY <1>11 DEF fdTableVars
<1>12. QED
  BY <1>1, <1>2, <1>3, <1>4, <1>5, <1>6, <1>7, <1>8, <1>9, <1>10, <1>11 DEF FdNext

\* FdManager has the FdCtx of the socket that is open, neither table is indexed
\* past its end, and a registered FdContext is found again, for every number of
\* threads and descriptors (fd_manager.cc 101-147, iomanager.cc 131-150); the
\* histories leaked and staleGrowth mark the exceptions the code has.
THEOREM FdTablesCorrect == FdInit /\ [][FdNext]_fdTableVars => []FdTablesConsistent
<1>1. FdInv /\ [FdNext]_fdTableVars => FdInv'
  BY FdTypeStep, SizesStep, ExclusiveStep, DatasStep, ContextsStep DEF FdInv
<1>2. FdInv => ContextIsCurrent
  BY DEF FdInv, FdType, DatasCurrent, Changing, ContextIsCurrent, InUse
<1>3. FdInv => NoOutOfBounds /\ RegisteredInTable
  BY DEF FdInv, FdType, SizesOK, ContextsKept, NoOutOfBounds, RegisteredInTable
<1>4. QED  BY <1>1, <1>2, <1>3, FdInitInv, PTL DEF FdTablesConsistent

-----------------------------------------------------------------------------
(* Loggers                                                                  *)

\* The configurations the listener may be called with, and the patterns that
\* can get into a formatter.
Targets == LogDefines \cup {[l \in LoggerNames |-> NoDefine]}
Formats == {Default, "A", "bad", ""} \cup UNION {{d[l].fmt : l \in LoggerNames} : d \in Targets}
AppenderState == [fmt : Formats, own : BOOLEAN, level : Int]

\* Where a listener may be.
Visits == [l : LoggerNames, step : {"format", "clear", "append"}, n : Nat]
Places == {Nowhere} \cup Visits
Calls == [pc : {"idle", "run", "store"}, target : Targets, todo : SUBSET LoggerNames, at : Places]

FormatType ==
    /\ formatter \in [LoggerNames -> Formats]
    /\ appenders \in [LoggerNames -> Seq(AppenderState)]

LogType ==
    /\ FormatType
    /\ DOMAIN level = LoggerNames /\ DOMAIN written = LogThreads
    /\ call \in [LogSetters -> Calls]
    /\ mixed \in BOOLEAN

\* A setter that is not in setValue has nothing to do, one about to store is done
\* with the listener, a logger is visited once, and unless calls were mixed there is
\* one at a time.
CallsOK ==
    /\ \A r \in LogSetters :
          /\ call[r].pc = "idle" => call[r] = NoCall
          /\ call[r].pc = "store" => call[r].todo = {} /\ call[r].at = Nowhere
          /\ call[r].at # Nowhere => call[r].at.l \notin call[r].todo
    /\ mixed = FALSE =>
          \A r, q \in LogSetters : call[r].pc # "idle" /\ call[q].pc # "idle" => r = q

\* The logger l is as the definition d says.
Settled(l, d) ==
    IF d = NoDefine
    THEN \/ level[l] = 1 /\ appenders[l] = FirstAppenders(l)
         \/ level[l] = Off /\ appenders[l] = <<>>
    ELSE /\ level[l] = d.level
         /\ Len(appenders[l]) = Len(d.appenders)
         /\ \A i \in DOMAIN appenders[l] : appenders[l][i].own = (d.appenders[i] = "bad")

\* A listener is at l: its level is set, and of its appenders the first at.n.
Underway(at, l, d) ==
    IF d = NoDefine
    THEN at.step = "clear" /\ level[l] = Off
    ELSE /\ level[l] = d.level
         /\ at.step # "append" => at.n = 0
         /\ at.step = "append" =>
              /\ Len(appenders[l]) = at.n
              /\ \A i \in DOMAIN appenders[l] : appenders[l][i].own = (d.appenders[i] = "bad")

\* How far the call c has brought l.
Brought(c, l) ==
    IF l \in c.todo THEN Settled(l, logs[l])
    ELSE IF c.at # Nowhere /\ c.at.l = l THEN Underway(c.at, l, c.target[l])
    ELSE Settled(l, c.target[l])

\* The loggers the program leaves alone follow the value, or the call under way.
LoggersFollow ==
    mixed = FALSE =>
        /\ (\A r \in LogSetters : call[r].pc = "idle") =>
              \A l \in LoggerNames \ touched : Settled(l, logs[l])
        /\ \A r \in LogSetters : call[r].pc # "idle" =>
              \A l \in LoggerNames \ touched : Brought(call[r], l)

LogInv == LogType /\ InheritedInSync /\ CallsOK /\ LoggersFollow

\* The configuration is the initial one.
LEMMA LogInitInv == LogInit => LogInv
<1> SUFFICES ASSUME LogInit PROVE LogInv
  OBVIOUS
<1> USE DEF LogInit
<1>1. \A l \in LoggerNames : FirstAppenders(l) \in Seq(AppenderState)
  <2>1. [fmt |-> Default, own |-> FALSE, level |-> 1] \in AppenderState
    BY DEF AppenderState, Formats
  <2>2. QED  BY <2>1 DEF FirstAppenders
<1>2. Default \in Formats
  BY DEF Formats
<1>3. NoCall \in Calls
  BY DEF NoCall, Calls, Places, Targets
<1>4. LogType
  BY <1>1, <1>2, <1>3 DEF LogType, FormatType
<1>5. InheritedInSync
  BY DEF InheritedInSync, FirstAppenders
<1>6. CallsOK
  BY DEF CallsOK, NoCall
<1>7. LoggersFollow
  BY DEF LoggersFollow, Settled, NoCall
<1>8. QED  BY <1>4, <1>5, <1>6, <1>7 DEF LogInv

\* The patterns the program and the configuration use are among them.
LEMMA FormatsHave ==
  /\ {Default, "A", "bad", ""} \subseteq Formats
  /\ \A d \in Targets, l \in LoggerNames : d[l].fmt \in Formats
<1>1. {Default, "A", "bad", ""} \subseteq Formats
  BY DEF Formats
<1>2. ASSUME NEW d \in Targets, NEW l \in LoggerNames PROVE d[l].fmt \in Formats
  <2>1. d[l].fmt \in {d[m].fmt : m \in LoggerNames}
    OBVIOUS
  <2>2. QED  BY <2>1, Zenon DEF Formats
<1>3. QED  BY <1>1, <1>2

\* setFormatter keeps inherited formatters in step, and other loggers as they are.
LEMMA SetFormatterKeeps ==
  ASSUME FormatType, InheritedInSync, NEW l \in LoggerNames, NEW f \in Formats, setFormatter(l, f)
  PROVE  /\ FormatType' /\ InheritedInSync'
         /\ \A m \in LoggerNames : m # l => appenders'[m] = appenders[m]
<1>1. CASE UNCHANGED <<formatter, appenders>>
  BY <1>1 DEF FormatType, InheritedInSync
<1>2. CASE SetFormatterPtr(l, f)
  <2> DEFINE s == appenders[l]
             r == [i \in DOMAIN s |-> IF s[i].own THEN s[i] ELSE [s[i] EXCEPT !.fmt = f]]
  <2>1. appenders' = [appenders EXCEPT ![l] = r] /\ formatter' = [formatter EXCEPT ![l] = f]
    BY <1>2 DEF SetFormatterPtr
  <2>2. s \in Seq(AppenderState)
    BY DEF FormatType
  <2>3. Len(s) \in Nat /\ DOMAIN s = 1 .. Len(s) /\ \A i \in DOMAIN s : s[i] \in AppenderState
    BY <2>2
  <2>4. \A x \in AppenderState : [x EXCEPT !.fmt = f] \in AppenderState
    BY DEF AppenderState
  <2>5. r \in [1 .. Len(s) -> AppenderState]
    BY <2>3, <2>4
  <2>6. r \in Seq(AppenderState)
    BY <2>3, <2>5
  <2>7. \A x \in AppenderState : [x EXCEPT !.fmt = f].fmt = f /\ [x EXCEPT !.fmt = f].own = x.own
    BY DEF AppenderState
  <2>8. \A i \in DOMAIN r : ~r[i].own => r[i].fmt = f
    BY <2>3, <2>7
  <2>9. appenders'[l] = r /\ formatter'[l] = f
    BY <2>1 DEF FormatType
  <2>10. \A m \in LoggerNames : m # l => appenders'[m] = appenders[m] /\ formatter'[m] = formatter[m]
    BY <2>1 DEF FormatType
  <2> HIDE DEF r, s
  <2>11. InheritedInSync'
    BY <2>8, <2>9, <2>10 DEF InheritedInSync
  <2>12. FormatType'
    BY <2>1, <2>6 DEF FormatType
  <2>13. QED  BY <2>10, <2>11, <2>12
<1>3. QED  BY <1>1, <1>2 DEF setFormatter

\* addAppender appends one, with the logger's formatter unless it has its own.
LEMMA AddAppenderKeeps ==
  ASSUME FormatType, InheritedInSync, NEW l \in LoggerNames, NEW f \in Formats, NEW lev \in Int,
         addAppender(l, f, lev), UNCHANGED formatter
  PROVE  /\ FormatType' /\ InheritedInSync'
         /\ \A m \in LoggerNames : m # l => appenders'[m] = appenders[m]
         /\ Len(appenders'[l]) = Len(appenders[l]) + 1
         /\ \A i \in DOMAIN appenders[l] : appenders'[l][i] = appenders[l][i]
         /\ appenders'[l][Len(appenders[l]) + 1].own = (f # "")
<1> DEFINE a == IF f = "" THEN [fmt |-> formatter[l], own |-> FALSE, level |-> lev]
                          ELSE [fmt |-> f, own |-> TRUE, level |-> lev]
           s == appenders[l]
<1>1. appenders' = [appenders EXCEPT ![l] = Append(s, a)]
  BY DEF addAppender
<1>2. a \in AppenderState /\ (~a.own => a.fmt = formatter[l])
  BY DEF FormatType, AppenderState
<1>3. a.own = (f # "")
  OBVIOUS
<1>4. s \in Seq(AppenderState)
  BY DEF FormatType
<1> HIDE DEF a
<1>5. /\ Append(s, a) \in Seq(AppenderState) /\ Len(Append(s, a)) = Len(s) + 1
      /\ \A i \in DOMAIN s : Append(s, a)[i] = s[i]
      /\ Append(s, a)[Len(s) + 1] = a
      /\ DOMAIN Append(s, a) = 1 .. Len(s) + 1 /\ DOMAIN s = 1 .. Len(s) /\ Len(s) \in Nat
  BY <1>2, <1>4
<1>6. \A i \in DOMAIN Append(s, a) : i \in DOMAIN s \/ i = Len(s) + 1
  BY <1>5
<1>7. appenders'[l] = Append(s, a) /\ \A m \in LoggerNames : m # l => appenders'[m] = appenders[m]
  BY <1>1 DEF FormatType
<1>8. FormatType'
  BY <1>1, <1>5 DEF FormatType
<1>9. \A i \in DOMAIN Append(s, a) : ~Append(s, a)[i].own => Append(s, a)[i].fmt = formatter[l]
  BY <1>2, <1>5, <1>6 DEF InheritedInSync
<1> HIDE DEF s
<1>10. InheritedInSync'
  BY <1>7, <1>9 DEF InheritedInSync
<1>11. QED  BY <1>3, <1>5, <1>7, <1>8, <1>10 DEF s

\* Removing an appender, or all of them.
LEMMA RemoveKeeps ==
  ASSUME FormatType, InheritedInSync, NEW l \in LoggerNames, NEW r, UNCHANGED formatter,
         appenders' = [appenders EXCEPT ![l] = r],
         r = <<>> \/ \E i \in DOMAIN appenders[l] : r = RemoveAt(appenders[l], i)
  PROVE  /\ FormatType' /\ InheritedInSync'
         /\ \A m \in LoggerNames : m # l => appenders'[m] = appenders[m]
         /\ appenders'[l] = r
<1> DEFINE s == appenders[l]
<1>1. s \in Seq(AppenderState) /\ Len(s) \in Nat /\ DOMAIN s = 1 .. Len(s)
  BY DEF FormatType
<1>2. r \in Seq(AppenderState) /\ \A j \in DOMAIN r : r[j] \in {s[k] : k \in DOMAIN s}
  <2>1. CASE r = <<>>
    BY <2>1
  <2>2. ASSUME NEW i \in DOMAIN s, r = RemoveAt(s, i)
        PROVE r \in Seq(AppenderState) /\ \A j \in DOMAIN r : r[j] \in {s[k] : k \in DOMAIN s}
    <3>1. r = [j \in 1 .. Len(s) - 1 |-> IF j < i THEN s[j] ELSE s[j + 1]]
      BY <2>2 DEF RemoveAt
    <3>2. DOMAIN r = 1 .. Len(s) - 1 /\ \A j \in DOMAIN r : r[j] \in {s[k] : k \in DOMAIN s}
      <4>1. DOMAIN r = 1 .. Len(s) - 1
        BY <3>1
      <4>2. \A j \in 1 .. Len(s) - 1 : j \in DOMAIN s /\ j + 1 \in DOMAIN s
        BY <1>1
      <4>3. QED  BY <3>1, <4>1, <4>2
    <3>3. \A k \in DOMAIN s : s[k] \in AppenderState
      BY <1>1
    <3>4. r \in [1 .. Len(s) - 1 -> AppenderState]
      BY <3>1, <3>2, <3>3
    <3>5. Len(s) - 1 \in Nat
      BY <1>1
    <3>6. QED  BY <3>2, <3>4, <3>5
  <2>3. QED  BY <2>1, <2>2
<1>3. appenders'[l] = r /\ \A m \in LoggerNames : m # l => appenders'[m] = appenders[m]
  BY DEF FormatType
<1>4. FormatType'
  BY <1>2 DEF FormatType
<1>5. InheritedInSync'
  BY <1>2, <1>3 DEF InheritedInSync
<1>6. QED  BY <1>3, <1>4, <1>5

\* A setter whose listener has a step to do at a logger is in setValue.
LEMMA AtLogger ==
  ASSUME LogInv, NEW r \in LogSetters, call[r].at.step \in {"format", "clear", "append"}
  PROVE  /\ call[r].at \in Visits /\ call[r].at # Nowhere /\ call[r].at.l \in LoggerNames
         /\ call[r].pc = "run" /\ call[r].target \in Targets
<1>1. call[r] \in Calls
  BY DEF LogInv, LogType
<1>2. call[r].at \in Places /\ call[r].target \in Targets /\ call[r].pc \in {"idle", "run", "store"}
  BY <1>1 DEF Calls
<1>3. call[r].at # Nowhere
  BY DEF Nowhere
<1>4. call[r].at \in Visits
  BY <1>2, <1>3 DEF Places
<1>5. call[r].pc # "idle" /\ call[r].pc # "store"
  BY <1>3 DEF LogInv, CallsOK, NoCall
<1>6. QED  BY <1>2, <1>3, <1>4, <1>5 DEF Visits

\* What a step of r's call changes of it.
LEMMA MoveToIs ==
  ASSUME LogInv, NEW r \in LogSetters, NEW p \in Places, MoveTo(r, p)
  PROVE  /\ call' \in [LogSetters -> Calls]
         /\ call'[r].pc = call[r].pc /\ call'[r].target = call[r].target
         /\ call'[r].todo = call[r].todo /\ call'[r].at = p
         /\ \A q \in LogSetters \ {r} : call'[q] = call[q]
<1>1. call[r] \in Calls
  BY DEF LogInv, LogType
<1>2. call' = [call EXCEPT ![r] = [call[r] EXCEPT !.at = p]]
  BY DEF MoveTo
<1>3. /\ [call[r] EXCEPT !.at = p] \in Calls
      /\ [call[r] EXCEPT !.at = p].pc = call[r].pc
      /\ [call[r] EXCEPT !.at = p].target = call[r].target
      /\ [call[r] EXCEPT !.at = p].todo = call[r].todo /\ [call[r] EXCEPT !.at = p].at = p
  BY <1>1 DEF Calls
<1>4. QED  BY <1>2, <1>3 DEF LogInv, LogType

\* A step of one call, where no other is under way.
LEMMA SoleCallStep ==
  ASSUME LogInv, NEW r \in LogSetters, call[r].pc = "run", call'[r].pc = "run",
         \A q \in LogSetters \ {r} : call'[q] = call[q], UNCHANGED <<mixed, touched>>,
         call'[r].at # Nowhere => call'[r].at.l \notin call'[r].todo,
         mixed = FALSE => \A l \in LoggerNames \ touched : Brought(call[r], l)'
  PROVE  CallsOK' /\ LoggersFollow'
<1>1. CallsOK'
  BY DEF LogInv, CallsOK
<1>2. ASSUME mixed = FALSE, NEW q \in LogSetters, call'[q].pc # "idle" PROVE q = r
  BY <1>2 DEF LogInv, CallsOK
<1>3. QED  BY <1>1, <1>2 DEF LoggersFollow

\* A step that changes neither a logger nor a call.
LEMMA LoggersKept ==
  ASSUME LogInv, UNCHANGED <<logs, call, mixed, level, formatter, appenders, touched>>,
         DOMAIN written' = LogThreads
  PROVE  LogInv'
<1>1. LogType' /\ InheritedInSync' /\ CallsOK'
  BY DEF LogInv, LogType, FormatType, InheritedInSync, CallsOK
<1>2. LoggersFollow'
  BY DEF LogInv, LoggersFollow, Brought, Settled, Underway
<1>3. QED  BY <1>1, <1>2 DEF LogInv

\* Levels are numbers.
LEMMA LevelIsInt == 0 \in Int /\ \A lev \in 1 .. 2 : lev \in Int
OBVIOUS

\* The program changes a logger itself.
LEMMA UserChangeKeeps ==
  ASSUME LogInv, NEW l \in LoggerNames, UserChange(l)
  PROVE  LogInv'
<1>1. /\ UNCHANGED <<logs, call, mixed, written>> /\ touched' = touched \cup {l}
      /\ \A m \in LoggerNames : m # l => level'[m] = level[m]
      /\ DOMAIN level' = LoggerNames
  BY DEF UserChange, setVars, msgVars, LogInv, LogType
<1>2. FormatType /\ InheritedInSync
  BY DEF LogInv, LogType
<1>3. ASSUME NEW f \in {"A", "bad"}, setFormatter(l, f)
      PROVE  FormatType' /\ InheritedInSync'
             /\ \A m \in LoggerNames : m # l => appenders'[m] = appenders[m]
  BY <1>2, <1>3, SetFormatterKeeps, FormatsHave
<1>4. ASSUME NEW f \in {"", "A"}, NEW lev \in 1 .. 2, addAppender(l, f, lev), UNCHANGED formatter
      PROVE  FormatType' /\ InheritedInSync'
             /\ \A m \in LoggerNames : m # l => appenders'[m] = appenders[m]
  <2>1. f \in Formats
    BY FormatsHave
  <2>2. lev \in Int
    BY LevelIsInt
  <2>3. QED  BY <1>2, <1>4, <2>1, <2>2, AddAppenderKeeps
<1>5. ASSUME NEW i \in DOMAIN appenders[l], UNCHANGED formatter,
             appenders' = [appenders EXCEPT ![l] = RemoveAt(appenders[l], i)]
      PROVE  FormatType' /\ InheritedInSync'
             /\ \A m \in LoggerNames : m # l => appenders'[m] = appenders[m]
  BY <1>2, <1>5, RemoveKeeps
<1>6. ASSUME UNCHANGED <<formatter, appenders>>
      PROVE  FormatType' /\ InheritedInSync'
             /\ \A m \in LoggerNames : m # l => appenders'[m] = appenders[m]
  BY <1>2, <1>6 DEF FormatType, InheritedInSync
<1>7. FormatType' /\ InheritedInSync'
      /\ \A m \in LoggerNames : m # l => appenders'[m] = appenders[m]
  BY <1>3, <1>4, <1>5, <1>6 DEF UserChange
<1>8. LogType' /\ CallsOK'
  BY <1>1, <1>7 DEF LogInv, LogType, CallsOK
<1>9. LoggersFollow'
  BY <1>1, <1>7 DEF LogInv, LoggersFollow, Brought, Settled, Underway
<1>10. QED  BY <1>7, <1>8, <1>9 DEF LogInv

\* A call of setValue begins.
LEMMA ListenerBeginKeeps ==
  ASSUME LogInv, NEW r \in LogSetters, NEW new \in LogDefines, ListenerBegin(r, new)
  PROVE  LogInv'
<1> DEFINE c == [pc |-> "run", target |-> new,
                 todo |-> {l \in LoggerNames : new[l] # logs[l]}, at |-> Nowhere]
<1>1. /\ UNCHANGED <<logs, level, formatter, appenders, written, touched>>
      /\ call' = [call EXCEPT ![r] = c] /\ call[r].pc = "idle"
      /\ mixed' = (mixed \/ \E q \in LogSetters : call[q].pc # "idle")
  BY DEF ListenerBegin, msgVars
<1>2. c \in Calls /\ c.pc = "run" /\ c.target = new /\ c.at = Nowhere
      /\ c.todo = {l \in LoggerNames : new[l] # logs[l]}
  BY DEF Calls, Places, Targets
<1> HIDE DEF c
<1>3. call'[r] = c /\ \A q \in LogSetters \ {r} : call'[q] = call[q]
  BY <1>1 DEF LogInv, LogType
<1>4. LogType' /\ InheritedInSync'
  BY <1>1, <1>2 DEF LogInv, LogType, FormatType, InheritedInSync
<1>5. mixed' = FALSE => mixed = FALSE /\ \A q \in LogSetters : call[q].pc = "idle"
  BY <1>1 DEF LogInv, LogType
<1>6. CallsOK'
  BY <1>2, <1>3, <1>5 DEF LogInv, CallsOK
<1>7. ASSUME mixed' = FALSE, NEW l \in LoggerNames \ touched PROVE Brought(call[r], l)'
  <2>1. Settled(l, logs[l])
    BY <1>5, <1>7 DEF LogInv, LoggersFollow
  <2>2. Settled(l, logs[l])'
    BY <1>1, <2>1 DEF Settled
  <2>3. l \notin c.todo => new[l] = logs'[l]
    BY <1>1, <1>2
  <2>4. QED  BY <1>2, <1>3, <2>2, <2>3 DEF Brought
<1>8. LoggersFollow'
  BY <1>1, <1>2, <1>3, <1>5, <1>7 DEF LoggersFollow
<1>9. QED  BY <1>4, <1>6, <1>8 DEF LogInv

\* The listener turns to a logger.
LEMMA ListenerLevelKeeps ==
  ASSUME LogInv, NEW r \in LogSetters, NEW l \in LoggerNames, ListenerLevel(r, l)
  PROVE  LogInv'
<1> DEFINE c == call[r]
           p == [l |-> l, step |-> IF Disabled(r, l) THEN "clear" ELSE "format", n |-> 0]
           d == [c EXCEPT !.todo = c.todo \ {l}, !.at = p]
           v == IF Disabled(r, l) THEN Off ELSE c.target[l].level
<1>1. /\ UNCHANGED <<logs, mixed, formatter, appenders, written, touched>>
      /\ call' = [call EXCEPT ![r] = d] /\ c.at = Nowhere /\ l \in c.todo
      /\ level' = [level EXCEPT ![l] = v]
  BY DEF ListenerLevel, msgVars
<1>2. c \in Calls
  BY DEF LogInv, LogType
<1>3. p \in Places /\ p # Nowhere /\ p.l = l /\ p.n = 0
      /\ p.step = (IF Disabled(r, l) THEN "clear" ELSE "format")
  BY DEF Places, Visits, Nowhere
<1>4. c.pc = "run"
  BY <1>1, <1>2 DEF LogInv, CallsOK, NoCall, Calls
<1> HIDE DEF p
<1>5. /\ d \in Calls /\ d.pc = "run" /\ d.todo = c.todo \ {l} /\ d.at = p /\ d.target = c.target
  BY <1>2, <1>3, <1>4 DEF Calls
<1> HIDE DEF c, d, v
<1>6. call'[r] = d /\ (\A q \in LogSetters \ {r} : call'[q] = call[q]) /\ call[r] = c
  BY <1>1 DEF LogInv, LogType, c
<1>7. DOMAIN level' = LoggerNames /\ level'[l] = v
      /\ \A m \in LoggerNames : m # l => level'[m] = level[m]
  BY <1>1 DEF LogInv, LogType
<1>8. LogType' /\ InheritedInSync'
  BY <1>1, <1>5, <1>7 DEF LogInv, LogType, FormatType, InheritedInSync
<1>9. ASSUME mixed = FALSE, NEW m \in LoggerNames \ touched PROVE Brought(call[r], m)'
  <2>1. Brought(c, m)
    BY <1>4, <1>6, <1>9 DEF LogInv, LoggersFollow
  <2>2. CASE m = l
    <3>1. Underway(call[r].at, l, call[r].target[l])'
      BY <1>3, <1>5, <1>6, <1>7 DEF Underway, Disabled, v
    <3>2. QED  BY <1>3, <1>5, <1>6, <2>2, <3>1 DEF Brought
  <2>3. CASE m # l
    <3>1. IF m \in c.todo THEN Settled(m, logs[m]) ELSE Settled(m, c.target[m])
      BY <1>1, <2>1 DEF Brought, c
    <3>2. IF m \in c.todo THEN Settled(m, logs[m])' ELSE Settled(m, call[r].target[m])'
      BY <1>1, <1>5, <1>6, <1>7, <2>3, <3>1 DEF Settled
    <3>3. QED  BY <1>1, <1>3, <1>5, <1>6, <2>3, <3>2 DEF Brought
  <2>4. QED  BY <2>2, <2>3
<1>10. CallsOK' /\ LoggersFollow'
  BY <1>1, <1>3, <1>4, <1>5, <1>6, <1>9, SoleCallStep
<1>11. QED  BY <1>8, <1>10 DEF LogInv

\* A step of the listener at its logger l, whose definition is d: other loggers stay
\* as they are, and l is as far as the next place p says.
LEMMA VisitStep ==
  ASSUME LogInv, NEW r \in LogSetters, NEW p \in Places, MoveTo(r, p),
         call[r].at.step \in {"format", "clear", "append"},
         NEW l, l = call[r].at.l, p = Nowhere \/ p.l = l, NEW d, d = call[r].target[l],
         UNCHANGED <<logs, mixed, level, written, touched>>, FormatType', InheritedInSync',
         \A m \in LoggerNames : m # l => appenders'[m] = appenders[m],
         Underway(call[r].at, l, d) =>
            IF p = Nowhere THEN Settled(l, d)' ELSE Underway(p, l, d)'
  PROVE  LogInv'
<1>1. /\ call' \in [LogSetters -> Calls]
      /\ call'[r].pc = call[r].pc /\ call'[r].target = call[r].target
      /\ call'[r].todo = call[r].todo /\ call'[r].at = p
      /\ \A q \in LogSetters \ {r} : call'[q] = call[q]
  BY MoveToIs
<1>2. call[r].at # Nowhere /\ call[r].at.l \in LoggerNames /\ call[r].pc = "run"
  BY AtLogger
<1>3. l \notin call[r].todo
  BY <1>2 DEF LogInv, CallsOK
<1>4. LogType'
  BY <1>1 DEF LogInv, LogType
<1>5. ASSUME mixed = FALSE, NEW m \in LoggerNames \ touched PROVE Brought(call[r], m)'
  <2>1. Brought(call[r], m)
    BY <1>2, <1>5 DEF LogInv, LoggersFollow
  <2>2. CASE m = l
    <3>1. Underway(call[r].at, l, d)
      BY <1>2, <1>3, <2>1, <2>2 DEF Brought
    <3>2. IF p = Nowhere THEN Settled(l, d)' ELSE Underway(p, l, d)'
      BY <3>1
    <3>3. call'[r].target[l] = d /\ l \notin call'[r].todo
      BY <1>1, <1>3
    <3>4. QED  BY <1>1, <2>2, <3>2, <3>3 DEF Brought
  <2>3. CASE m # l
    <3>1. IF m \in call[r].todo THEN Settled(m, logs[m]) ELSE Settled(m, call[r].target[m])
      BY <2>1, <2>3 DEF Brought
    <3>2. IF m \in call[r].todo THEN Settled(m, logs[m])' ELSE Settled(m, call[r].target[m])'
      BY <1>1, <2>3, <3>1 DEF Settled
    <3>3. QED  BY <1>1, <2>3, <3>2 DEF Brought
  <2>4. QED  BY <2>2, <2>3
<1>6. CallsOK' /\ LoggersFollow'
  BY <1>1, <1>2, <1>3, <1>5, SoleCallStep
<1>7. QED  BY <1>4, <1>6 DEF LogInv

\* The formatter of the logger.
LEMMA ListenerFormatKeeps ==
  ASSUME LogInv, NEW r \in LogSetters, ListenerFormat(r)
  PROVE  LogInv'
<1> DEFINE l == call[r].at.l
           d == call[r].target[l]
           p == [call[r].at EXCEPT !.step = "clear"]
<1>1. /\ call[r].at.step = "format" /\ MoveTo(r, p)
      /\ UNCHANGED <<logs, mixed, level, written, touched>>
      /\ UNCHANGED <<formatter, appenders>> \/ setFormatter(l, d.fmt)
  BY DEF ListenerFormat, msgVars
<1>2. call[r].at \in Visits /\ l \in LoggerNames /\ call[r].target \in Targets
  BY <1>1, AtLogger
<1>3. p \in Places /\ p # Nowhere /\ p.l = l /\ p.step = "clear" /\ p.n = call[r].at.n
  BY <1>2 DEF Visits, Places, Nowhere
<1>4. d.fmt \in Formats
  BY <1>2, FormatsHave
<1>5. FormatType' /\ InheritedInSync' /\ \A m \in LoggerNames : m # l => appenders'[m] = appenders[m]
  <2>1. FormatType /\ InheritedInSync
    BY DEF LogInv, LogType
  <2>2. CASE UNCHANGED <<formatter, appenders>>
    BY <2>1, <2>2 DEF FormatType, InheritedInSync
  <2>3. CASE setFormatter(l, d.fmt)
    BY <1>2, <1>4, <2>1, <2>3, SetFormatterKeeps
  <2>4. QED  BY <1>1, <2>2, <2>3
<1> HIDE DEF p, l, d
<1>6. ASSUME NEW k, k = l, NEW e, e = d, NEW q, q = p, Underway(call[r].at, k, e)
      PROVE  Underway(q, k, e)'
  BY <1>1, <1>3, <1>6 DEF Underway
<1>7. QED
  <2>1. PICK k, e, q : k = l /\ e = d /\ q = p
    OBVIOUS
  <2>2. k = call[r].at.l /\ e = call[r].target[k]
    BY <2>1 DEF l, d
  <2>3. Underway(call[r].at, k, e) => Underway(q, k, e)'
    BY <1>6, <2>1
  <2>4. QED  BY <1>1, <1>3, <1>5, <2>1, <2>2, <2>3, VisitStep

\* The appenders of the logger go ...
LEMMA ListenerClearKeeps ==
  ASSUME LogInv, NEW r \in LogSetters, ListenerClear(r)
  PROVE  LogInv'
<1> DEFINE l == call[r].at.l
           d == call[r].target[l]
           p == IF Disabled(r, l) THEN Nowhere ELSE [call[r].at EXCEPT !.step = "append"]
<1>1. /\ call[r].at.step = "clear" /\ MoveTo(r, p)
      /\ UNCHANGED <<logs, mixed, level, written, touched, formatter>>
      /\ appenders' = [appenders EXCEPT ![l] = <<>>]
  BY DEF ListenerClear, ListenerClears, clearAppenders, msgVars
<1>2. call[r].at \in Visits /\ l \in LoggerNames
  BY <1>1, AtLogger
<1>3. [call[r].at EXCEPT !.step = "append"] \in Visits
  BY <1>2 DEF Visits
<1>4. p \in Places /\ (p = Nowhere <=> d = NoDefine)
      /\ (p # Nowhere => p.l = l /\ p.step = "append" /\ p.n = call[r].at.n)
  BY <1>2, <1>3 DEF Visits, Places, Nowhere, Disabled
<1>5. /\ FormatType' /\ InheritedInSync' /\ appenders'[l] = <<>>
      /\ \A m \in LoggerNames : m # l => appenders'[m] = appenders[m]
  <2>1. FormatType /\ InheritedInSync
    BY DEF LogInv, LogType
  <2>2. QED  BY <1>1, <1>2, <2>1, RemoveKeeps
<1> HIDE DEF p, l, d
<1>6. ASSUME NEW k, k = l, NEW e, e = d, NEW q, q = p, Underway(call[r].at, k, e)
      PROVE  IF q = Nowhere THEN Settled(k, e)' ELSE Underway(q, k, e)'
  <2>1. level'[k] = level[k] /\ appenders'[k] = <<>> /\ call[r].at.step = "clear"
    BY <1>1, <1>5, <1>6
  <2>2. CASE e = NoDefine
    BY <1>4, <1>6, <2>1, <2>2 DEF Underway, Settled
  <2>3. CASE e # NoDefine
    <3>1. q # Nowhere /\ q.step = "append" /\ q.n = call[r].at.n
      BY <1>4, <1>6, <2>3
    <3>2. call[r].at.n = 0 /\ level[k] = e.level
      BY <1>6, <2>1, <2>3 DEF Underway
    <3>3. QED  BY <2>1, <2>3, <3>1, <3>2 DEF Underway
  <2>4. QED  BY <2>2, <2>3
<1>7. QED
  <2>1. PICK k, e, q : k = l /\ e = d /\ q = p
    OBVIOUS
  <2>2. k = call[r].at.l /\ e = call[r].target[k]
    BY <2>1 DEF l, d
  <2>3. Underway(call[r].at, k, e) => IF q = Nowhere THEN Settled(k, e)' ELSE Underway(q, k, e)'
    BY <1>6, <2>1
  <2>4. QED  BY <1>1, <1>4, <1>5, <2>1, <2>2, <2>3, VisitStep

\* ... and are added again one by one ...
LEMMA ListenerAppendKeeps ==
  ASSUME LogInv, NEW r \in LogSetters, ListenerAppend(r)
  PROVE  LogInv'
<1> DEFINE l == call[r].at.l
           d == call[r].target[l]
           p == [call[r].at EXCEPT !.n = call[r].at.n + 1]
           f == OwnPattern(d.appenders[call[r].at.n + 1])
<1>1. /\ call[r].at.step = "append" /\ MoveTo(r, p)
      /\ UNCHANGED <<logs, mixed, level, written, touched, formatter>>
      /\ addAppender(l, f, 0)
  BY DEF ListenerAppend, msgVars
<1>2. call[r].at \in Visits /\ l \in LoggerNames
  BY <1>1, AtLogger
<1>3. p \in Places /\ p # Nowhere /\ p.l = l /\ p.step = "append" /\ p.n = call[r].at.n + 1
  BY <1>1, <1>2 DEF Visits, Places, Nowhere
<1>4. f \in Formats /\ (f # "") = (d.appenders[call[r].at.n + 1] = "bad")
  BY FormatsHave DEF OwnPattern
<1> HIDE DEF p, l, d, f
<1>5. /\ FormatType' /\ InheritedInSync'
      /\ \A m \in LoggerNames : m # l => appenders'[m] = appenders[m]
      /\ Len(appenders'[l]) = Len(appenders[l]) + 1
      /\ \A i \in DOMAIN appenders[l] : appenders'[l][i] = appenders[l][i]
      /\ appenders'[l][Len(appenders[l]) + 1].own = (f # "")
  <2>1. FormatType /\ InheritedInSync
    BY DEF LogInv, LogType
  <2>2. addAppender(l, f, 0) /\ UNCHANGED formatter /\ f \in Formats
    BY <1>1, <1>4, Zenon
  <2>3. QED  BY <1>2, <2>1, <2>2, AddAppenderKeeps, LevelIsInt, Zenon
<1>6. ASSUME NEW k, k = l, NEW e, e = d, NEW q, q = p, Underway(call[r].at, k, e)
      PROVE  Underway(q, k, e)'
  <2>1. /\ e # NoDefine /\ level[k] = e.level /\ Len(appenders[k]) = call[r].at.n
        /\ \A i \in DOMAIN appenders[k] : appenders[k][i].own = (e.appenders[i] = "bad")
    BY <1>1, <1>6 DEF Underway
  <2>2. appenders[k] \in Seq(AppenderState) /\ appenders'[k] \in Seq(AppenderState)
    BY <1>2, <1>5, <1>6 DEF LogInv, LogType, FormatType
  <2> DEFINE s == appenders[k]
             z == appenders'[k]
  <2>3. /\ Len(z) = Len(s) + 1 /\ \A i \in DOMAIN s : z[i] = s[i]
        /\ z[Len(s) + 1].own = (e.appenders[Len(s) + 1] = "bad")
    BY <1>4, <1>5, <1>6, <2>1
  <2>4. DOMAIN s = 1 .. Len(s) /\ DOMAIN z = 1 .. Len(z) /\ Len(s) \in Nat
    BY <2>2
  <2>5. level' = level /\ q.step = "append" /\ q.n = Len(s) + 1
    BY <1>1, <1>3, <1>6, <2>1
  <2>6. \A i \in DOMAIN s : s[i].own = (e.appenders[i] = "bad")
    BY <2>1
  <2> HIDE DEF s, z
  <2>7. \A i \in DOMAIN z : i \in DOMAIN s \/ i = Len(s) + 1
    BY <2>3, <2>4
  <2>8. \A i \in DOMAIN z : z[i].own = (e.appenders[i] = "bad")
    BY <2>3, <2>6, <2>7
  <2>9. QED  BY <2>1, <2>3, <2>5, <2>8 DEF Underway, z
<1>7. QED
  <2>1. PICK k, e, q : k = l /\ e = d /\ q = p
    OBVIOUS
  <2>2. k = call[r].at.l /\ e = call[r].target[k]
    BY <2>1 DEF l, d
  <2>3. Underway(call[r].at, k, e) => Underway(q, k, e)'
    BY <1>6, <2>1
  <2>4. MoveTo(r, q) /\ q \in Places /\ q # Nowhere /\ q.l = k
    BY <1>1, <1>3, <2>1
  <2>5. FormatType' /\ InheritedInSync'
        /\ \A m \in LoggerNames : m # k => appenders'[m] = appenders[m]
    BY <1>5, <2>1
  <2>6. call[r].at.step = "append" /\ UNCHANGED <<logs, mixed, level, written, touched>>
    BY <1>1
  <2>7. QED  BY <2>2, <2>3, <2>4, <2>5, <2>6, VisitStep

\* ... until the logger has them all.
LEMMA ListenerNextKeeps ==
  ASSUME LogInv, NEW r \in LogSetters, ListenerNext(r)
  PROVE  LogInv'
<1> DEFINE l == call[r].at.l
           d == call[r].target[l]
<1>1. /\ call[r].at.step = "append" /\ MoveTo(r, Nowhere) /\ call[r].at.n = Len(d.appenders)
      /\ UNCHANGED <<logs, mixed, level, written, touched, formatter, appenders>>
  BY DEF ListenerNext, msgVars
<1>2. FormatType' /\ InheritedInSync'
  BY <1>1 DEF LogInv, LogType, FormatType, InheritedInSync
<1> HIDE DEF l, d
<1>3. ASSUME NEW k, k = l, NEW e, e = d, Underway(call[r].at, k, e) PROVE Settled(k, e)'
  BY <1>1, <1>3 DEF Underway, Settled
<1>4. QED
  <2>1. PICK k, e : k = l /\ e = d
    OBVIOUS
  <2>2. k = call[r].at.l /\ e = call[r].target[k]
    BY <2>1 DEF l, d
  <2>3. Underway(call[r].at, k, e) => Settled(k, e)'
    BY <1>3, <2>1
  <2>4. Nowhere \in Places
    BY DEF Places
  <2>5. QED  BY <1>1, <1>2, <2>2, <2>3, <2>4, VisitStep

\* The listener returns.
LEMMA ListenerEndKeeps ==
  ASSUME LogInv, NEW r \in LogSetters, ListenerEnd(r)
  PROVE  LogInv'
<1> DEFINE d == [call[r] EXCEPT !.pc = "store"]
<1>1. /\ call[r].pc = "run" /\ call[r].todo = {} /\ call[r].at = Nowhere
      /\ call' = [call EXCEPT ![r] = d]
      /\ UNCHANGED <<logs, mixed, level, written, touched, formatter, appenders>>
  BY DEF ListenerEnd, msgVars
<1>2. call[r] \in Calls
  BY DEF LogInv, LogType
<1>3. /\ d \in Calls /\ d.pc = "store" /\ d.todo = call[r].todo /\ d.at = call[r].at
      /\ d.target = call[r].target
  BY <1>2 DEF Calls
<1> HIDE DEF d
<1>4. call'[r] = d /\ \A q \in LogSetters \ {r} : call'[q] = call[q]
  BY <1>1 DEF LogInv, LogType
<1>5. LogType' /\ InheritedInSync' /\ CallsOK'
  BY <1>1, <1>3, <1>4 DEF LogInv, LogType, FormatType, InheritedInSync, CallsOK
<1>6. ASSUME mixed = FALSE, NEW q \in LogSetters, call'[q].pc # "idle",
             NEW l \in LoggerNames \ touched
      PROVE  Brought(call[q], l)'
  <2>1. q = r
    BY <1>1, <1>4, <1>6 DEF LogInv, CallsOK
  <2>2. Brought(call[r], l)
    BY <1>1, <1>6 DEF LogInv, LoggersFollow
  <2>3. Settled(l, call[r].target[l])
    BY <1>1, <2>2 DEF Brought
  <2>4. Settled(l, call[r].target[l])'
    BY <1>1, <1>3, <1>4, <2>3 DEF Settled
  <2>5. QED  BY <1>1, <1>3, <1>4, <2>1, <2>4 DEF Brought
<1>7. LoggersFollow'
  BY <1>1, <1>3, <1>4, <1>6 DEF LoggersFollow
<1>8. QED  BY <1>5, <1>7 DEF LogInv

\* The value is stored.
LEMMA StoreLogsKeeps ==
  ASSUME LogInv, NEW r \in LogSetters, StoreLogs(r)
  PROVE  LogInv'
<1>1. /\ call[r].pc = "store" /\ logs' = call[r].target /\ call' = [call EXCEPT ![r] = NoCall]
      /\ UNCHANGED <<mixed, level, written, touched, formatter, appenders>>
  BY DEF StoreLogs, msgVars
<1>2. NoCall \in Calls /\ NoCall.pc = "idle" /\ NoCall.at = Nowhere
  BY DEF NoCall, Calls, Places, Targets
<1>3. call'[r] = NoCall /\ \A q \in LogSetters \ {r} : call'[q] = call[q]
  BY <1>1 DEF LogInv, LogType
<1>4. LogType' /\ InheritedInSync' /\ CallsOK'
  BY <1>1, <1>2, <1>3 DEF LogInv, LogType, FormatType, InheritedInSync, CallsOK
<1>5. ASSUME mixed = FALSE PROVE \A q \in LogSetters : call'[q].pc = "idle"
  BY <1>1, <1>2, <1>3, <1>5 DEF LogInv, CallsOK
<1>6. ASSUME mixed = FALSE, NEW l \in LoggerNames \ touched PROVE Settled(l, logs[l])'
  <2>1. Brought(call[r], l) /\ call[r].todo = {} /\ call[r].at = Nowhere
    BY <1>1, <1>6 DEF LogInv, LoggersFollow, CallsOK
  <2>2. Settled(l, call[r].target[l])
    BY <2>1 DEF Brought
  <2>3. QED  BY <1>1, <2>2 DEF Settled
<1>7. LoggersFollow'
  BY <1>1, <1>5, <1>6 DEF LoggersFollow
<1>8. QED  BY <1>4, <1>7 DEF LogInv

\* A root logger without appenders has a reason.
LEMMA RootBareFollows ==
  ASSUME LogInv, appenders[Root] = <<>>
  PROVE  RootBare
<1> SUFFICES ASSUME Root \notin touched, mixed = FALSE, level[Root] # Off, ~NoneFor(logs),
                    \A r \in LogSetters : call[r].pc # "idle" =>
                        call[r].at.l # Root /\ ~NoneFor(call[r].target)
             PROVE  FALSE
  BY DEF RootBare, LogInv, LogType
<1>1. Root \in LoggerNames \ touched
  BY LogAssumption
<1>2. ~Settled(Root, logs[Root])
  BY DEF Settled, NoneFor, FirstAppenders
<1>3. PICK r \in LogSetters : call[r].pc # "idle"
  BY <1>1, <1>2 DEF LogInv, LoggersFollow
<1>4. Brought(call[r], Root) /\ call[r].at.l # Root /\ ~NoneFor(call[r].target)
  BY <1>1, <1>3 DEF LogInv, LoggersFollow
<1>5. ~Settled(Root, call[r].target[Root])
  BY <1>4 DEF Settled, NoneFor, FirstAppenders
<1>6. QED  BY <1>2, <1>4, <1>5 DEF Brought

\* Through every sequence of reconfigurations, API calls and messages, two setters and
\* more at a time: inherited formatters are in step; untouched loggers are a function of
\* the present configuration unless calls of setValue overlapped; and a message that
\* passed the level tests is lost only with a reason RootBare names.  For every set of
\* loggers, configurations, setters and logging threads (log.cc 301-316, 368-432,
\* 956-1036).
THEOREM LogCorrect == LogInit /\ [][LogNext]_logVars => LogConsistent
<1>1. LogInv /\ [LogNext]_logVars => LogInv'
  <2> SUFFICES ASSUME LogInv, [LogNext]_logVars PROVE LogInv'
    OBVIOUS
  <2>1. ASSUME NEW t \in LogThreads, LogOutput(t) \/ RootTest(t) \/ RootOutput(t) PROVE LogInv'
    <3>1. /\ UNCHANGED <<logs, call, mixed, level, formatter, appenders, touched>>
          /\ DOMAIN written' = LogThreads
      BY <2>1 DEF LogOutput, RootTest, RootOutput, LogEnd, setVars, LogInv, LogType
    <3>2. QED  BY <3>1, LoggersKept
  <2>2. ASSUME NEW t \in LogThreads, NEW l \in LoggerNames, NEW lev \in 1 .. 2, LogBegin(t, l, lev)
        PROVE  LogInv'
    <3>1. /\ UNCHANGED <<logs, call, mixed, level, formatter, appenders, touched>>
          /\ DOMAIN written' = LogThreads
      BY <2>2 DEF LogBegin, setVars, LogInv, LogType
    <3>2. QED  BY <3>1, LoggersKept
  <2>3. CASE UNCHANGED logVars
    BY <2>3, LoggersKept DEF logVars, LogInv, LogType
  <2>4. QED
    BY <2>1, <2>2, <2>3, UserChangeKeeps, ListenerBeginKeeps, ListenerLevelKeeps,
       ListenerFormatKeeps, ListenerClearKeeps, ListenerAppendKeeps, ListenerNextKeeps,
       ListenerEndKeeps, StoreLogsKeeps DEF LogNext
<1>2. LogInv => InheritedInSync /\ ConfigurationDecides
  BY DEF LogInv, LogType, LoggersFollow, Settled, ConfigurationDecides
<1>3. LogInv /\ [LogNext]_logVars =>
        [\A t \in LogThreads : written'[t] = "lost" /\ written[t] # "lost" => RootBare]_logVars
  <2> SUFFICES ASSUME LogInv, LogNext, NEW t \in LogThreads, written'[t] = "lost",
                      written[t] # "lost"
               PROVE  RootBare
    BY DEF logVars
  <2>1. PICK u \in LogThreads :
          \/ LogOutput(u) \/ RootTest(u) \/ RootOutput(u)
          \/ \E l \in LoggerNames, lev \in 1 .. 2 : LogBegin(u, l, lev)
    BY DEF LogNext, UserChange, ListenerBegin, ListenerLevel, ListenerFormat, ListenerClear,
       ListenerAppend, ListenerNext, ListenerEnd, StoreLogs, msgVars
  <2>2. ASSUME NEW l \in LoggerNames, NEW lev \in 1 .. 2, LogBegin(u, l, lev) PROVE FALSE
    BY <2>2 DEF LogBegin, LogInv, LogType
  <2>3. ASSUME RootTest(u) PROVE FALSE
    BY <2>3 DEF RootTest, LogEnd, LogInv, LogType
  <2>4. ASSUME NEW l, NEW lev, Output(l, lev) = "lost" PROVE appenders[l] = <<>>
    BY <2>4 DEF Output
  <2>5. ASSUME LogOutput(u) PROVE appenders[Root] = <<>>
    <3>1. Output(logMsg[u].l, logMsg[u].lev) = "lost"
          /\ ~(appenders[logMsg[u].l] = <<>> /\ logMsg[u].l # Root)
      BY <2>5 DEF LogOutput, LogEnd, LogInv, LogType
    <3>2. QED  BY <2>4, <3>1
  <2>6. ASSUME RootOutput(u) PROVE appenders[Root] = <<>>
    <3>1. Output(Root, logMsg[u].lev) = "lost"
      BY <2>6 DEF RootOutput, LogEnd, LogInv, LogType
    <3>2. QED  BY <2>4, <3>1
  <2>7. QED  BY <2>1, <2>2, <2>3, <2>5, <2>6, RootBareFollows
<1>4. QED  BY <1>1, <1>2, <1>3, LogInitInv, PTL DEF LogConsistent, MessageWritten
==============================================================================
