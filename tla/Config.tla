------------------------------- MODULE Config -------------------------------
(***************************************************************************)
(* Configuration: ConfigVar::setValue with its listeners (config.h) and      *)
(* Config::LoadFromConfDir (config.cc).                                     *)
(*                                                                         *)
(* A listener keeps a copy of the value: s_connect_timeout in hook.cc, the  *)
(* buffer sizes in http_parser.cc.  setValue calls the listeners under the   *)
(* read lock and stores the value under the write lock it takes after.       *)
(* LoadFromConfDir remembers a file's modification time and then loads the   *)
(* file into the variable.                                                   *)
(***************************************************************************)
EXTENDS Integers, FiniteSets

CONSTANTS
    Setters,      \* threads that set the variable or load the directory
    Listeners,    \* keys of m_cbs that may be added
    Contents,     \* the values of the variable
    MaxSets,      \* bound on the calls of setValue and LoadFromConfDir
    MaxMtime      \* bound on the file's modification time, in seconds

ASSUME ConfigAssumption ==
    IsFiniteSet(Setters) /\ Contents # {} /\ MaxSets \in Nat /\ MaxMtime \in Nat \ {0}

NoContent == "unreadable"
FirstValue == CHOOSE v \in Contents : TRUE

VARIABLES
    m_val,        \* ConfigVar::m_val
    m_cbs,        \* listeners registered
    copy,         \* what each listener was told last
    readers,      \* threads inside setValue's read lock
    setPc, setArg, \* where a setter is, and its new value
    told,         \* listeners it has called
    fileTime, fileText, \* the file: st_mtime, in whole seconds, and content
    s_file2modifytime,
    seenTime,     \* lstat result of each loader
    sets,         \* calls so far (bound only)
    overlap,      \* history: calls overlapped since the last clean one
    readTime      \* history: st_mtime of the file when it was read last, 0 before

configVars == <<m_val, m_cbs, copy, readers, setPc, setArg, told, fileTime, fileText,
                s_file2modifytime, seenTime, sets, overlap, readTime>>

ConfigInit ==
    /\ m_val = FirstValue
    /\ m_cbs = Listeners
    /\ copy = [l \in Listeners |-> FirstValue]
    /\ readers = {}
    /\ setPc = [t \in Setters |-> "idle"]
    /\ setArg = [t \in Setters |-> FirstValue]
    /\ told = [t \in Setters |-> {}]
    /\ fileTime = 1 /\ fileText = FirstValue
    /\ s_file2modifytime = 0
    /\ seenTime = [t \in Setters |-> 0]
    /\ sets = 0 /\ overlap = FALSE /\ readTime = 0

setGoto(t, l) == setPc' = [setPc EXCEPT ![t] = l]
Alone(t) == \A u \in Setters \ {t} : setPc[u] = "idle"

\* A call begins; overlapping calls are remembered.
ConfigCall(t) ==
    /\ setPc[t] = "idle" /\ sets < MaxSets
    /\ sets' = sets + 1
    /\ overlap' = (overlap \/ ~Alone(t))

-----------------------------------------------------------------------------
(* ConfigVar                                                                *)

SetBegin(t, v) ==
    /\ ConfigCall(t)
    /\ setArg' = [setArg EXCEPT ![t] = v]
    /\ setGoto(t, "compare")
    /\ UNCHANGED <<m_val, m_cbs, copy, readers, told, fileTime, fileText, s_file2modifytime, seenTime, readTime>>

\* The read lock and the comparison; an equal value changes nothing.
SetCompare(t) ==
    /\ setPc[t] = "compare"
    /\ IF setArg[t] = m_val
       THEN setGoto(t, "idle") /\ UNCHANGED <<readers, told>>
       ELSE /\ readers' = readers \cup {t}
            /\ told' = [told EXCEPT ![t] = {}]
            /\ setGoto(t, "notify")
    /\ UNCHANGED <<m_val, m_cbs, copy, setArg, fileTime, fileText, s_file2modifytime, seenTime,
                   sets, overlap, readTime>>

\* One listener is called with the old and the new value.
NotifyListener(t, l) ==
    /\ setPc[t] = "notify" /\ l \in m_cbs \ told[t]
    /\ copy' = [copy EXCEPT ![l] = setArg[t]]
    /\ told' = [told EXCEPT ![t] = @ \cup {l}]
    /\ UNCHANGED <<m_val, m_cbs, readers, setPc, setArg, fileTime, fileText, s_file2modifytime,
                   seenTime, sets, overlap, readTime>>

\* The end of the block releases the read lock.
NotifyEnd(t) ==
    /\ setPc[t] = "notify" /\ m_cbs \subseteq told[t]
    /\ readers' = readers \ {t}
    /\ setGoto(t, "write")
    /\ UNCHANGED <<m_val, m_cbs, copy, setArg, told, fileTime, fileText, s_file2modifytime,
                   seenTime, sets, overlap, readTime>>

\* Mutant: the value compared is stored instead of the new one.
StoreOld(t) == m_val

Stored(t) == setArg[t]

\* The write lock waits for every reader.
SetWrite(t) ==
    /\ setPc[t] = "write" /\ readers = {}
    /\ m_val' = Stored(t)
    /\ setGoto(t, "idle")
    /\ overlap' = (overlap /\ ~(Alone(t) /\ \A l \in m_cbs : copy[l] = setArg[t]))
    /\ UNCHANGED <<m_cbs, copy, readers, setArg, told, fileTime, fileText, s_file2modifytime,
                   seenTime, sets, readTime>>

\* addListener under the write lock.  The component that registers has read the value.
addListener(l) ==
    /\ readers = {} /\ l \notin m_cbs
    /\ m_cbs' = m_cbs \cup {l}
    /\ copy' = [copy EXCEPT ![l] = m_val]
    /\ overlap' = (overlap \/ \E t \in Setters : setPc[t] # "idle")
    /\ UNCHANGED <<m_val, readers, setPc, setArg, told, fileTime, fileText, s_file2modifytime,
                   seenTime, sets, readTime>>

\* delListener and clearListener under the write lock.
delListener(ls) ==
    /\ readers = {} /\ ls # {} /\ ls \subseteq m_cbs
    /\ m_cbs' = m_cbs \ ls
    /\ UNCHANGED <<m_val, copy, readers, setPc, setArg, told, fileTime, fileText,
                   s_file2modifytime, seenTime, sets, overlap, readTime>>

-----------------------------------------------------------------------------
(* Config::LoadFromConfDir                                                  *)

\* An editor saves the file, in the second of the last save or in a later one; the
\* content is for a moment not valid YAML.
EditFile(v) ==
    /\ fileTime' \in {fileTime} \cup (fileTime + 1 .. MaxMtime)
    /\ fileText' = v
    /\ UNCHANGED <<m_val, m_cbs, copy, readers, setPc, setArg, told, s_file2modifytime, seenTime,
                   sets, overlap, readTime>>

\* lstat
LoadBegin(t) ==
    /\ ConfigCall(t)
    /\ seenTime' = [seenTime EXCEPT ![t] = fileTime]
    /\ setGoto(t, "stat")
    /\ UNCHANGED <<m_val, m_cbs, copy, readers, setArg, told, fileTime, fileText, s_file2modifytime, readTime>>

Unchanged(t) == s_file2modifytime = seenTime[t]

\* Under s_mutex: an unchanged file is skipped, another is recorded.
LoadRecord(t) ==
    /\ setPc[t] = "stat"
    /\ s_file2modifytime' = seenTime[t]
    /\ setGoto(t, IF Unchanged(t) THEN "idle" ELSE "load")
    /\ UNCHANGED <<m_val, m_cbs, copy, readers, setArg, told, fileTime, fileText, seenTime, sets,
                   overlap, readTime>>

\* YAML::LoadFile, and fromString of the variable it names: setValue follows.
\* An exception of either is swallowed.
LoadParse(t) ==
    /\ setPc[t] = "load"
    /\ readTime' = fileTime
    /\ IF fileText = NoContent
       THEN setGoto(t, "idle") /\ UNCHANGED setArg
       ELSE setGoto(t, "compare") /\ setArg' = [setArg EXCEPT ![t] = fileText]
    /\ UNCHANGED <<m_val, m_cbs, copy, readers, told, fileTime, fileText, s_file2modifytime,
                   seenTime, sets, overlap>>

ConfigNext ==
    \/ \E t \in Setters :
          \/ \E v \in Contents : SetBegin(t, v)
          \/ SetCompare(t) \/ (\E l \in Listeners : NotifyListener(t, l)) \/ NotifyEnd(t)
          \/ SetWrite(t) \/ LoadBegin(t) \/ LoadRecord(t) \/ LoadParse(t)
    \/ \E l \in Listeners : addListener(l)
    \/ \E ls \in SUBSET Listeners : delListener(ls)
    \/ \E v \in Contents \cup {NoContent} : EditFile(v)

-----------------------------------------------------------------------------
(* Properties                                                               *)

\* When no call is under way, every listener was told the value that is stored,
\* unless calls overlapped and none has cleaned up since.  setValue of the
\* stored value does not repair a listener: it returns early (config.h 408-425).
ListenersAgree ==
    ~overlap /\ (\A t \in Setters : setPc[t] = "idle") => \A l \in m_cbs : copy[l] = m_val

\* A file that LoadFromConfDir will skip was read when it had the modification time it
\* has now, though it is edited between lstat and LoadFile and several threads load it.
\* A second edit within that second is not noticed, and that the reading succeeded is
\* not promised: a file that failed to parse is not tried again (config.cc 102-124).
SkippedWasRead ==
    (\A t \in Setters : setPc[t] = "idle") /\ s_file2modifytime = fileTime => readTime = fileTime

\* Listeners agree with the value, and what is skipped was read.
ConfigConsistent == ListenersAgree /\ SkippedWasRead
=============================================================================
