----------------------------- MODULE FactStore -----------------------------
(***************************************************************************)
(* border-dns-facts/fact_store.rs: the writer of hourly fact files, used   *)
(* by the fact writer task and, for retention, by the maintenance task of  *)
(* border-dns-runtime.                                                     *)
(*                                                                         *)
(* The mutex makes the calls exclude each other, so one program counter    *)
(* serves both tasks.  Every file operation is a step of its own: the      *)
(* process may die between any two of them, and is started again later.    *)
(* Both tasks read the clock before they take the mutex.                   *)
(*                                                                         *)
(* A line is reduced to its fact, a file to the facts in it, a file name   *)
(* to its prefix and its hour, and the clock to hours.  The counters and   *)
(* timestamps of the manifest are left out.                                *)
(***************************************************************************)
EXTENDS Integers, FiniteSets

CONSTANTS
    Facts,      \* the facts that the pipeline emits, each once
    Hours,      \* the hours that the clock may show
    Start,      \* the hour in which the store is first used
    KeepHours,  \* keep_sealed_hours
    CompactHours,  \* compact_after_hours
    Faults,     \* what may go wrong besides the process dying
    MaxHurt,    \* bound on the kinds of incidents before another kind of fault
    MaxStarts,  \* bound on the starts of the process
    None, Torn

FaultKinds == {"rename", "open", "append", "save", "remove", "back"}

Names == {"active", "sealed"} \X Hours
Manifest == [active : Hours, sealed : SUBSET Names]

\* tag is current_hour_tag, open whether there is a writer for the active file.
WriterState == [tag : Hours, open : BOOLEAN, manifest : Manifest]

\* The fact and the hour tag of a write_event.
Call == [fact : Facts, tag : Hours]

\* The time that apply_retention was called with, and what it removes.
Retention == [at : Hours, due : SUBSET Names]

\* What a manifest is saved for.
Goals == {"boot", "append", "ack", "retained"}

ASSUME FactStoreAssumption ==
    /\ Hours \subseteq Int /\ Start \in Hours
    /\ KeepHours \in Nat /\ CompactHours \in Nat
    /\ Faults \subseteq FaultKinds /\ MaxHurt \in Nat /\ MaxStarts \in Nat

\* None and Torn stand for the absence of a value and for a file that does not
\* parse: they are no values themselves.
ASSUME AbsenceAssumption ==
    /\ None \notin Hours /\ None \notin Goals /\ \A F \in SUBSET Facts : None # F
    /\ None \notin Manifest /\ None \notin WriterState
    /\ None \notin Call /\ None \notin Retention
    /\ Torn # None /\ Torn \notin Manifest

VARIABLES
    files,    \* files[n]: the facts in the file named n, or None
    disk,     \* derived-manifest.json: None, Torn, or a manifest
    mem,      \* WriterState, of a process that is up
    pc,       \* where the holder of the mutex is
    goal,     \* what the manifest is saved for
    call,     \* the write_event under way
    retain,   \* the apply_retention under way
    now,      \* the hour of Utc::now()
    acked,    \* acked[f]: the tag under which write_event returned Ok for f
    hurt,     \* the incidents so far
    starts    \* how often the process was started

vars == <<files, disk, mem, pc, goal, call, retain, now, acked, hurt, starts>>

Incidents == Faults \cup {"torn", "unsaved"}

TypeOK ==
    /\ files \in [Names -> (SUBSET Facts) \cup {None}]
    /\ disk \in Manifest \cup {None, Torn}
    /\ mem \in WriterState \cup {None}
    /\ pc \in {"down", "off", "idle", "seal", "open", "append", "save", "saving", "retain"}
    /\ goal \in Goals \cup {None}
    /\ call \in Call \cup {None}
    /\ retain \in Retention \cup {None}
    /\ now \in Hours
    /\ acked \in [Facts -> Hours \cup {None}]
    /\ hurt \in SUBSET Incidents
    /\ starts \in 0 .. MaxStarts
    /\ pc \in {"down", "off"} <=> mem = None
    /\ pc \in {"save", "saving"} => goal # None
    /\ pc = "append" => mem.tag = call.tag /\ mem.manifest.active = call.tag

Init ==
    /\ files = [n \in Names |-> None]
    /\ disk = None
    /\ mem = None
    /\ pc = "down"
    /\ goal = None
    /\ call = None
    /\ retain = None
    /\ now = Start
    /\ acked = [f \in Facts |-> None]
    /\ hurt = {}
    /\ starts = 0

\* Fault k may happen.
May(k) == k \in Faults /\ (k \in hurt \/ Cardinality(hurt) < MaxHurt)

Active(h) == <<"active", h>>
Sealed(h) == <<"sealed", h>>
Exists(n) == files[n] # None

\* FactStoreManifest::rotate: the old active file is listed under the name it
\* has as an active file.
rotate(m, h) == [active |-> h, sealed |-> m.sealed \cup {Active(m.active)}]

\* The listed files that are eligible for compaction at hour h: only a name with
\* the prefix of a sealed file is parsed.  (The compactor is not in the repository.)
compaction_candidates(m, h) ==
    {n \in m.sealed : n[1] = "sealed" /\ h - n[2] >= CompactHours}

\* The holder goes on to save the manifest, and to goal g after that.
SaveFor(g) == pc' = "save" /\ goal' = g
Started == starts < MaxStarts /\ starts' = starts + 1
-----------------------------------------------------------------------------
(* with_retention *)

\* Slip: the file of this hour is always started afresh.
Boot_truncates ==
    /\ pc = "down"
    /\ files' = [files EXCEPT ![Active(now)] = {}]
    /\ mem' = [tag |-> now, open |-> TRUE,
               manifest |-> IF disk \in {None, Torn} THEN [active |-> now, sealed |-> {}]
                            ELSE IF disk.active = now THEN disk ELSE rotate(disk, now)]
    /\ SaveFor("boot")
    /\ hurt' = IF disk = Torn THEN hurt \cup {"torn"} ELSE hurt
    /\ Started
    /\ UNCHANGED <<disk, call, retain, now, acked>>

\* Slip: a manifest of another hour is put aside.
Boot_forgets ==
    /\ pc = "down"
    /\ LET same == disk \notin {None, Torn} /\ disk.active = now IN
          /\ files' = [files EXCEPT ![Active(now)] = IF same /\ Exists(Active(now)) THEN @ ELSE {}]
          /\ mem' = [tag |-> now, open |-> TRUE,
                     manifest |-> IF same THEN disk ELSE [active |-> now, sealed |-> {}]]
    /\ SaveFor("boot")
    /\ hurt' = IF disk = Torn THEN hurt \cup {"torn"} ELSE hurt
    /\ Started
    /\ UNCHANGED <<disk, call, retain, now, acked>>

\* A manifest of this hour: its file is appended to.  A manifest of another
\* hour: rotated, without renaming its file.  None, or one that does not
\* parse: a fresh one.
Boot ==
    /\ pc = "down"
    /\ LET same == disk \notin {None, Torn} /\ disk.active = now IN
          /\ files' = [files EXCEPT ![Active(now)] = IF same /\ Exists(Active(now)) THEN @ ELSE {}]
          /\ mem' = [tag |-> now, open |-> TRUE,
                     manifest |-> IF same THEN disk
                                  ELSE IF disk \in {None, Torn} THEN [active |-> now, sealed |-> {}]
                                  ELSE rotate(disk, now)]
    /\ SaveFor("boot")
    /\ hurt' = IF disk = Torn THEN hurt \cup {"torn"} ELSE hurt
    /\ Started
    /\ UNCHANGED <<disk, call, retain, now, acked>>

\* The file cannot be opened: run goes on without a fact store.
BootFail ==
    /\ May("open")
    /\ pc = "down"
    /\ pc' = "off"
    /\ hurt' = hurt \cup {"open"}
    /\ Started
    /\ UNCHANGED <<files, disk, mem, goal, call, retain, now, acked>>
-----------------------------------------------------------------------------
(* persist_manifest: fs::write truncates the file before it writes it *)

SaveBegin ==
    /\ pc = "save"
    /\ disk' = Torn
    /\ pc' = "saving"
    /\ UNCHANGED <<files, mem, goal, call, retain, now, acked, hurt, starts>>

\* The call that saved the manifest goes on, or returns Ok.
SaveEnd ==
    /\ pc = "saving"
    /\ disk' = mem.manifest
    /\ pc' = IF goal = "append" THEN "append" ELSE "idle"
    /\ goal' = None
    /\ IF goal = "ack"
       THEN acked' = [acked EXCEPT ![call.fact] = call.tag] /\ call' = None
       ELSE UNCHANGED <<acked, call>>
    /\ UNCHANGED <<files, mem, retain, now, hurt, starts>>

\* The call returns the error; an error of with_retention leaves no store.
SaveFail ==
    /\ May("save")
    /\ pc \in {"save", "saving"}
    /\ IF goal = "boot" THEN pc' = "off" /\ mem' = None ELSE pc' = "idle" /\ UNCHANGED mem
    /\ call' = IF goal = "retained" THEN call ELSE None
    /\ goal' = None
    /\ hurt' = hurt \cup {"save"}
    /\ UNCHANGED <<files, disk, retain, now, acked, starts>>

\* with_retention has returned Ok and the tasks have been spawned.
Up == pc \notin {"down", "off"} /\ goal # "boot"
-----------------------------------------------------------------------------
(* write_event, rotate_locked *)

\* The fact writer task takes the next fact and reads the clock.
ReadClock(f) ==
    /\ Up
    /\ call = None
    /\ acked[f] = None
    /\ call' = [fact |-> f, tag |-> now]
    /\ UNCHANGED <<files, disk, mem, pc, goal, retain, now, acked, hurt, starts>>

\* It takes the mutex: the hour is that of the active file, or not.
WriteBegin ==
    /\ pc = "idle"
    /\ call # None
    /\ pc' = IF call.tag = mem.tag THEN "append" ELSE "seal"
    /\ UNCHANGED <<files, disk, mem, goal, call, retain, now, acked, hurt, starts>>

\* The writer is closed and the active file renamed, unless its sealed name is
\* taken.  Either way the sealed name is listed.
Seal ==
    LET h == mem.manifest.active IN
    /\ pc = "seal"
    /\ files' = IF Exists(Active(h)) /\ ~Exists(Sealed(h))
                THEN [files EXCEPT ![Sealed(h)] = files[Active(h)], ![Active(h)] = None]
                ELSE files
    /\ mem' = [mem EXCEPT !.open = FALSE,
                          !.manifest.sealed = IF Exists(Active(h)) THEN @ \cup {Sealed(h)} ELSE @]
    /\ pc' = "open"
    /\ UNCHANGED <<disk, goal, call, retain, now, acked, hurt, starts>>

SealFail ==
    /\ May("rename")
    /\ pc = "seal"
    /\ mem' = [mem EXCEPT !.open = FALSE]
    /\ pc' = "idle"
    /\ call' = None
    /\ hurt' = hurt \cup {"rename"}
    /\ UNCHANGED <<files, disk, goal, retain, now, acked, starts>>

\* Slip: the tag of the writer is left behind.
Open_old_tag ==
    /\ pc = "open"
    /\ files' = [files EXCEPT ![Active(call.tag)] = {}]
    /\ mem' = [tag |-> mem.tag, open |-> TRUE, manifest |-> rotate(mem.manifest, call.tag)]
    /\ SaveFor("append")
    /\ UNCHANGED <<disk, call, retain, now, acked, hurt, starts>>

Open ==
    /\ pc = "open"
    /\ files' = [files EXCEPT ![Active(call.tag)] = {}]
    /\ mem' = [tag |-> call.tag, open |-> TRUE, manifest |-> rotate(mem.manifest, call.tag)]
    /\ SaveFor("append")
    /\ UNCHANGED <<disk, call, retain, now, acked, hurt, starts>>

\* The new file cannot be opened: the tag and the manifest have moved on
\* already, and there is no writer until the next rotation.
OpenFail ==
    /\ May("open")
    /\ pc = "open"
    /\ mem' = [tag |-> call.tag, open |-> FALSE, manifest |-> rotate(mem.manifest, call.tag)]
    /\ pc' = "idle"
    /\ call' = None
    /\ hurt' = hurt \cup {"open"}
    /\ UNCHANGED <<files, disk, goal, retain, now, acked, starts>>

\* Without a writer the line is dropped, and the call goes on.
WriteLine ==
    LET n == Active(mem.manifest.active) IN
    /\ pc = "append"
    /\ files' = IF mem.open /\ Exists(n)
                THEN [files EXCEPT ![n] = @ \cup {call.fact}]
                ELSE files
    /\ SaveFor("ack")
    /\ UNCHANGED <<disk, mem, call, retain, now, acked, hurt, starts>>

WriteFail ==
    /\ May("append")
    /\ pc = "append"
    /\ pc' = "idle"
    /\ call' = None
    /\ hurt' = hurt \cup {"append"}
    /\ UNCHANGED <<files, disk, mem, goal, retain, now, acked, starts>>
-----------------------------------------------------------------------------
(* apply_retention *)

\* The maintenance task reads the clock.
RetentionTick ==
    /\ Up
    /\ retain = None
    /\ retain' = [at |-> now, due |-> {}]
    /\ UNCHANGED <<files, disk, mem, pc, goal, call, now, acked, hurt, starts>>

\* The listed files whose hour began KeepHours ago or more.
Aged == {n \in mem.manifest.sealed : retain.at - n[2] >= KeepHours}

\* In the first instant of an hour, a file that is exactly KeepHours old stays.
Due(S) == S \subseteq Aged /\ \A n \in Aged : retain.at - n[2] > KeepHours => n \in S

RetainBegin ==
    /\ pc = "idle"
    /\ retain # None
    /\ \E S \in SUBSET Aged : Due(S) /\ retain' = [retain EXCEPT !.due = S]
    /\ pc' = "retain"
    /\ UNCHANGED <<files, disk, mem, goal, call, now, acked, hurt, starts>>

RetainRemove ==
    /\ pc = "retain"
    /\ \E n \in retain.due : Exists(n) /\ files' = [files EXCEPT ![n] = None]
    /\ UNCHANGED <<disk, mem, pc, goal, call, retain, now, acked, hurt, starts>>

\* The names are dropped.  A file that could not be removed stays behind.
RetainEnd ==
    LET left == {n \in retain.due : Exists(n)} IN
    /\ pc = "retain"
    /\ left # {} => May("remove")
    /\ mem' = [mem EXCEPT !.manifest.sealed = @ \ retain.due]
    /\ hurt' = IF left # {} THEN hurt \cup {"remove"} ELSE hurt
    /\ retain' = None
    /\ SaveFor("retained")
    /\ UNCHANGED <<files, disk, call, now, acked, starts>>
-----------------------------------------------------------------------------
\* The process dies, or is stopped.  Facts it had not written are gone.
Crash ==
    /\ pc # "down"
    /\ pc' = "down"
    /\ mem' = None
    /\ goal' = None
    /\ call' = None
    /\ retain' = None
    /\ hurt' = IF mem # None /\ disk # mem.manifest THEN hurt \cup {"unsaved"} ELSE hurt
    /\ UNCHANGED <<files, disk, now, acked, starts>>

Tick ==
    /\ \/ now + 1 \in Hours /\ now' = now + 1 /\ UNCHANGED hurt
       \/ /\ May("back")
          /\ now - 1 \in Hours /\ now' = now - 1
          /\ hurt' = hurt \cup {"back"}
    /\ UNCHANGED <<files, disk, mem, pc, goal, call, retain, acked, starts>>

Next ==
    \/ Boot \/ BootFail
    \/ SaveBegin \/ SaveEnd \/ SaveFail
    \/ \E f \in Facts : ReadClock(f)
    \/ WriteBegin \/ Seal \/ SealFail \/ Open \/ OpenFail \/ WriteLine \/ WriteFail
    \/ RetentionTick \/ RetainBegin \/ RetainRemove \/ RetainEnd
    \/ Crash
    \/ Tick

Spec == Init /\ [][Next]_vars
-----------------------------------------------------------------------------
Stored(f) == \E n \in Names : Exists(n) /\ f \in files[n]

\* A fact for which write_event returned Ok, and whose hour began less than
\* KeepHours ago, is in a file.
Kept(f) == acked[f] # None /\ now - acked[f] < KeepHours => Stored(f)

\* The process may die at any step, renames, writes and removals may fail and
\* the manifest may be left behind its files: no acknowledged fact is lost, as
\* long as no manifest was torn, no file refused to open and the clock was not
\* set back.
FactsSurvive ==
    hurt \cap {"torn", "open", "back"} = {} => \A f \in Facts : Kept(f)

\* Every file with facts in it is listed in the manifest of the running process,
\* under the name it has, so that apply_retention comes to it: rotations at any
\* hour, restarts in the same hour or another and a clock that is set back lose
\* none, as long as every change of the manifest reached the disk and every
\* removal succeeded.
FilesAreListed ==
    pc = "idle" /\ hurt \cap {"torn", "unsaved", "remove"} = {} =>
       \A n \in Names : Exists(n) /\ files[n] # {} =>
          n \in mem.manifest.sealed \cup {Active(mem.manifest.active)}

-----------------------------------------------------------------------------
(* What comments of the source say and the code does not keep *)

\* "JSONL is source of truth": what write_event acknowledged is there after a
\* restart.
ReloadPreservesEvents == \A f \in Facts : Kept(f)

\* "Sealed event files (ready for compaction)": a listed file with facts in it is a
\* candidate once it is old enough.  (A start in another hour lists the file of the
\* last run under its active name, which compaction_candidates passes over.)
ReadyForCompaction ==
    pc = "idle" => \A n \in mem.manifest.sealed :
       Exists(n) /\ files[n] # {} /\ now - n[2] > CompactHours
       => n \in compaction_candidates(mem.manifest, now)
=============================================================================
