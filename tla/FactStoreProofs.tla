-------------------------- MODULE FactStoreProofs --------------------------
(***************************************************************************)
(* What is true of the fact store for every set of facts and hours, every  *)
(* retention time and every combination of faults: no acknowledged fact is *)
(* lost, and every file with facts in it is listed.                        *)
(***************************************************************************)
EXTENDS FactStore, TLAPS

(* The inductive invariant, in three parts: the control of the two tasks,  *)
(* where acknowledged facts are, and which files the manifests list.       *)

\* A call is under way only in a process that is up, and what it is about
\* agrees with where the holder of the mutex is.
Control ==
    /\ mem = None => call = None /\ retain = None /\ goal = None
    /\ mem # None => mem.tag = mem.manifest.active
    /\ goal # None => pc \in {"save", "saving"}
    /\ pc \in {"seal", "open"} => call # None /\ call.tag # mem.tag
    /\ pc = "append" \/ goal \in {"append", "ack"} => call # None /\ call.tag = mem.tag
    /\ goal = "boot" => call = None /\ retain = None
    /\ pc = "retain" =>
          /\ retain # None
          /\ retain.due \subseteq mem.manifest.sealed
          /\ \A n \in retain.due : retain.at - n[2] >= KeepHours

\* An active name in a manifest is of an earlier hour than its active file.
Ordered(m) == \A h \in Hours : Active(h) \in m.sealed => h < m.active

In(n, f) == Exists(n) /\ f \in files[n]

Parsed == disk \notin {None, Torn}

\* The tags never go back, and a writer that was closed belongs to a past hour.
MemSafe ==
    mem # None =>
       /\ mem.tag <= now /\ Ordered(mem.manifest)
       /\ mem.open => Exists(Active(mem.tag))
       /\ ~mem.open => mem.tag < now

DiskSafe == Parsed => disk.active <= now /\ Ordered(disk)

CallSafe ==
    /\ call # None => /\ mem.tag <= call.tag /\ call.tag <= now
                      /\ ~mem.open => mem.tag < call.tag
    /\ goal = "ack" => In(Active(call.tag), call.fact)
    /\ retain # None => retain.at <= now

\* The manifests have not fallen behind an acknowledged fact, and until it is
\* due it is in a file of the hour it was acknowledged under.
AckedSafe(f) ==
    acked[f] # None =>
       /\ acked[f] <= now
       /\ mem # None => acked[f] <= mem.tag
       /\ disk # None
       /\ Parsed => acked[f] <= disk.active
       /\ now - acked[f] < KeepHours => In(Active(acked[f]), f) \/ In(Sealed(acked[f]), f)

Safe == MemSafe /\ DiskSafe /\ CallSafe /\ \A f \in Facts : AckedSafe(f)

Lists(m, n) == n \in m.sealed \cup {Active(m.active)}
Holds(n) == Exists(n) /\ files[n] # {}

\* Files with facts are listed in memory, and on disk as long as no process
\* has begun to change them.
Listed ==
    /\ mem # None => \A n \in Names : Holds(n) => Lists(mem.manifest, n)
    /\ (mem = None \/ goal = "boot") /\ Parsed => \A n \in Names : Holds(n) => Lists(disk, n)
    /\ disk = None => (mem = None \/ goal = "boot") /\ \A n \in Names : ~Holds(n)

Calm == hurt \cap {"torn", "open", "back"} = {}
Saved == hurt \cap {"torn", "unsaved", "remove"} = {}

IInv == TypeOK /\ Control /\ (Calm => Safe) /\ (Saved => Listed)
-----------------------------------------------------------------------------
\* The parts of a well-typed state.
LEMMA Parts ==
    ASSUME TypeOK
    PROVE  /\ mem # None => /\ mem \in WriterState /\ mem.tag \in Hours /\ mem.open \in BOOLEAN
                            /\ mem.manifest \in Manifest /\ mem.manifest.active \in Hours
                            /\ mem.manifest.sealed \subseteq Names
           /\ Parsed => disk \in Manifest /\ disk.active \in Hours /\ disk.sealed \subseteq Names
           /\ call # None => call \in Call /\ call.fact \in Facts /\ call.tag \in Hours
           /\ retain # None => /\ retain \in Retention /\ retain.at \in Hours
                               /\ retain.due \subseteq Names
           /\ \A h \in Hours : Active(h) \in Names /\ Sealed(h) \in Names
BY DEF TypeOK, WriterState, Manifest, Call, Retention, Parsed, Names, Active, Sealed

LEMMA RotateType ==
    ASSUME NEW m \in Manifest, NEW h \in Hours
    PROVE  rotate(m, h) \in Manifest
BY DEF rotate, Manifest, Names, Active

LEMMA RotateOrdered ==
    ASSUME NEW m \in Manifest, NEW h \in Hours, Ordered(m), m.active < h
    PROVE  Ordered(rotate(m, h))
<1> SUFFICES ASSUME NEW k \in Hours, Active(k) \in m.sealed \cup {Active(m.active)}
             PROVE  k < h
  BY DEF Ordered, rotate
<1>1. k \in Int /\ h \in Int /\ m.active \in Int
  BY FactStoreAssumption DEF Manifest
<1>2. Active(k) = Active(m.active) => k = m.active
  BY DEF Active
<1>3. Active(k) \in m.sealed => k < m.active
  BY DEF Ordered
<1> QED
  BY <1>1, <1>2, <1>3

\* Every action keeps the types and the control of the two tasks.
LEMMA ControlStep ==
    TypeOK /\ Control /\ [Next]_vars => TypeOK' /\ Control'
<1> SUFFICES ASSUME TypeOK, Control, [Next]_vars PROVE TypeOK' /\ Control'
  OBVIOUS
<1> USE FactStoreAssumption, AbsenceAssumption
<1> USE Parts DEF Goals
<1>0. \A k : May(k) => hurt \cup {k} \in SUBSET Incidents
  BY DEF May, TypeOK, Incidents
<1>1. CASE Boot
  <2>1. mem' \in WriterState /\ mem'.tag = now /\ mem'.manifest.active = now
    <3>1. PICK m \in Manifest : mem' = [tag |-> now, open |-> TRUE, manifest |-> m] /\ m.active = now
      <4> DEFINE m == IF disk \notin {None, Torn} /\ disk.active = now THEN disk
                      ELSE IF disk \in {None, Torn} THEN [active |-> now, sealed |-> {}]
                      ELSE rotate(disk, now)
      <4>1. m \in Manifest
        <5>1. now \in Hours /\ [active |-> now, sealed |-> {}] \in Manifest
          BY DEF TypeOK, Manifest
        <5> QED
          BY <5>1, RotateType DEF Parsed
      <4>2. m.active = now
        BY DEF rotate
      <4> QED
        BY <1>1, <4>1, <4>2 DEF Boot
    <3> QED
      BY <3>1 DEF WriterState, TypeOK
  <2>2. files' \in [Names -> (SUBSET Facts) \cup {None}]
    BY <1>1 DEF Boot, TypeOK
  <2>3. hurt' \in SUBSET Incidents /\ starts' \in 0 .. MaxStarts
    BY <1>1 DEF Boot, TypeOK, Started, Incidents
  <2> QED
    BY <1>1, <2>1, <2>2, <2>3 DEF Boot, TypeOK, Control, SaveFor
<1>2. CASE BootFail
  BY <1>2 DEF BootFail, TypeOK, Control, May, Incidents, Started
<1>3. CASE SaveBegin
  BY <1>3 DEF SaveBegin, TypeOK, Control
<1>4. CASE SaveEnd
  <2>1. acked' \in [Facts -> Hours \cup {None}]
    BY <1>4 DEF SaveEnd, TypeOK, Control
  <2>2. mem # None
    BY <1>4 DEF SaveEnd, TypeOK
  <2> QED
    BY <1>4, <2>1, <2>2 DEF SaveEnd, TypeOK, Control
<1>5. CASE SaveFail
  <2>1. hurt' \in SUBSET Incidents /\ mem # None
    BY <1>0, <1>5 DEF SaveFail, TypeOK
  <2>2. CASE goal = "boot"
    BY <1>5, <2>1, <2>2 DEF SaveFail, TypeOK, Control
  <2>3. CASE goal # "boot"
    BY <1>5, <2>1, <2>3 DEF SaveFail, TypeOK, Control
  <2> QED
    BY <2>2, <2>3
<1>6. ASSUME NEW f \in Facts, ReadClock(f) PROVE TypeOK' /\ Control'
  <2>1. call' \in Call /\ call' # None
    BY <1>6 DEF ReadClock, TypeOK, Call
  <2> QED
    BY <1>6, <2>1 DEF ReadClock, TypeOK, Control, Up
<1>7. CASE WriteBegin
  BY <1>7 DEF WriteBegin, TypeOK, Control
<1>8. CASE Seal
  <2> DEFINE h == mem.manifest.active
  <2>1. mem \in WriterState /\ h \in Hours /\ mem # None
    BY <1>8 DEF Seal, TypeOK
  <2>2. files' \in [Names -> (SUBSET Facts) \cup {None}]
    BY <1>8, <2>1 DEF Seal, TypeOK
  <2>3. /\ mem' \in WriterState /\ mem'.tag = mem.tag
        /\ mem'.manifest.active = mem.manifest.active
    BY <1>8, <2>1 DEF Seal, WriterState, Manifest
  <2> QED
    BY <1>8, <2>1, <2>2, <2>3 DEF Seal, TypeOK, Control
<1>9. CASE SealFail
  <2>1. mem # None /\ mem' \in WriterState /\ mem'.tag = mem.tag /\ mem'.manifest = mem.manifest
    BY <1>9 DEF SealFail, TypeOK, WriterState
  <2> QED
    BY <1>9, <2>1 DEF SealFail, TypeOK, Control, May, Incidents
<1>10. ASSUME pc = "open", NEW b \in BOOLEAN,
              mem' = [tag |-> call.tag, open |-> b, manifest |-> rotate(mem.manifest, call.tag)]
       PROVE  /\ mem # None /\ call # None
              /\ mem' \in WriterState /\ mem'.tag = call.tag /\ mem'.manifest.active = call.tag
  <2>1. call.tag \in Hours /\ mem # None /\ call # None
    BY <1>10 DEF Control, TypeOK
  <2>2. rotate(mem.manifest, call.tag) \in Manifest
    BY <2>1, RotateType
  <2> QED
    BY <1>10, <2>1, <2>2 DEF rotate, WriterState
<1>11. CASE Open
  <2>1. mem' \in WriterState /\ mem'.tag = call.tag /\ mem'.manifest.active = call.tag
        /\ call # None /\ mem # None
    BY <1>10, <1>11 DEF Open
  <2>2. files' \in [Names -> (SUBSET Facts) \cup {None}]
    BY <1>11, <2>1 DEF Open, TypeOK
  <2> QED
    BY <1>11, <2>1, <2>2 DEF Open, TypeOK, Control, SaveFor
<1>12. CASE OpenFail
  <2>1. mem' \in WriterState /\ mem'.tag = call.tag /\ mem'.manifest.active = call.tag
        /\ call # None /\ mem # None
    BY <1>10, <1>12 DEF OpenFail
  <2> QED
    BY <1>12, <2>1 DEF OpenFail, TypeOK, Control, May, Incidents
<1>13. CASE WriteLine
  <2>1. mem # None /\ call # None
    BY <1>13 DEF WriteLine, TypeOK, Control
  <2>2. files' \in [Names -> (SUBSET Facts) \cup {None}]
    <3>1. CASE mem.open /\ Exists(Active(mem.manifest.active))
      BY <1>13, <2>1, <3>1 DEF WriteLine, TypeOK, Exists
    <3>2. CASE ~(mem.open /\ Exists(Active(mem.manifest.active)))
      BY <1>13, <3>2 DEF WriteLine, TypeOK
    <3> QED
      BY <3>1, <3>2
  <2> QED
    BY <1>13, <2>1, <2>2 DEF WriteLine, TypeOK, Control, SaveFor
<1>14. CASE WriteFail
  <2>1. hurt' \in SUBSET Incidents /\ mem # None
    BY <1>0, <1>14 DEF WriteFail, TypeOK
  <2> QED
    BY <1>14, <2>1 DEF WriteFail, TypeOK, Control
<1>15. CASE RetentionTick
  <2>1. retain' \in Retention /\ retain' # None
    BY <1>15 DEF RetentionTick, TypeOK, Retention
  <2> QED
    BY <1>15, <2>1 DEF RetentionTick, TypeOK, Control, Up
<1>16. CASE RetainBegin
  <2>1. mem # None /\ retain \in Retention
    BY <1>16 DEF RetainBegin, TypeOK
  <2>2. PICK S \in SUBSET Aged : retain' = [retain EXCEPT !.due = S]
    BY <1>16 DEF RetainBegin
  <2>3. retain' \in Retention /\ retain'.due = S /\ retain'.at = retain.at
    BY <2>1, <2>2 DEF Retention, Aged
  <2>4. \A n \in S : n \in mem.manifest.sealed /\ retain.at - n[2] >= KeepHours
    BY <2>2 DEF Aged
  <2> QED
    BY <1>16, <2>1, <2>3, <2>4 DEF RetainBegin, TypeOK, Control
<1>17. CASE RetainRemove
  <2>1. files' \in [Names -> (SUBSET Facts) \cup {None}]
    BY <1>17 DEF RetainRemove, TypeOK
  <2> QED
    BY <1>17, <2>1 DEF RetainRemove, TypeOK, Control
<1>18. CASE RetainEnd
  <2>1. mem # None /\ retain # None
    BY <1>18 DEF RetainEnd, TypeOK, Control
  <2>2. mem' \in WriterState /\ mem'.tag = mem.tag
        /\ mem'.manifest.active = mem.manifest.active
    BY <1>18, <2>1 DEF RetainEnd, WriterState, Manifest
  <2>3. hurt' \in SUBSET Incidents
    BY <1>18 DEF RetainEnd, TypeOK, May, Incidents
  <2> QED
    BY <1>18, <2>1, <2>2, <2>3 DEF RetainEnd, TypeOK, Control, SaveFor
<1>19. CASE Crash
  BY <1>19 DEF Crash, TypeOK, Control, Incidents
<1>20. CASE Tick
  <2>1. hurt' \in SUBSET Incidents /\ now' \in Hours
    BY <1>0, <1>20 DEF Tick, TypeOK
  <2> QED
    BY <1>20, <2>1 DEF Tick, TypeOK, Control
<1>21. CASE UNCHANGED vars
  BY <1>21 DEF vars, TypeOK, Control
<1> QED
  BY <1>1, <1>2, <1>3, <1>4, <1>5, <1>6, <1>7, <1>8, <1>9, <1>11, <1>12, <1>13, <1>14,
     <1>15, <1>16, <1>17, <1>18, <1>19, <1>20, <1>21 DEF Next
-----------------------------------------------------------------------------
\* Without a torn manifest, a file that does not open and a clock that is set
\* back, every action keeps the acknowledged facts in their files.
LEMMA SafeStep ==
    ASSUME TypeOK, TypeOK', Control, Control', Safe, Calm', [Next]_vars
    PROVE  Safe'
<1> USE FactStoreAssumption, AbsenceAssumption, Parts DEF Goals
<1>a. now \in Int /\ KeepHours \in Int /\ \A h \in Hours : h \in Int
  BY DEF TypeOK
<1>e. /\ mem # None => mem.tag \in Int /\ mem.manifest.active \in Int
      /\ Parsed => disk.active \in Int
      /\ call # None => call.tag \in Int
      /\ retain # None => retain.at \in Int
  BY <1>a
<1>b. \A f \in Facts : acked[f] # None => acked[f] \in Hours /\ acked[f] \in Int
  BY <1>a DEF TypeOK
<1>c. \A h, k \in Hours : Active(h) # Sealed(k) /\ (Active(h) = Active(k) => h = k)
                          /\ (Sealed(h) = Sealed(k) => h = k)
  BY DEF Active, Sealed
<1>d. \A h \in Hours : Active(h)[2] = h /\ Sealed(h)[2] = h
  BY DEF Active, Sealed
<1>f. MemSafe /\ DiskSafe /\ CallSafe
  BY DEF Safe, AckedSafe
<1>g. \A f \in Facts : acked[f] # None => disk # None /\ (Parsed => acked[f] <= disk.active)
  BY DEF Safe, AckedSafe
<1>h. now \in Hours
  BY DEF TypeOK
<1>i. \A f \in Facts : acked[f] # None /\ mem # None => acked[f] <= mem.tag
  BY DEF Safe, AckedSafe
<1>1. CASE Boot
  <2>1. disk # Torn
    BY <1>1 DEF Boot, Calm
  <2>2. /\ mem' # None /\ mem'.tag = now /\ mem'.open = TRUE
        /\ call' = None /\ retain' = None /\ goal' = "boot"
        /\ now' = now /\ disk' = disk /\ acked' = acked
    BY <1>1 DEF Boot, SaveFor, Control, TypeOK
  <2>3. Exists(Active(now))'
    BY <1>1, <1>a DEF Boot, TypeOK, Exists
  <2>4. Ordered(mem'.manifest)
    <3>1. CASE disk = None
      BY <1>1, <3>1 DEF Boot, Ordered
    <3>2. CASE Parsed /\ disk.active = now
      BY <1>1, <3>2 DEF Boot, Parsed, Safe, MemSafe, DiskSafe, CallSafe, AckedSafe
    <3>3. CASE Parsed /\ disk.active # now
      <4>1. mem'.manifest = rotate(disk, now)
        BY <1>1, <3>3 DEF Boot, Parsed
      <4>2. disk.active < now /\ Ordered(disk)
        BY <1>a, <1>e, <1>f, <3>3 DEF DiskSafe
      <4> QED
        BY <1>h, <3>3, <4>1, <4>2, RotateOrdered
    <3> QED
      BY <2>1, <3>1, <3>2, <3>3 DEF Parsed
  <2>5. ASSUME NEW f \in Facts, acked[f] # None
        PROVE  \A n \in {Active(acked[f]), Sealed(acked[f])} : In(n, f) => In(n, f)'
    <3>1. CASE disk.active = now
      BY <1>1, <1>b, <1>c, <2>1, <2>5, <3>1
      DEF Boot, Safe, MemSafe, DiskSafe, CallSafe, AckedSafe, In, Exists, TypeOK
    <3>2. CASE disk.active # now
      <4>1. acked[f] # now
        BY <1>a, <1>b, <1>e, <1>g, <2>1, <2>5, <3>2, <1>f DEF DiskSafe, Parsed
      <4> QED
        BY <1>1, <1>b, <1>c, <2>5, <4>1 DEF Boot, In, Exists, TypeOK
    <3> QED
      BY <3>1, <3>2
  <2> QED
    BY <1>a, <2>2, <2>3, <2>4, <2>5 DEF Safe, MemSafe, DiskSafe, CallSafe, AckedSafe, Parsed, In
<1>2. CASE BootFail
  BY <1>2 DEF BootFail, Calm
<1>3. CASE SaveBegin
  BY <1>3 DEF SaveBegin, Safe, MemSafe, DiskSafe, CallSafe, AckedSafe, Parsed, In, Exists, Ordered
<1>4. CASE SaveEnd
  BY <1>4, <1>a, <1>b
  DEF SaveEnd, Safe, MemSafe, DiskSafe, CallSafe, AckedSafe, Parsed, In, Exists, Ordered,
      Control, TypeOK
<1>5. CASE SaveFail
  BY <1>5
  DEF SaveFail, Safe, MemSafe, DiskSafe, CallSafe, AckedSafe, Parsed, In, Exists, Ordered,
      Control, TypeOK
<1>6. ASSUME NEW f \in Facts, ReadClock(f) PROVE Safe'
  BY <1>6, <1>a
  DEF ReadClock, Up, Safe, MemSafe, DiskSafe, CallSafe, AckedSafe, Parsed, In, Exists, Ordered,
      Control, TypeOK
<1>7. CASE WriteBegin
  BY <1>7 DEF WriteBegin, Safe, MemSafe, DiskSafe, CallSafe, AckedSafe, Parsed, In, Exists, Ordered
<1>8. CASE Seal
  <2> DEFINE h == mem.manifest.active
  <2>1. /\ mem # None /\ call # None /\ h = mem.tag /\ mem.tag < call.tag /\ mem.tag < now
    BY <1>8, <1>a DEF Seal, Control, Safe, MemSafe, DiskSafe, CallSafe, AckedSafe, TypeOK
  <2>2. /\ mem'.tag = mem.tag /\ mem'.open = FALSE /\ mem'.manifest.active = h
        /\ \/ mem'.manifest.sealed = mem.manifest.sealed
           \/ mem'.manifest.sealed = mem.manifest.sealed \cup {Sealed(h)}
    BY <1>8, <2>1 DEF Seal, WriterState, Manifest
  <2>3. Ordered(mem'.manifest)
    BY <1>c, <1>f, <2>1, <2>2 DEF Ordered, MemSafe
  <2>4. ASSUME NEW f \in Facts, NEW k \in Hours, In(Active(k), f) \/ In(Sealed(k), f)
        PROVE  In(Active(k), f)' \/ In(Sealed(k), f)'
    BY <1>8, <1>c, <2>1, <2>4 DEF Seal, In, Exists, TypeOK
  <2> QED
    BY <1>8, <1>b, <2>1, <2>2, <2>3, <2>4
    DEF Seal, Safe, MemSafe, DiskSafe, CallSafe, AckedSafe, Parsed, Control
<1>9. CASE SealFail
  <2>1. /\ mem # None /\ call # None /\ mem.tag < call.tag /\ mem.tag < now
    BY <1>9, <1>a DEF SealFail, Control, Safe, MemSafe, DiskSafe, CallSafe, AckedSafe, TypeOK
  <2>2. mem'.tag = mem.tag /\ mem'.open = FALSE /\ mem'.manifest = mem.manifest
    BY <1>9, <2>1 DEF SealFail, WriterState
  <2> QED
    BY <1>9, <2>1, <2>2
    DEF SealFail, Safe, MemSafe, DiskSafe, CallSafe, AckedSafe, Parsed, In, Exists, Ordered,
        Control
<1>10. CASE Open
  <2>1. /\ mem # None /\ call # None /\ mem.tag < call.tag /\ call.tag <= now
        /\ mem.manifest.active = mem.tag
    <3>1. mem # None /\ call # None /\ call.tag # mem.tag /\ mem.manifest.active = mem.tag
      BY <1>10 DEF Open, Control, TypeOK
    <3> QED
      BY <1>e, <1>f, <3>1 DEF CallSafe
  <2>2. /\ mem' # None /\ mem'.tag = call.tag /\ mem'.open = TRUE
        /\ mem'.manifest = rotate(mem.manifest, call.tag)
    BY <1>10, <2>1 DEF Open, TypeOK, SaveFor
  <2>3. Ordered(mem'.manifest)
    BY <1>f, <2>1, <2>2, RotateOrdered DEF MemSafe
  <2>4. ASSUME NEW f \in Facts, acked[f] # None
        PROVE  /\ acked[f] < call.tag
               /\ \A n \in {Active(acked[f]), Sealed(acked[f])} : In(n, f) => In(n, f)'
    <3>1. acked[f] \in Hours /\ acked[f] < call.tag
      BY <1>b, <1>e, <1>i, <2>1, <2>4
    <3> QED
      <4>1. call.tag \in Hours /\ call.tag # acked[f]
        BY <1>a, <1>e, <2>1, <3>1
      <4>2. \A n \in Names : n # Active(call.tag) => files'[n] = files[n]
        BY <1>10 DEF Open, TypeOK
      <4>3. /\ files'[Active(acked[f])] = files[Active(acked[f])]
            /\ files'[Sealed(acked[f])] = files[Sealed(acked[f])]
        BY <1>c, <3>1, <4>1, <4>2
      <4> QED
        BY <3>1, <4>3 DEF In, Exists
  <2>5. Exists(Active(call.tag))'
    BY <1>10, <2>1 DEF Open, TypeOK, Exists
  <2> QED
    <3>1. /\ goal' = "append" /\ call' = call /\ retain' = retain /\ now' = now
          /\ disk' = disk /\ acked' = acked
      BY <1>10 DEF Open, SaveFor
    <3>2. MemSafe'
      BY <2>1, <2>2, <2>3, <2>5, <3>1 DEF MemSafe
    <3>3. DiskSafe' /\ CallSafe'
      BY <1>e, <1>f, <2>1, <2>2, <3>1 DEF DiskSafe, CallSafe, Parsed
    <3>4. \A f \in Facts : AckedSafe(f)'
      <4> SUFFICES ASSUME NEW f \in Facts, acked[f] # None PROVE AckedSafe(f)'
        BY <3>1 DEF AckedSafe
      <4>1. acked[f] \in Int /\ acked[f] <= call.tag
        BY <1>b, <1>e, <2>1, <2>4
      <4> QED
        BY <2>2, <2>4, <3>1, <4>1 DEF Safe, AckedSafe, Parsed
    <3> QED
      BY <3>2, <3>3, <3>4 DEF Safe
<1>11. CASE OpenFail
  BY <1>11 DEF OpenFail, Calm
<1>12. CASE WriteLine
  <2>1. /\ mem # None /\ call # None /\ mem.tag = call.tag /\ mem.manifest.active = call.tag
        /\ mem.open
    <3>1. mem # None /\ call # None /\ mem.tag = call.tag /\ mem.manifest.active = call.tag
      BY <1>12 DEF WriteLine, Control, TypeOK
    <3> QED
      BY <1>e, <1>f, <3>1 DEF CallSafe
  <2>2. files' = [files EXCEPT ![Active(call.tag)] = @ \cup {call.fact}]
    BY <1>12, <2>1 DEF WriteLine, Safe, MemSafe, DiskSafe, CallSafe, AckedSafe
  <2>3. \A f \in Facts, n \in Names : In(n, f) => In(n, f)'
    BY <2>1, <2>2 DEF In, Exists, TypeOK
  <2>4. In(Active(call.tag), call.fact)' /\ Exists(Active(call.tag))'
    BY <1>12, <2>1, <2>2
    DEF In, Exists, TypeOK, WriteLine, Safe, MemSafe, DiskSafe, CallSafe, AckedSafe
  <2> QED
    BY <1>12, <1>b, <2>1, <2>3, <2>4
    DEF WriteLine, SaveFor, Safe, MemSafe, DiskSafe, CallSafe, AckedSafe, Parsed, Ordered
<1>13. CASE WriteFail
  BY <1>13
  DEF WriteFail, Safe, MemSafe, DiskSafe, CallSafe, AckedSafe, Parsed, In, Exists, Ordered,
      Control
<1>14. CASE RetentionTick
  BY <1>14, <1>a
  DEF RetentionTick, Safe, MemSafe, DiskSafe, CallSafe, AckedSafe, Parsed, In, Exists, Ordered
<1>15. CASE RetainBegin
  <2>1. retain # None /\ retain'.at = retain.at
    BY <1>15 DEF RetainBegin, Retention
  <2> QED
    BY <1>15, <2>1
    DEF RetainBegin, Safe, MemSafe, DiskSafe, CallSafe, AckedSafe, Parsed, In, Exists, Ordered
<1>16. CASE RetainRemove
  <2>1. PICK n \in retain.due : files' = [files EXCEPT ![n] = None]
    BY <1>16 DEF RetainRemove
  <2>2. mem # None /\ retain # None /\ n \in mem.manifest.sealed /\ n \in Names
        /\ retain.at - n[2] >= KeepHours /\ retain.at <= now /\ n[2] \in Hours
    BY <1>16, <2>1
    DEF RetainRemove, Control, Safe, MemSafe, DiskSafe, CallSafe, AckedSafe, TypeOK, Names
  <2>3. n # Active(mem.tag)
    <3>1. \A h \in Hours : Active(h) \in mem.manifest.sealed => h < mem.tag
      BY <1>f, <2>2 DEF MemSafe, Ordered, Control
    <3> QED
      BY <1>e, <2>2, <3>1
  <2>4. Exists(Active(mem.tag)) => Exists(Active(mem.tag))'
    BY <1>16, <2>1, <2>2, <2>3 DEF RetainRemove, Exists, TypeOK
  <2>5. ASSUME NEW f \in Facts, acked[f] # None, now - acked[f] < KeepHours
        PROVE  \A m \in {Active(acked[f]), Sealed(acked[f])} : In(m, f) => In(m, f)'
    <3>1. n[2] # acked[f]
      BY <1>a, <1>b, <1>e, <2>2, <2>5
    <3>2. n # Active(acked[f]) /\ n # Sealed(acked[f])
      BY <1>b, <1>d, <2>5, <3>1
    <3>3. \A m \in Names : m # n => files'[m] = files[m]
      BY <2>1 DEF TypeOK
    <3> QED
      BY <1>b, <2>5, <3>2, <3>3 DEF In, Exists
  <2> QED
    BY <1>16, <1>a, <1>b, <2>2, <2>4, <2>5
    DEF RetainRemove, Safe, MemSafe, DiskSafe, CallSafe, AckedSafe, Parsed, Ordered, Control
<1>17. CASE RetainEnd
  <2>1. mem # None
    BY <1>17 DEF RetainEnd, TypeOK
  <2>2. /\ mem'.tag = mem.tag /\ mem'.open = mem.open /\ mem' # None
        /\ mem'.manifest.active = mem.manifest.active
        /\ mem'.manifest.sealed \subseteq mem.manifest.sealed
    BY <1>17, <2>1 DEF RetainEnd, WriterState, Manifest, TypeOK, SaveFor
  <2>3. Ordered(mem'.manifest)
    BY <2>1, <2>2 DEF Ordered, Safe, MemSafe, DiskSafe, CallSafe, AckedSafe
  <2> QED
    BY <1>17, <2>1, <2>2, <2>3
    DEF RetainEnd, SaveFor, Safe, MemSafe, DiskSafe, CallSafe, AckedSafe, Parsed, In, Exists
<1>18. CASE Crash
  BY <1>18 DEF Crash, Safe, MemSafe, DiskSafe, CallSafe, AckedSafe, Parsed, In, Exists, Ordered
<1>19. CASE Tick
  <2>1. now' = now + 1 /\ UNCHANGED <<files, disk, mem, pc, goal, call, retain, acked, starts>>
    BY <1>19 DEF Tick, Calm
  <2> QED
    <3>1. MemSafe' /\ DiskSafe' /\ CallSafe'
      BY <1>a, <1>e, <1>f, <2>1 DEF MemSafe, DiskSafe, CallSafe, Parsed, In, Exists, Ordered
    <3>2. \A f \in Facts : AckedSafe(f)'
      BY <1>a, <1>b, <1>e, <2>1 DEF Safe, AckedSafe, Parsed, In, Exists
    <3> QED
      BY <3>1, <3>2 DEF Safe
<1>20. CASE UNCHANGED vars
  BY <1>20 DEF vars, Safe, MemSafe, DiskSafe, CallSafe, AckedSafe, Parsed, In, Exists, Ordered
<1> QED
  BY <1>1, <1>2, <1>3, <1>4, <1>5, <1>6, <1>7, <1>8, <1>9, <1>10, <1>11, <1>12, <1>13, <1>14,
     <1>15, <1>16, <1>17, <1>18, <1>19, <1>20 DEF Next
-----------------------------------------------------------------------------
\* As long as every manifest that parses was the one in memory when the process
\* died, and removals succeed, every action keeps the files listed.
LEMMA ListedStep ==
    ASSUME TypeOK, TypeOK', Control, Control', Listed, Saved', [Next]_vars
    PROVE  Listed'
<1> USE FactStoreAssumption, AbsenceAssumption, Parts DEF Goals
<1>1. CASE Boot
  <2>1. disk # Torn
    BY <1>1 DEF Boot, Saved
  <2>2. mem' # None /\ goal' = "boot" /\ disk' = disk /\ mem = None
    BY <1>1 DEF Boot, SaveFor, TypeOK
  <2>3. \A n \in Names : Holds(n)' => Holds(n)
    BY <1>1 DEF Boot, Holds, Exists, TypeOK
  <2>4. ASSUME NEW n \in Names, Parsed, Lists(disk, n) PROVE Lists(mem'.manifest, n)
    BY <1>1, <2>4 DEF Boot, Parsed, Lists, rotate
  <2> QED
    BY <2>1, <2>2, <2>3, <2>4 DEF Listed, Parsed
<1>2. CASE BootFail
  BY <1>2 DEF BootFail, Listed, Holds, Exists, Parsed, Lists, TypeOK
<1>3. CASE SaveBegin
  BY <1>3 DEF SaveBegin, Listed, Holds, Exists, Parsed, Lists
<1>4. CASE SaveEnd
  BY <1>4 DEF SaveEnd, Listed, Holds, Exists, Parsed, Lists, TypeOK
<1>5. CASE SaveFail
  BY <1>5 DEF SaveFail, Listed, Holds, Exists, Parsed, Lists, TypeOK
<1>6. ASSUME NEW f \in Facts, ReadClock(f) PROVE Listed'
  BY <1>6 DEF ReadClock, Listed, Holds, Exists, Parsed, Lists
<1>7. CASE WriteBegin
  BY <1>7 DEF WriteBegin, Listed, Holds, Exists, Parsed, Lists
<1>8. CASE Seal
  <2> DEFINE h == mem.manifest.active
  <2>1. mem # None /\ goal = None /\ goal' = None /\ mem' # None /\ disk' = disk
    BY <1>8 DEF Seal, TypeOK, Control
  <2>2. /\ mem'.manifest.active = h
        /\ mem'.manifest.sealed = IF Exists(Active(h)) THEN mem.manifest.sealed \cup {Sealed(h)}
                                  ELSE mem.manifest.sealed
    BY <1>8, <2>1 DEF Seal, WriterState, Manifest
  <2>3. \A n \in Names : Holds(n)' => Holds(n) \/ (n = Sealed(h) /\ Exists(Active(h)))
    BY <1>8, <2>1 DEF Seal, Holds, Exists, TypeOK
  <2> QED
    BY <2>1, <2>2, <2>3 DEF Listed, Lists
<1>9. CASE SealFail
  <2>1. mem # None /\ mem'.manifest = mem.manifest /\ goal = None
    BY <1>9 DEF SealFail, TypeOK, WriterState, Control
  <2> QED
    BY <1>9, <2>1 DEF SealFail, Listed, Holds, Exists, Parsed, Lists, TypeOK
<1>10. CASE Open \/ OpenFail
  <2>1. /\ mem # None /\ goal = None /\ disk' = disk /\ mem' # None /\ goal' # "boot"
        /\ mem'.manifest = rotate(mem.manifest, call.tag)
    BY <1>10 DEF Open, OpenFail, SaveFor, TypeOK, Control
  <2>2. \A n \in Names : Holds(n)' => Holds(n)
    <3>1. CASE Open
      BY <3>1 DEF Open, Holds, Exists, TypeOK
    <3>2. CASE OpenFail
      BY <3>2 DEF OpenFail, Holds, Exists
    <3> QED
      BY <1>10, <3>1, <3>2
  <2> QED
    BY <2>1, <2>2 DEF Listed, Lists, rotate
<1>11. CASE WriteLine
  <2>1. mem # None /\ goal = None /\ disk' = disk /\ mem' = mem /\ goal' = "ack"
    BY <1>11 DEF WriteLine, SaveFor, TypeOK, Control
  <2>2. \A n \in Names : Holds(n)' => Holds(n) \/ n = Active(mem.manifest.active)
    BY <1>11 DEF WriteLine, Holds, Exists, TypeOK
  <2> QED
    BY <2>1, <2>2 DEF Listed, Lists
<1>12. CASE WriteFail
  BY <1>12 DEF WriteFail, Listed, Holds, Exists, Parsed, Lists
<1>13. CASE RetentionTick \/ RetainBegin
  BY <1>13 DEF RetentionTick, RetainBegin, Listed, Holds, Exists, Parsed, Lists
<1>14. CASE RetainRemove
  <2>1. UNCHANGED <<disk, mem, goal>>
    BY <1>14 DEF RetainRemove
  <2>2. \A n \in Names : Holds(n)' => Holds(n)
    BY <1>14 DEF RetainRemove, Holds, Exists, TypeOK
  <2> QED
    BY <2>1, <2>2 DEF Listed, Parsed, Lists
<1>15. CASE RetainEnd
  <2>1. mem # None /\ goal = None /\ goal' = "retained" /\ disk' = disk /\ files' = files
    BY <1>15 DEF RetainEnd, SaveFor, TypeOK, Control
  <2>2. /\ mem' # None /\ mem'.manifest.active = mem.manifest.active
        /\ mem'.manifest.sealed = mem.manifest.sealed \ retain.due
    BY <1>15, <2>1 DEF RetainEnd, WriterState, Manifest, SaveFor, TypeOK
  <2>3. \A n \in retain.due : ~Exists(n)
    BY <1>15 DEF RetainEnd, Saved
  <2> QED
    BY <2>1, <2>2, <2>3 DEF Listed, Lists, Holds, Exists
<1>16. CASE Crash
  <2>1. mem = None \/ disk = mem.manifest
    BY <1>16 DEF Crash, Saved
  <2> QED
    BY <1>16, <2>1 DEF Crash, Listed, Holds, Exists, Parsed, Lists, TypeOK
<1>17. CASE Tick
  BY <1>17 DEF Tick, Listed, Holds, Exists, Parsed, Lists
<1>18. CASE UNCHANGED vars
  BY <1>18 DEF vars, Listed, Holds, Exists, Parsed, Lists
<1> QED
  BY <1>1, <1>2, <1>3, <1>4, <1>5, <1>6, <1>7, <1>8, <1>9, <1>10, <1>11, <1>12, <1>13, <1>14,
     <1>15, <1>16, <1>17, <1>18 DEF Next
-----------------------------------------------------------------------------
\* What went wrong once stays on record.
LEMMA HurtGrows ==
    ASSUME [Next]_vars
    PROVE  hurt \subseteq hurt'
BY DEF Next, vars, Boot, BootFail, SaveBegin, SaveEnd, SaveFail, ReadClock, WriteBegin, Seal,
       SealFail, Open, OpenFail, WriteLine, WriteFail, RetentionTick, RetainBegin, RetainRemove,
       RetainEnd, Crash, Tick

LEMMA InvInit == Init => IInv
<1> SUFFICES ASSUME Init PROVE IInv
  OBVIOUS
<1> USE FactStoreAssumption, AbsenceAssumption DEF Goals
<1>1. TypeOK
  BY DEF Init, TypeOK
<1>2. Control
  BY DEF Init, Control
<1>3. Safe
  BY DEF Init, Safe, MemSafe, DiskSafe, CallSafe, AckedSafe, Parsed
<1>4. Listed
  BY DEF Init, Listed, Holds, Exists, Parsed
<1> QED
  BY <1>1, <1>2, <1>3, <1>4 DEF IInv

LEMMA InvStep == IInv /\ [Next]_vars => IInv'
<1> SUFFICES ASSUME IInv, [Next]_vars PROVE IInv'
  OBVIOUS
<1>1. TypeOK /\ Control /\ TypeOK' /\ Control'
  BY ControlStep DEF IInv
<1>2. (Calm' => Calm) /\ (Saved' => Saved)
  BY HurtGrows DEF Calm, Saved
<1>3. ASSUME Calm' PROVE Safe'
  <2>1. Safe
    BY <1>2, <1>3 DEF IInv
  <2> QED
    BY <1>1, <1>3, <2>1, SafeStep
<1>4. Saved' => Listed'
  BY <1>1, <1>2, ListedStep DEF IInv
<1> QED
  BY <1>1, <1>3, <1>4 DEF IInv

LEMMA InvAlways == Spec => []IInv
BY InvInit, InvStep, PTL DEF Spec

\* Whatever fails and whenever the process dies, the state of the store has its
\* type; in particular write_event appends only to the file of its own hour.
THEOREM FactStoreTypeCorrect == Spec => []TypeOK
<1>1. IInv => TypeOK
  BY DEF IInv
<1> QED
  BY <1>1, InvAlways, PTL

\* For all hours and retention times: a fact that write_event acknowledged is in
\* a file until retention is due, through crashes, restarts and failing renames,
\* writes, saves and removals.
THEOREM FactsSurviveHolds == Spec => []FactsSurvive
<1>1. IInv => FactsSurvive
  <2> SUFFICES ASSUME IInv, Calm, NEW f \in Facts, acked[f] # None, now - acked[f] < KeepHours
               PROVE  Stored(f)
    BY DEF FactsSurvive, Kept, Calm
  <2>1. acked[f] \in Hours
    BY DEF IInv, TypeOK
  <2>2. In(Active(acked[f]), f) \/ In(Sealed(acked[f]), f)
    BY DEF IInv, Safe, AckedSafe
  <2> QED
    BY <2>1, <2>2, Parts DEF Stored, In, IInv
<1> QED
  BY <1>1, InvAlways, PTL

\* For all hours and retention times: no file with facts in it is forgotten by
\* the manifest, whatever the clock does and whatever fails besides removals.
THEOREM FilesAreListedHolds == Spec => []FilesAreListed
<1>1. IInv => FilesAreListed
  <2> SUFFICES ASSUME IInv, pc = "idle", Saved, NEW n \in Names, Exists(n), files[n] # {}
               PROVE  n \in mem.manifest.sealed \cup {Active(mem.manifest.active)}
    BY DEF FilesAreListed, Saved
  <2>1. mem # None
    BY DEF IInv, TypeOK
  <2> QED
    BY <2>1 DEF IInv, Listed, Holds, Lists
<1> QED
  BY <1>1, InvAlways, PTL
=============================================================================
