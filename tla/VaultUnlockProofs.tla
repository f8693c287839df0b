-------------------------- MODULE VaultUnlockProofs --------------------------
(***************************************************************************)
(* Proofs about VaultUnlock, for any delays, migrations, builds and bounds: *)
(* what a wrong password costs, what the file on disk verifies as, which   *)
(* versions a session runs on, which snapshot there is to go back to, and  *)
(* the types.                                                              *)
(***************************************************************************)
EXTENDS VaultUnlock, SequenceTheorems, FiniteSetTheorems, TLAPS

\* The last wrong password is recorded in two statements: before the first it is
\* not counted, before the second its delay is known and not stored.
Costs ==
    /\ failures \in Int /\ guesses \in Int /\ lost \in Int /\ owed \in Int /\ wait \in Int
    /\ guesses = failures + lost + (IF pc = "count" THEN 1 ELSE 0)
    /\ pc = "until" => owed = delay_after(failures)
    /\ pc = "clear" => owed <= 0
    /\ pc # "until" => (owed > 0 => wait >= owed)

\* There are as many subsets of 1..k.
LEMMA PowerIsNat == ASSUME NEW k \in Nat PROVE 2 ^ k \in Nat
<1>1. IsFiniteSet(1..k) /\ Cardinality(1..k) = k
  BY FS_Interval
<1>2. IsFiniteSet(SUBSET (1..k)) /\ Cardinality(SUBSET (1..k)) = 2 ^ Cardinality(1..k)
  BY <1>1, FS_SUBSET
<1> QED
  BY <1>1, <1>2, FS_CardinalityType

LEMMA DelayIsBounded ==
    ASSUME NEW n \in Int
    PROVE  delay_after(n) \in Nat /\ delay_after(n) <= MAX_DELAY
<1>1. CASE n <= FREE_ATTEMPTS
  BY <1>1, ConstantsAssumption DEF delay_after
<1>2. CASE ~(n <= FREE_ATTEMPTS)
  <2>1. n - FREE_ATTEMPTS - 1 \in Nat
    BY <1>2, ConstantsAssumption
  <2>2. 2 ^ (n - FREE_ATTEMPTS - 1) \in Nat
    BY <2>1, PowerIsNat
  <2> QED
    BY <1>2, <2>2, ConstantsAssumption DEF delay_after, Smaller
<1> QED
  BY <1>1, <1>2

LEMMA CostsInit == Init => Costs
BY ConstantsAssumption DEF Init, Costs, LongPast

\* The steps in which a cost is recorded, waited out or forgiven.
Priced ==
    \/ WrongPassword \/ CountFailure \/ SetUntil \/ ResetFailures \/ ClearUntil \/ Tick
    \/ \E d \in 1..MAX_DELAY : ClockBack(d)
    \/ Crash \/ StatementFails

LEMMA PricedKeepsCosts == Costs /\ Priced => Costs'
<1> SUFFICES ASSUME Costs, Priced PROVE Costs'
  OBVIOUS
<1>1. CASE WrongPassword
  BY <1>1 DEF WrongPassword, Evaluated, Costs, Then, disk
<1>2. CASE CountFailure
  <2>1. failures + 1 \in Int /\ delay_after(failures + 1) \in Int
    BY DelayIsBounded DEF Costs
  <2> DEFINE delay == delay_after(failures + 1)
  <2>2. /\ pc = "count" /\ failures' = failures + 1 /\ owed' = delay
        /\ pc' = IF delay > 0 THEN "until" ELSE "idle"
        /\ UNCHANGED <<wait, guesses, lost>>
    BY <1>2 DEF CountFailure, Then
  <2>3. delay_after(failures') = delay
    BY <2>2
  <2> HIDE DEF delay
  <2> QED
    BY <2>1, <2>2, <2>3 DEF Costs, delay
<1>3. CASE SetUntil
  <2>1. /\ pc = "until" /\ pc' = "idle" /\ wait' = owed
        /\ UNCHANGED <<failures, guesses, lost, owed>>
    BY <1>3 DEF SetUntil, Then, ghosts, Costs
  <2> QED
    BY <2>1 DEF Costs
<1>4. CASE ResetFailures
  BY <1>4 DEF ResetFailures, Then, Costs
<1>5. CASE ClearUntil
  BY <1>5, ConstantsAssumption DEF ClearUntil, Then, ghosts, LongPast, Costs
<1>6. CASE Tick
  BY <1>6 DEF Tick, process, Larger, Costs
<1>7. ASSUME NEW d \in 1..MAX_DELAY, ClockBack(d) PROVE Costs'
  BY <1>7, ConstantsAssumption DEF ClockBack, process, ghosts, Costs
<1>8. CASE Crash \/ StatementFails
  BY <1>8 DEF Crash, StatementFails, NoteCut, Then, disk, Costs
<1> QED
  BY <1>1, <1>2, <1>3, <1>4, <1>5, <1>6, <1>7, <1>8 DEF Priced

\* Every other step leaves the costs alone.
LEMMA OthersAreFree ==
    ASSUME Next, ~Priced
    PROVE  /\ UNCHANGED <<failures, wait, guesses, lost, owed>>
           /\ {pc, pc'} \cap {"count", "until", "clear"} = {}
PROOF
<1>1. CASE CreateTables \/ InsertHeader
  BY <1>1 DEF CreateTables, InsertHeader, ghosts, Then
<1>2. CASE Open \/ SchemaSnapshot \/ RunDDL \/ DDLRefused \/ StoreSchemaVersion
  BY <1>2 DEF Open, SchemaSnapshot, Snapshot, RunDDL, DDLRefused, StoreSchemaVersion,
              disk, ghosts, Then
<1>3. CASE RightPassword \/ ResealHeader
  BY <1>3 DEF RightPassword, Evaluated, ResealHeader, disk, ghosts, Then
<1>4. CASE PayloadSnapshot \/ Apply \/ StorePayloadVersion \/ StoreManifest \/ Unlocked
  BY <1>4 DEF PayloadSnapshot, Snapshot, Apply, StorePayloadVersion, StoreManifest, Unlocked,
              disk, ghosts, Then
<1>5. CASE Write \/ Lock \/ Quit \/ \E b \in 1..MaxBuild : Install(b)
  BY <1>5 DEF Write, Lock, Quit, Install, disk, ghosts
<1> QED
  BY <1>1, <1>2, <1>3, <1>4, <1>5 DEF Next, Continue, Priced

LEMMA CostsStep == Costs /\ [Next]_vars => Costs'
<1> SUFFICES ASSUME Costs, [Next]_vars PROVE Costs'
  OBVIOUS
<1>1. CASE Priced
  BY <1>1, PricedKeepsCosts
<1>2. CASE Next /\ ~Priced
  <2>1. /\ UNCHANGED <<failures, wait, guesses, lost, owed>>
        /\ {pc, pc'} \cap {"count", "until", "clear"} = {}
    BY <1>2, OthersAreFree
  <2> QED
    BY <2>1 DEF Costs
<1>3. CASE UNCHANGED vars
  BY <1>3 DEF Costs, vars, disk, process, ghosts
<1> QED
  BY <1>1, <1>2, <1>3

\* unlock_with, record_failure and backoff::delay_after: between operations every
\* wrong password since the last success is counted or was cut before its count,
\* and no delay that is owed has become shorter, whatever is migrated, crashes,
\* fails, is restarted or installed, and however the clock is set back.
THEOREM WrongPasswordsCost == Spec => []BackoffHolds
<1>1. Init => Costs
  BY CostsInit
<1>2. Costs /\ [Next]_vars => Costs'
  BY CostsStep
<1>3. Costs => BackoffHolds
  BY DEF Costs, BackoffHolds
<1> QED
  BY <1>1, <1>2, <1>3, PTL DEF Spec

-----------------------------------------------------------------------------
(* The header and its MAC.                                                 *)

\* The values a MAC, VaultFile.header and the file may have.
MacType == [schema: Int, payload: Int, sig: Int]
InMemory == [schema: Int, payload: Int, sig: Int, mac: MacType]
File == [ddl: Int, rows: Int, schema: Int, payload: Int, sig: Int, mac: MacType]

\* Verifies, without the choice of an older schema version: the manifest signature
\* covers the rows, and the MAC every column but perhaps the schema version.
Sound(d) ==
    /\ d.sig = d.rows
    /\ d.mac.payload = d.payload /\ d.mac.sig = d.sig
    /\ 1 <= d.mac.schema /\ d.mac.schema <= d.schema

\* A file with a header is not one without.
LEMMA FileIsFile == ASSUME NEW d \in File PROVE d \notin {NoFile, Tables}
<1>1. "rows" \in DOMAIN d
  BY DEF File
<1>2. "rows" \notin DOMAIN NoFile /\ "rows" \notin DOMAIN Tables
  BY DEF NoFile, Tables
<1> QED
  BY <1>1, <1>2

LEMMA HeaderIsHeader == ASSUME NEW h \in InMemory PROVE h # NoHeader
<1>1. "sig" \in DOMAIN h
  BY DEF InMemory
<1>2. "sig" \notin DOMAIN NoHeader
  BY DEF NoHeader
<1> QED
  BY <1>1, <1>2

\* What is sound passes all checks of an unlock.
LEMMA SoundVerifies == ASSUME NEW d \in File, Sound(d) PROVE Verifies(Header(d), d.rows)
<1>1. CASE d.mac.schema = d.schema
  BY <1>1 DEF File, MacType, Sound, Verifies, Header, Fields
<1>2. CASE d.mac.schema < d.schema
  <2>1. d.mac.schema \in 1..(d.schema - 1)
    BY <1>2 DEF File, MacType, Sound
  <2>2. d.mac = [schema |-> d.mac.schema, payload |-> d.payload, sig |-> d.sig]
    BY DEF File, MacType, Sound
  <2>3. d.mac = [Fields(Header(d)) EXCEPT !.schema = d.mac.schema]
    BY <2>2 DEF Fields, Header
  <2>4. MacStale(Header(d))
    BY <2>1, <2>3 DEF MacStale, Header
  <2> QED
    BY <2>4 DEF Verifies, Sound, Header
<1> QED
  BY <1>1, <1>2 DEF File, MacType, Sound

\* What an unlock that went through says of the header in memory.
LEMMA Verified == ASSUME NEW h \in InMemory, NEW rows, Verifies(h, rows)
                  PROVE h.sig = rows /\ h.mac.payload = h.payload
<1>1. h.sig = rows
  BY DEF Verifies
<1>2. CASE h.mac = Fields(h)
  BY <1>1, <1>2 DEF Fields
<1>3. CASE MacStale(h)
  <2>1. PICK v \in 1..(h.schema - 1) : h.mac = [Fields(h) EXCEPT !.schema = v]
    BY <1>3 DEF MacStale
  <2> QED
    BY <1>1, <2>1 DEF Fields
<1> QED
  BY <1>1, <1>2, <1>3 DEF Verifies

LEMMA MacedTyped == ASSUME NEW h \in InMemory
                    PROVE /\ Maced(h) \in InMemory /\ Maced(h).mac = Fields(Maced(h))
                          /\ Maced(h).schema = h.schema /\ Maced(h).payload = h.payload
                          /\ Maced(h).sig = h.sig
                          /\ Fields(h) \in MacType
BY DEF Maced, Fields, InMemory, MacType

\* open_with has begun and not returned.
Migrating == {"schema snapshot", "ddl", "version"}

\* What a header h in memory knows of a file d before statement p.
Mirrors(d, h, p) ==
    /\ p \in Migrating => d.schema <= h.schema /\ h.payload = d.payload
    /\ p \notin Migrating => d.schema = h.schema
    /\ h.mac.payload = h.payload => h.mac = Fields(h) \/ h.payload = d.payload
    /\ p \in {"reset", "clear", "mac"} => h.sig = d.rows /\ h.mac.payload = h.payload
    /\ p \in {"payload snapshot", "apply"} => h.mac.payload <= h.payload
    /\ p = "bump" => h.mac.payload < h.payload
    /\ p = "manifest" => h.mac = Fields(h) /\ h.sig = d.rows /\ h.payload = d.payload

\* create or open_with has begun and not returned; no keys are held.
Opening == {"header"} \cup Migrating

\* The inductive invariant.  What is on disk is sound unless torn; between the
\* statements that rewrite it, that follows from what memory knows of it.
Kept ==
    /\ db \in {NoFile, Tables} \cup File
    /\ HasHeader => 1 <= db.schema /\ (torn \/ Sound(db))
    /\ Attached => db \in File /\ mem \in InMemory /\ Mirrors(db, mem, pc)
    /\ session => Attached /\ pc \notin Opening
    /\ pc \notin {"idle", "header"} => Attached

LEMMA KeptInit == Init => Kept
BY DEF Init, Kept, HasHeader, Attached

\* Kept is re-established where a file stays attached.
LEMMA StillKept ==
    ASSUME db' \in File, mem' \in InMemory, 1 <= db'.schema, Mirrors(db', mem', pc'),
           torn' \/ Sound(db'), session' => pc' \notin Opening
    PROVE  Kept'
<1>1. Attached'
  BY HeaderIsHeader DEF Attached
<1> QED
  BY <1>1 DEF Kept

\* What Kept says while a file is attached.
LEMMA Known ==
    ASSUME Kept, Attached
    PROVE  /\ db \in File /\ mem \in InMemory /\ Mirrors(db, mem, pc)
           /\ 1 <= db.schema /\ (torn \/ Sound(db))
<1>1. db \in File
  BY DEF Kept
<1>2. HasHeader
  BY <1>1, FileIsFile DEF HasHeader
<1> QED
  BY <1>1, <1>2 DEF Kept

\* Between unlocks; and while open_with runs.
LEMMA MirrorsAtRest ==
    ASSUME NEW d, NEW h, NEW p \in {"idle", "count", "until", "open"}, d.schema = h.schema,
           h.mac = Fields(h) \/ h.payload = d.payload
    PROVE  Mirrors(d, h, p)
BY DEF Mirrors, Migrating

LEMMA MirrorsMigrating ==
    ASSUME NEW d, NEW h, NEW p \in Migrating, d.schema <= h.schema, h.payload = d.payload
    PROVE  Mirrors(d, h, p)
BY DEF Mirrors, Migrating

-----------------------------------------------------------------------------
(* One lemma per group of actions.                                         *)

LEMMA CreateKeeps == ASSUME Kept, CreateTables \/ InsertHeader PROVE Kept'
<1>1. CASE CreateTables
  <2>1. db = NoFile /\ ~Attached /\ ~session
    BY <1>1, FileIsFile DEF Kept, CreateTables
  <2>2. db' = Tables /\ pc' = "header" /\ UNCHANGED <<mem, session, torn>>
    BY <1>1 DEF CreateTables, Then, ghosts
  <2> QED
    BY <2>1, <2>2 DEF Kept, Attached, HasHeader
<1>2. CASE InsertHeader
  <2> DEFINE mac == [schema |-> 1, payload |-> 1, sig |-> 0]
             h == [schema |-> 1, payload |-> 1, sig |-> 0, mac |-> mac]
             d == [ddl |-> 1, rows |-> 0, schema |-> 1, payload |-> 1, sig |-> 0, mac |-> mac]
  <2>1. Maced([schema |-> 1, payload |-> 1, sig |-> 0, mac |-> <<>>]) = h
    BY DEF Maced, Fields
  <2>2. mem' = h /\ db' = d /\ pc' = "idle" /\ UNCHANGED <<session, torn>>
    BY <1>2, <2>1 DEF InsertHeader, CURRENT_SCHEMA_VERSION, Then, ghosts
  <2>3. /\ h \in InMemory /\ d \in File /\ Sound(d) /\ h.mac = Fields(h)
        /\ d.schema = 1 /\ h.schema = 1
    BY DEF InMemory, File, MacType, Sound, Fields
  <2> HIDE DEF d, h
  <2>4. Mirrors(d, h, "idle")
    BY <2>3, MirrorsAtRest
  <2> QED
    BY <2>2, <2>3, <2>4, StillKept DEF Opening, Migrating
<1> QED
  BY <1>1, <1>2

LEMMA OpenKeeps == ASSUME Kept, Open PROVE Kept'
<1>1. /\ db \in File /\ mem' = Header(db) /\ pc' \in {"schema snapshot", "idle"}
      /\ UNCHANGED <<db, session, torn>> /\ ~session /\ HasHeader
  BY DEF Open, Kept, Then, disk, HasHeader
<1> DEFINE h == Header(db)
<1>2. /\ h \in InMemory /\ h.schema = db.schema
      /\ h.payload = db.payload /\ h.mac = db.mac /\ db.schema \in Int
  BY <1>1 DEF Header, File, InMemory
<1>3. 1 <= db.schema /\ (torn \/ Sound(db))
  BY <1>1 DEF Kept
<1> HIDE DEF h
<1>4. Mirrors(db, h, "idle") /\ Mirrors(db, h, "schema snapshot")
  <2>1. Mirrors(db, h, "idle")
    BY <1>2, MirrorsAtRest
  <2>2. db.schema <= h.schema
    BY <1>2
  <2>3. Mirrors(db, h, "schema snapshot")
    BY <1>2, <2>2, MirrorsMigrating DEF Migrating
  <2> QED
    BY <2>1, <2>3
<1>5. mem' = h
  BY <1>1 DEF h
<1>6. db' = db /\ ~session' /\ torn' = torn /\ pc' \in {"schema snapshot", "idle"}
  BY <1>1
<1>7. Mirrors(db', mem', pc')
  BY <1>4, <1>5, <1>6
<1>8. db' \in File /\ mem' \in InMemory /\ 1 <= db'.schema /\ (torn' \/ Sound(db'))
  <2>1. db \in File
    BY <1>1
  <2> QED
    BY <2>1, <1>2, <1>3, <1>5, <1>6
<1> QED
  BY <1>6, <1>7, <1>8, StillKept

LEMMA SchemaKeeps ==
    ASSUME Kept, SchemaSnapshot \/ RunDDL \/ DDLRefused \/ StoreSchemaVersion
    PROVE Kept'
<1>1. pc \in Migrating /\ Attached /\ ~session
  BY DEF SchemaSnapshot, RunDDL, DDLRefused, StoreSchemaVersion, Kept, Opening, Migrating
<1>2. /\ db \in File /\ mem \in InMemory /\ 1 <= db.schema /\ (torn \/ Sound(db))
      /\ db.schema <= mem.schema /\ mem.payload = db.payload
  BY <1>1, Known DEF Mirrors
<1>3. CASE SchemaSnapshot
  <2>1. UNCHANGED <<db, mem, session, torn>> /\ pc' = "ddl"
    BY <1>3 DEF SchemaSnapshot, Snapshot, Then, ghosts
  <2>2. Mirrors(db, mem, "ddl")
    BY <1>2, MirrorsMigrating DEF Migrating
  <2> QED
    BY <1>1, <1>2, <2>1, <2>2, StillKept
<1>4. CASE RunDDL
  <2> DEFINE h == [mem EXCEPT !.schema = mem.schema + 1]
             d == [db EXCEPT !.ddl = Larger(mem.schema + 1, db.ddl)]
  <2>1. pc' \in {"ddl", "version"} /\ mem' = h /\ db' = d /\ UNCHANGED <<session, torn>>
    BY <1>4 DEF RunDDL, Then, ghosts
  <2>2. /\ h \in InMemory /\ h.schema = mem.schema + 1 /\ h.payload = mem.payload
    BY <1>2 DEF InMemory
  <2>3. Larger(mem.schema + 1, db.ddl) \in Int
    BY <1>2 DEF File, InMemory, Larger
  <2>4. /\ d \in File /\ d.schema = db.schema /\ d.payload = db.payload
        /\ d.rows = db.rows /\ d.sig = db.sig /\ d.mac = db.mac
    BY <1>2, <2>3 DEF File
  <2> HIDE DEF d, h
  <2>5. d.schema <= h.schema
    BY <1>2, <2>2, <2>4 DEF File, InMemory
  <2>6. Mirrors(d, h, "ddl") /\ Mirrors(d, h, "version")
    BY <1>2, <2>2, <2>4, <2>5, MirrorsMigrating DEF Migrating
  <2>7. torn \/ Sound(d)
    BY <1>2, <2>4 DEF Sound
  <2> QED
    BY <1>1, <1>2, <2>1, <2>2, <2>4, <2>6, <2>7, StillKept
<1>5. CASE DDLRefused
  <2>1. mem' = NoHeader /\ pc' = "idle" /\ UNCHANGED <<db, session, torn>>
    BY <1>5 DEF DDLRefused, Then, disk, ghosts
  <2> QED
    BY <1>1, <2>1 DEF Kept, Attached, HasHeader
<1>6. CASE StoreSchemaVersion
  <2> DEFINE d == [db EXCEPT !.schema = mem.schema]
  <2>1. pc' = "idle" /\ db' = d /\ UNCHANGED <<mem, session, torn>>
    BY <1>6 DEF StoreSchemaVersion, Then, ghosts
  <2>2. /\ d \in File /\ d.schema = mem.schema /\ d.payload = db.payload
        /\ d.rows = db.rows /\ d.sig = db.sig /\ d.mac = db.mac
    BY <1>2 DEF File, InMemory
  <2> HIDE DEF d
  <2>3. Mirrors(d, mem, "idle")
    BY <1>2, <2>2, MirrorsAtRest
  <2>4. db.schema \in Int /\ db.mac.schema \in Int /\ mem.schema \in Int
    BY <1>2 DEF File, InMemory, MacType
  <2>5. torn \/ Sound(d)
    BY <1>2, <2>2, <2>4 DEF Sound
  <2>6. 1 <= d.schema
    BY <1>2, <2>2, <2>4
  <2> QED
    BY <1>1, <1>2, <2>1, <2>2, <2>3, <2>5, <2>6, StillKept
<1> QED
  BY <1>3, <1>4, <1>5, <1>6

\* Nothing but the step of an operation in progress changes.
LEMMA StepKeeps ==
    ASSUME Kept, Attached, UNCHANGED <<db, mem, session, torn>>, Mirrors(db, mem, pc'),
           session => pc' \notin Opening
    PROVE  Kept'
<1>1. /\ db \in File /\ mem \in InMemory /\ 1 <= db.schema /\ (torn \/ Sound(db))
  BY Known
<1> QED
  BY <1>1, StillKept

\* Backoff and the clock leave file and header alone.
LEMMA RestKeeps ==
    ASSUME Kept, pc = "idle" \/ pc \in {"count", "until"}, pc' \in {"idle", "count", "until"},
           pc' # "idle" => Attached, UNCHANGED <<db, mem, session, torn>>
    PROVE  Kept'
<1>1. CASE Attached
  <2>1. Mirrors(db, mem, pc)
    BY <1>1, Known
  <2>2. Mirrors(db, mem, pc')
    BY <2>1 DEF Mirrors, Migrating
  <2> QED
    BY <1>1, <2>2, StepKeeps DEF Opening, Migrating
<1>2. CASE ~Attached
  BY <1>2 DEF Kept, Attached, HasHeader
<1> QED
  BY <1>1, <1>2

LEMMA BackoffKeeps ==
    ASSUME Kept, \/ WrongPassword \/ CountFailure \/ SetUntil
                 \/ Tick \/ \E d \in 1..MAX_DELAY : ClockBack(d)
    PROVE  Kept'
<1>1. CASE WrongPassword
  BY <1>1, RestKeeps DEF WrongPassword, Evaluated, Then, disk
<1>2. CASE CountFailure
  <2>1. Attached
    BY <1>2 DEF CountFailure, Kept
  <2> QED
    BY <1>2, <2>1, RestKeeps DEF CountFailure, Then
<1>3. CASE SetUntil
  BY <1>3, RestKeeps DEF SetUntil, Then, ghosts
<1>4. CASE Tick \/ \E d \in 1..MAX_DELAY : ClockBack(d)
  BY <1>4, RestKeeps DEF Tick, ClockBack, process, ghosts
<1> QED
  BY <1>1, <1>2, <1>3, <1>4

LEMMA UnlockKeeps ==
    ASSUME Kept, RightPassword \/ ResetFailures \/ ClearUntil \/ ResealHeader
    PROVE  Kept'
<1>1. /\ Attached /\ pc \in {"idle", "reset", "clear", "mac"}
  BY DEF RightPassword, Evaluated, ResetFailures, ClearUntil, ResealHeader, Kept
<1>2. /\ db \in File /\ mem \in InMemory /\ 1 <= db.schema /\ (torn \/ Sound(db))
      /\ Mirrors(db, mem, pc) /\ db.schema = mem.schema
      /\ mem.mac.payload = mem.payload => mem.mac = Fields(mem) \/ mem.payload = db.payload
  BY <1>1, Known DEF Mirrors, Migrating
<1>3. CASE RightPassword
  <2>1. mem.sig = db.rows /\ mem.mac.payload = mem.payload
    BY <1>2, <1>3, Verified DEF RightPassword
  <2>2. Mirrors(db, mem, "reset")
    BY <1>2, <2>1 DEF Mirrors, Migrating
  <2> QED
    BY <1>1, <1>3, <2>2, StepKeeps DEF RightPassword, Then, disk, ghosts, Opening, Migrating
<1>4. CASE ResetFailures \/ ClearUntil
  <2>1. Mirrors(db, mem, "clear") /\ Mirrors(db, mem, "mac")
    BY <1>2, <1>4 DEF ResetFailures, ClearUntil, Mirrors, Migrating
  <2> QED
    BY <1>1, <1>4, <2>1, StepKeeps DEF ResetFailures, ClearUntil, Then, ghosts, Opening, Migrating
<1>5. CASE ResealHeader
  <2>1. /\ pc = "mac" /\ pc' \in {"payload snapshot", "open"} /\ UNCHANGED session
    BY <1>5 DEF ResealHeader, Then
  <2>2. mem.sig = db.rows /\ mem.mac.payload = mem.payload
    BY <1>2, <2>1 DEF Mirrors
  <2>3. CASE mem.schema = CURRENT_SCHEMA_VERSION /\ mem.mac = Fields(mem)
    <3>1. UNCHANGED <<db, mem, torn>>
      BY <1>5, <2>3 DEF ResealHeader
    <3>2. mem.payload \in Int
      BY <1>2 DEF InMemory
    <3>3. mem.mac.payload <= mem.payload
      BY <2>2, <3>2
    <3>4. Mirrors(db, mem, "payload snapshot") /\ Mirrors(db, mem, "open")
      BY <1>2, <2>3, <3>3 DEF Mirrors, Migrating
    <3> QED
      BY <1>1, <2>1, <3>1, <3>4, StepKeeps DEF Opening, Migrating
  <2>4. CASE ~(mem.schema = CURRENT_SCHEMA_VERSION /\ mem.mac = Fields(mem))
    <3> DEFINE h == Maced(mem)
               d == [db EXCEPT !.schema = mem.schema, !.mac = Fields(mem)]
    <3>1. mem' = h /\ db' = d /\ torn' = (torn \/ mem.payload # db.payload)
      BY <1>5, <2>4 DEF ResealHeader
    <3>2. /\ h \in InMemory /\ h.mac = Fields(h) /\ Fields(mem) \in MacType
          /\ h.schema = mem.schema /\ h.payload = mem.payload /\ h.sig = mem.sig
      BY <1>2, MacedTyped
    <3>3. /\ d \in File /\ d.schema = mem.schema /\ d.payload = db.payload
          /\ d.rows = db.rows /\ d.sig = db.sig /\ d.mac = Fields(mem)
      BY <1>2, <3>2 DEF File, InMemory
    <3>4. torn' \/ mem.payload = db.payload
      BY <3>1, Zenon
    <3>5. torn' \/ Sound(d)
      <4>1. ASSUME ~torn' PROVE Sound(d)
        <5>1. db.sig = db.rows /\ mem.payload = db.payload
          BY <1>2, <3>1, <4>1, Zenon DEF Sound
        <5>2. mem.schema \in Int /\ 1 <= mem.schema
          BY <1>2 DEF InMemory
        <5> QED
          BY <2>2, <3>3, <5>1, <5>2 DEF Sound, Fields
      <4> QED
        BY <4>1
    <3> HIDE DEF d, h
    <3>6. h.payload \in Int /\ h.mac.payload = h.payload
      BY <3>2 DEF InMemory, Fields
    <3>7. Mirrors(d, h, "payload snapshot") /\ Mirrors(d, h, "open")
      BY <3>2, <3>3, <3>6 DEF Mirrors, Migrating
    <3>8. 1 <= d.schema
      BY <1>2, <3>3
    <3> QED
      BY <2>1, <3>1, <3>2, <3>3, <3>5, <3>7, <3>8, StillKept DEF Opening, Migrating
  <2> QED
    BY <2>3, <2>4
<1> QED
  BY <1>3, <1>4, <1>5

LEMMA MigrateKeeps ==
    ASSUME Kept, PayloadSnapshot \/ Apply \/ StorePayloadVersion \/ StoreManifest \/ Unlocked
    PROVE  Kept'
<1>1. /\ Attached /\ pc \in {"payload snapshot", "apply", "bump", "manifest", "open"}
  BY DEF PayloadSnapshot, Apply, StorePayloadVersion, StoreManifest, Unlocked, Kept
<1>2. /\ db \in File /\ mem \in InMemory /\ 1 <= db.schema /\ (torn \/ Sound(db))
      /\ Mirrors(db, mem, pc) /\ db.schema = mem.schema
      /\ mem.mac.payload = mem.payload => mem.mac = Fields(mem) \/ mem.payload = db.payload
  BY <1>1, Known DEF Mirrors, Migrating
<1>3. CASE PayloadSnapshot
  <2>1. pc = "payload snapshot" /\ pc' = "apply" /\ UNCHANGED <<db, mem, session, torn>>
    BY <1>3 DEF PayloadSnapshot, Snapshot, Then, ghosts
  <2>2. Mirrors(db, mem, "apply")
    BY <1>2, <2>1 DEF Mirrors, Migrating
  <2> QED
    BY <1>1, <2>1, <2>2, StepKeeps DEF Opening, Migrating
<1>4. CASE Apply
  <2> DEFINE h == [mem EXCEPT !.payload = mem.payload + 1]
             d == [db EXCEPT !.rows = db.rows + 1]
  <2>1. /\ pc = "apply" /\ pc' \in {"apply", "bump"} /\ mem' = h /\ UNCHANGED session
        /\ (db' = db /\ torn' = torn) \/ (db' = d /\ torn' = TRUE)
    BY <1>4 DEF Apply, Then
  <2>2. /\ h \in InMemory /\ h.schema = mem.schema /\ h.payload = mem.payload + 1
        /\ h.mac = mem.mac
    BY <1>2 DEF InMemory
  <2>3. d \in File /\ d.schema = db.schema
    BY <1>2 DEF File
  <2> HIDE DEF d, h
  <2>4. mem.mac.payload \in Int /\ mem.payload \in Int /\ mem.mac.payload <= mem.payload
    BY <1>2, <2>1 DEF InMemory, MacType, Mirrors
  <2>5. h.mac.payload < h.payload /\ h.mac.payload <= h.payload /\ h.mac.payload # h.payload
    BY <2>2, <2>4
  <2>6. ASSUME NEW f, f.schema = mem.schema PROVE Mirrors(f, h, "apply") /\ Mirrors(f, h, "bump")
    BY <2>2, <2>5, <2>6 DEF Mirrors, Migrating
  <2>7. Mirrors(db, h, "apply") /\ Mirrors(db, h, "bump")
    BY <1>2, <2>6
  <2>8. Mirrors(d, h, "apply") /\ Mirrors(d, h, "bump")
    BY <1>2, <2>3, <2>6
  <2>9. session' => pc' \notin Opening
    BY <2>1 DEF Opening, Migrating
  <2>10. CASE db' = db /\ torn' = torn
    BY <1>2, <2>1, <2>2, <2>7, <2>9, <2>10, StillKept
  <2>11. CASE db' = d /\ torn' = TRUE
    BY <1>2, <2>1, <2>2, <2>3, <2>8, <2>9, <2>11, StillKept
  <2> QED
    BY <2>1, <2>10, <2>11
<1>5. CASE StorePayloadVersion
  <2> DEFINE signed == [mem EXCEPT !.sig = db.rows]
             h == Maced(signed)
             d == [db EXCEPT !.payload = mem.payload, !.mac = h.mac]
  <2>1. pc = "bump" /\ pc' = "manifest" /\ mem' = h /\ db' = d /\ UNCHANGED <<session, torn>>
    BY <1>5 DEF StorePayloadVersion, Then, ghosts
  <2>2. /\ signed \in InMemory /\ signed.sig = db.rows
        /\ signed.schema = mem.schema /\ signed.payload = mem.payload
    BY <1>2 DEF InMemory, File
  <2> HIDE DEF signed
  <2>3. /\ h \in InMemory /\ h.mac = Fields(h)
        /\ h.schema = mem.schema /\ h.payload = mem.payload /\ h.sig = db.rows
    BY <2>2, MacedTyped
  <2> HIDE DEF h
  <2>4. h.mac \in MacType /\ mem.payload \in Int
    BY <1>2, <2>3 DEF InMemory
  <2>5. /\ d \in File /\ d.schema = db.schema /\ d.payload = mem.payload
        /\ d.rows = db.rows /\ d.sig = db.sig /\ d.mac = h.mac
    BY <1>2, <2>4 DEF File
  <2> HIDE DEF d
  <2>6. Mirrors(d, h, "manifest")
    BY <1>2, <2>3, <2>5 DEF Mirrors, Migrating
  <2>7. torn \/ Sound(d)
    <3>1. ASSUME ~torn PROVE Sound(d)
      <4>1. db.sig = db.rows
        BY <1>2, <3>1 DEF Sound
      <4>2. db.schema \in Int
        BY <1>2 DEF File
      <4>3. /\ h.mac.schema = db.schema /\ h.mac.payload = mem.payload /\ h.mac.sig = db.rows
        BY <1>2, <2>3 DEF Fields
      <4> QED
        BY <1>2, <2>5, <4>1, <4>2, <4>3 DEF Sound
    <3> QED
      BY <3>1
  <2> QED
    BY <1>2, <2>1, <2>3, <2>5, <2>6, <2>7, StillKept DEF Opening, Migrating
<1>6. CASE StoreManifest
  <2> DEFINE d == [db EXCEPT !.sig = mem.sig, !.mac = mem.mac]
  <2>1. pc = "manifest" /\ pc' = "open" /\ db' = d /\ UNCHANGED <<mem, session>>
    BY <1>6 DEF StoreManifest, Then
  <2>2. mem.mac = Fields(mem) /\ mem.sig = db.rows /\ mem.payload = db.payload
    BY <1>2, <2>1 DEF Mirrors
  <2>3. /\ d \in File /\ d.schema = db.schema /\ d.payload = db.payload
        /\ d.rows = db.rows /\ d.sig = mem.sig /\ d.mac = mem.mac
    BY <1>2 DEF File, InMemory
  <2> HIDE DEF d
  <2>4. Mirrors(d, mem, "open")
    BY <1>2, <2>2, <2>3, MirrorsAtRest
  <2>5. Sound(d)
    <3>1. db.schema \in Int
      BY <1>2 DEF File
    <3>2. /\ mem.mac.schema = db.schema /\ mem.mac.payload = db.payload
          /\ mem.mac.sig = db.rows
      BY <1>2, <2>2 DEF Fields
    <3> QED
      BY <1>2, <2>2, <2>3, <3>1, <3>2 DEF Sound
  <2> QED
    BY <1>2, <2>1, <2>3, <2>4, <2>5, StillKept DEF Opening, Migrating
<1>7. CASE Unlocked
  <2>1. pc' = "idle" /\ UNCHANGED <<db, mem, torn>>
    BY <1>7 DEF Unlocked, Then, disk, ghosts
  <2>2. Mirrors(db, mem, "idle")
    BY <1>2, <1>7 DEF Unlocked, Mirrors, Migrating
  <2> QED
    BY <1>2, <2>1, <2>2, StillKept DEF Opening, Migrating
<1> QED
  BY <1>3, <1>4, <1>5, <1>6, <1>7

LEMMA WriteKeeps == ASSUME Kept, Write PROVE Kept'
<1>1. Attached /\ pc = "idle" /\ pc' = "idle" /\ UNCHANGED session
  BY DEF Write, Kept
<1>2. /\ db \in File /\ mem \in InMemory /\ 1 <= db.schema /\ db.schema = mem.schema
  BY <1>1, Known DEF Mirrors, Migrating
<1> DEFINE signed == [mem EXCEPT !.sig = db.rows + 1]
           h == Maced(signed)
           d == [db EXCEPT !.rows = db.rows + 1, !.sig = h.sig, !.mac = h.mac]
<1>3. mem' = h /\ db' = d /\ torn' = (mem.payload # db.payload)
  BY DEF Write
<1>4. /\ signed \in InMemory /\ signed.sig = db.rows + 1
      /\ signed.schema = mem.schema /\ signed.payload = mem.payload
  BY <1>2 DEF InMemory, File
<1> HIDE DEF signed
<1>5. /\ h \in InMemory /\ h.mac = Fields(h)
      /\ h.schema = mem.schema /\ h.payload = mem.payload /\ h.sig = db.rows + 1
  BY <1>4, MacedTyped
<1> HIDE DEF h
<1>6. /\ d \in File /\ d.schema = db.schema /\ d.payload = db.payload
      /\ d.rows = db.rows + 1 /\ d.sig = h.sig /\ d.mac = h.mac
  BY <1>2, <1>5 DEF File, InMemory
<1> HIDE DEF d
<1>7. Mirrors(d, h, "idle")
  BY <1>2, <1>5, <1>6, MirrorsAtRest
<1>8. ASSUME mem.payload = db.payload PROVE Sound(d)
  <2>1. db.schema \in Int
    BY <1>2 DEF File
  <2>2. h.mac.schema = db.schema /\ h.mac.payload = db.payload /\ h.mac.sig = h.sig
    BY <1>2, <1>5, <1>8 DEF Fields
  <2> QED
    BY <1>2, <1>5, <1>6, <2>1, <2>2 DEF Sound
<1> QED
  BY <1>1, <1>2, <1>3, <1>5, <1>6, <1>7, <1>8, StillKept DEF Opening, Migrating

LEMMA RestartKeeps ==
    ASSUME Kept, Lock \/ Quit \/ \E b \in 1..MaxBuild : Install(b)
    PROVE  Kept'
<1>1. CASE Lock \/ \E b \in 1..MaxBuild : Install(b)
  <2>1. pc' = "idle" /\ pc = "idle" /\ UNCHANGED <<db, mem, torn>> /\ (session' => session)
    BY <1>1 DEF Lock, Install, disk, ghosts
  <2> QED
    BY <2>1 DEF Kept, Attached, HasHeader
<1>2. CASE Quit
  <2>1. pc' = "idle" /\ mem' = NoHeader /\ ~session' /\ UNCHANGED <<db, torn>>
    BY <1>2 DEF Quit, disk, ghosts
  <2> QED
    BY <2>1 DEF Kept, Attached, HasHeader
<1> QED
  BY <1>1, <1>2

LEMMA CutKeeps == ASSUME Kept, Crash \/ StatementFails PROVE Kept'
<1>1. pc # "idle" /\ pc' = "idle" /\ UNCHANGED <<db, torn>>
  BY DEF Crash, StatementFails, NoteCut, Then, disk
<1>2. CASE Crash
  BY <1>1, <1>2 DEF Crash, Kept, Attached, HasHeader
<1>3. CASE StatementFails
  <2>1. UNCHANGED session /\ mem' \in LeftBehind
    BY <1>3 DEF StatementFails
  <2>2. CASE pc \in Opening
    <3>1. mem' = NoHeader /\ ~session
      BY <2>1, <2>2 DEF LeftBehind, Opening, Migrating, Kept
    <3> QED
      BY <1>1, <2>1, <3>1 DEF Kept, Attached, HasHeader
  <2>3. CASE pc \notin Opening
    <3>1. Attached
      BY <1>1, <2>3 DEF Kept, Opening
    <3>2. /\ db \in File /\ mem \in InMemory /\ 1 <= db.schema /\ (torn \/ Sound(db))
          /\ Mirrors(db, mem, pc) /\ db.schema = mem.schema
          /\ mem.mac.payload = mem.payload => mem.mac = Fields(mem) \/ mem.payload = db.payload
      BY <2>3, <3>1, Known DEF Mirrors, Opening
    <3> DEFINE signed == [mem EXCEPT !.sig = db.rows]
    <3>3. mem' \in {mem, Maced(mem), Maced(signed)}
      BY <2>1, <2>3 DEF LeftBehind, Opening, Migrating
    <3>4. Mirrors(db, mem, "idle")
      BY <3>2 DEF Mirrors, Migrating
    <3>5. signed \in InMemory /\ signed.schema = mem.schema
      BY <3>2 DEF InMemory, File
    <3> HIDE DEF signed
    <3>6. Maced(mem) \in InMemory /\ Mirrors(db, Maced(mem), "idle")
      BY <3>2, MacedTyped, MirrorsAtRest
    <3>7. Maced(signed) \in InMemory /\ Mirrors(db, Maced(signed), "idle")
      BY <3>2, <3>5, MacedTyped, MirrorsAtRest
    <3>8. mem' \in InMemory /\ Mirrors(db, mem', "idle")
      BY <3>2, <3>3, <3>4, <3>6, <3>7
    <3> QED
      BY <1>1, <3>2, <3>8, StillKept DEF Opening, Migrating
  <2> QED
    BY <2>2, <2>3
<1> QED
  BY <1>2, <1>3

LEMMA KeptStep == Kept /\ [Next]_vars => Kept'
<1> SUFFICES ASSUME Kept, [Next]_vars PROVE Kept'
  OBVIOUS
<1>1. CASE UNCHANGED vars
  BY <1>1 DEF Kept, Attached, HasHeader, vars, disk, process, ghosts
<1>2. CASE Next
  BY <1>2, CreateKeeps, OpenKeeps, SchemaKeeps, BackoffKeeps, UnlockKeeps, MigrateKeeps,
     WriteKeeps, RestartKeeps, CutKeeps DEF Next, Continue
<1> QED
  BY <1>1, <1>2

\* run_schema_migrations, unlock_with, run_payload_migrations: between operations the
\* file passes every check an unlock makes of it, whatever was migrated, written,
\* cut or restarted, unless a payload migration was cut and left it torn.
THEOREM FileAlwaysVerifies == Spec => []HeaderVerifies
<1>1. Init => Kept
  BY KeptInit
<1>2. Kept /\ [Next]_vars => Kept'
  BY KeptStep
<1>3. Kept => HeaderVerifies
  <2> SUFFICES ASSUME Kept, HasHeader, ~torn PROVE Verifies(Header(db), db.rows)
    BY DEF HeaderVerifies
  <2>1. db \in File /\ Sound(db)
    BY DEF Kept, HasHeader
  <2> QED
    BY <2>1, SoundVerifies
<1> QED
  BY <1>1, <1>2, <1>3, PTL DEF Spec

-----------------------------------------------------------------------------
(* The versions a session runs on.                                         *)

\* How far the migrations of the process have come; Kept says that they are those of
\* the file.
Migrated ==
    /\ build \in Int
    /\ opened => HasHeader /\ pc # "header"
    /\ HasHeader => db.schema <= db.ddl
    /\ Attached /\ pc \notin Opening /\ opened => build <= db.schema
    /\ pc \in {"schema snapshot", "ddl"} => mem.schema < build /\ mem.schema <= db.ddl
    /\ pc = "version" => build <= mem.schema /\ mem.schema <= db.ddl
    /\ session \/ pc \in {"bump", "manifest", "open"} => build <= mem.payload

LEMMA MigratedInit == Init => Migrated
<1> SUFFICES ASSUME Init PROVE Migrated
  OBVIOUS
<1>1. build \in Int
  BY ConstantsAssumption DEF Init
<1> QED
  BY <1>1 DEF Init, Migrated, HasHeader, Attached

LEMMA CreateMigrates == ASSUME Kept, Migrated, CreateTables \/ InsertHeader PROVE Migrated'
<1>1. ~opened /\ ~session
  <2>1. CASE CreateTables
    <3>1. db = NoFile /\ ~HasHeader
      BY <2>1 DEF CreateTables, HasHeader
    <3> QED
      BY <3>1, FileIsFile, Zenon DEF Kept, Migrated
  <2>2. CASE InsertHeader
    <3>1. pc = "header" /\ pc \in Opening
      BY <2>2 DEF InsertHeader, Opening
    <3> QED
      BY <3>1, Zenon DEF Kept, Migrated
  <2> QED
    BY <2>1, <2>2
<1>2. CASE CreateTables
  BY <1>1, <1>2, FileIsFile DEF CreateTables, Then, ghosts, Migrated, HasHeader, Opening, Kept, Attached
<1>3. CASE InsertHeader
  <2>1. /\ pc' = "idle" /\ ~opened' /\ ~session' /\ build' = build
        /\ db'.schema = 1 /\ db'.ddl = 1
    BY <1>1, <1>3 DEF InsertHeader, CURRENT_SCHEMA_VERSION, Maced, Then, ghosts
  <2>2. db'.schema <= db'.ddl
    BY <2>1
  <2>3. pc' \notin {"schema snapshot", "ddl"} /\ pc' # "version"
        /\ pc' \notin {"bump", "manifest", "open"}
    BY <2>1
  <2> QED
    BY <2>1, <2>2, <2>3, Zenon DEF Migrated
<1> QED
  BY <1>2, <1>3

LEMMA OpenMigrates == ASSUME Kept, Migrated, Open PROVE Migrated'
<1>1. /\ db \in File /\ mem' = Header(db) /\ HasHeader /\ HasHeader' /\ ~session'
      /\ pc' = (IF db.schema < build THEN "schema snapshot" ELSE "idle")
      /\ UNCHANGED <<db, build>>
  BY DEF Open, Kept, Then, disk, HasHeader
<1>2. mem'.schema = db.schema
  BY <1>1 DEF Header
<1>3. db.schema \in Int /\ db.ddl \in Int /\ build \in Int /\ db.schema <= db.ddl
  BY <1>1 DEF File, Migrated
<1>4. CASE db.schema < build
  <2>1. pc' = "schema snapshot" /\ mem'.schema < build' /\ mem'.schema <= db'.ddl
    BY <1>1, <1>2, <1>3, <1>4
  <2> QED
    BY <1>1, <1>3, <2>1 DEF Migrated, Opening, Migrating
<1>5. CASE ~(db.schema < build)
  <2>1. pc' = "idle" /\ build' <= db'.schema
    BY <1>1, <1>3, <1>5
  <2> QED
    BY <1>1, <1>3, <2>1 DEF Migrated
<1> QED
  BY <1>4, <1>5

LEMMA SchemaMigrates ==
    ASSUME Kept, Migrated, SchemaSnapshot \/ RunDDL \/ DDLRefused \/ StoreSchemaVersion
    PROVE  Migrated'
<1>1. pc \in Migrating /\ Attached /\ ~session
  BY DEF SchemaSnapshot, RunDDL, DDLRefused, StoreSchemaVersion, Kept, Opening, Migrating
<1>2. /\ db \in File /\ mem \in InMemory /\ HasHeader /\ db.schema <= db.ddl
      /\ build \in Int /\ opened' = opened /\ ~session' /\ build' = build
  <2>1. db \in File /\ mem \in InMemory
    BY <1>1, Known
  <2>2. HasHeader
    BY <2>1, FileIsFile DEF HasHeader
  <2>3. opened' = opened /\ session' = session /\ build' = build
    BY DEF SchemaSnapshot, Snapshot, RunDDL, DDLRefused, StoreSchemaVersion, disk, ghosts
  <2> QED
    BY <1>1, <2>1, <2>2, <2>3 DEF Migrated
<1>3. CASE SchemaSnapshot
  <2>1. pc = "schema snapshot" /\ UNCHANGED <<db, mem>> /\ pc' = "ddl"
    BY <1>3 DEF SchemaSnapshot, Snapshot, Then
  <2> QED
    BY <1>2, <2>1 DEF Migrated, HasHeader, Attached, Opening, Migrating
<1>4. CASE RunDDL
  <2> DEFINE d == [db EXCEPT !.ddl = Larger(mem.schema + 1, db.ddl)]
  <2>1. /\ pc = "ddl" /\ pc' = (IF mem.schema + 1 < build THEN "ddl" ELSE "version")
        /\ mem' = [mem EXCEPT !.schema = mem.schema + 1] /\ db' = d
    BY <1>4 DEF RunDDL, Then
  <2>2. mem.schema \in Int /\ db.schema \in Int /\ db.ddl \in Int
    BY <1>2 DEF InMemory, File
  <2>3. mem'.schema = mem.schema + 1
    BY <1>2, <2>1 DEF InMemory
  <2>4. Larger(mem.schema + 1, db.ddl) \in Int /\ mem.schema + 1 <= Larger(mem.schema + 1, db.ddl)
        /\ db.ddl <= Larger(mem.schema + 1, db.ddl)
    BY <2>2 DEF Larger
  <2>5. d \in File /\ d.ddl = Larger(mem.schema + 1, db.ddl) /\ d.schema = db.schema
    BY <1>2, <2>4 DEF File
  <2> HIDE DEF d
  <2>6. HasHeader'
    BY <2>1, <2>5, FileIsFile DEF HasHeader
  <2>7. db'.schema <= db'.ddl /\ mem'.schema <= db'.ddl
    BY <1>2, <2>1, <2>2, <2>3, <2>4, <2>5
  <2>8. (pc' = "ddl" /\ mem'.schema < build') \/ (pc' = "version" /\ build' <= mem'.schema)
    BY <1>2, <2>1, <2>2, <2>3
  <2> QED
    BY <1>2, <2>6, <2>7, <2>8 DEF Migrated, Opening, Migrating
<1>5. CASE DDLRefused
  <2>1. UNCHANGED db /\ mem' = NoHeader /\ pc' = "idle"
    BY <1>5 DEF DDLRefused, Then, disk
  <2> QED
    BY <1>2, <2>1 DEF Migrated, HasHeader, Attached
<1>6. CASE StoreSchemaVersion
  <2> DEFINE d == [db EXCEPT !.schema = mem.schema]
  <2>1. pc = "version" /\ pc' = "idle" /\ UNCHANGED mem /\ db' = d
    BY <1>6 DEF StoreSchemaVersion, Then
  <2>2. d \in File /\ d.ddl = db.ddl /\ d.schema = mem.schema
    BY <1>2 DEF File, InMemory
  <2> HIDE DEF d
  <2>3. HasHeader'
    BY <2>1, <2>2, FileIsFile DEF HasHeader
  <2>4. build <= mem.schema /\ mem.schema <= db.ddl
    BY <2>1 DEF Migrated
  <2> QED
    BY <1>2, <2>1, <2>2, <2>3, <2>4 DEF Migrated
<1> QED
  BY <1>3, <1>4, <1>5, <1>6

\* The steps in which no migration takes part.
Idling ==
    \/ WrongPassword \/ CountFailure \/ SetUntil \/ Tick \/ \E d \in 1..MAX_DELAY : ClockBack(d)
    \/ RightPassword \/ ResetFailures \/ ClearUntil \/ PayloadSnapshot \/ Lock

\* What such a step leaves alone.
Unmoved ==
    /\ UNCHANGED <<db, mem, build, opened>> /\ (session' => session)
    /\ pc \notin Opening /\ pc' \notin Opening \cup {"bump", "manifest", "open"}

LEMMA IdlingMovesNothing == Idling => Unmoved
<1> USE DEF Unmoved, Then, disk, process, ghosts, Opening, Migrating
<1>1. ASSUME WrongPassword PROVE Unmoved
  BY <1>1 DEF WrongPassword, Evaluated
<1>2. ASSUME CountFailure PROVE Unmoved
  BY <1>2 DEF CountFailure
<1>3. ASSUME SetUntil PROVE Unmoved
  BY <1>3 DEF SetUntil
<1>4. ASSUME RightPassword PROVE Unmoved
  BY <1>4, Zenon DEF RightPassword, Evaluated
<1>5. ASSUME ResetFailures PROVE Unmoved
  BY <1>5 DEF ResetFailures
<1>6. ASSUME ClearUntil PROVE Unmoved
  BY <1>6 DEF ClearUntil
<1>7. ASSUME PayloadSnapshot PROVE Unmoved
  BY <1>7 DEF PayloadSnapshot, Snapshot
<1>8. ASSUME Tick \/ \E d \in 1..MAX_DELAY : ClockBack(d) PROVE Unmoved
  <2>1. UNCHANGED <<db, process, opened>> /\ pc = "idle"
    BY <1>8 DEF Tick, ClockBack
  <2> QED
    BY <2>1
<1>9. ASSUME Lock PROVE Unmoved
  <2>1. session /\ pc = "idle" /\ UNCHANGED <<db, mem, build, opened, pc>>
    BY <1>9 DEF Lock
  <2>2. pc \notin Opening /\ pc' \notin Opening \cup {"bump", "manifest", "open"}
    BY <2>1
  <2> QED
    BY <2>1, <2>2, Zenon
<1> QED
  BY <1>1, <1>2, <1>3, <1>4, <1>5, <1>6, <1>7, <1>8, <1>9 DEF Idling

LEMMA IdlingMigrates == ASSUME Migrated, Idling PROVE Migrated'
<1>1. Unmoved
  BY IdlingMovesNothing
<1> QED
  BY <1>1 DEF Unmoved, Migrated, HasHeader, Attached, Opening, Migrating

LEMMA ResealMigrates == ASSUME Kept, Migrated, ResealHeader PROVE Migrated'
<1>1. /\ Attached /\ pc = "mac" /\ UNCHANGED <<build, opened, session>>
      /\ pc' = (IF mem.payload < build THEN "payload snapshot" ELSE "open")
  BY DEF ResealHeader, Then, ghosts, Kept
<1>2. /\ db \in File /\ mem \in InMemory /\ db.schema = mem.schema
      /\ db.schema <= db.ddl /\ build \in Int
      /\ opened => build <= db.schema
      /\ session => build <= mem.payload
  <2>1. db \in File /\ mem \in InMemory /\ db.schema = mem.schema
    BY <1>1, Known DEF Mirrors, Migrating
  <2>2. HasHeader
    BY <2>1, FileIsFile DEF HasHeader
  <2> QED
    BY <1>1, <2>1, <2>2 DEF Migrated, Opening, Migrating
<1>3. db' \in File /\ db'.schema = db.schema /\ db'.ddl = db.ddl /\ mem'.payload = mem.payload
  <2>1. CASE mem.schema = CURRENT_SCHEMA_VERSION /\ mem.mac = Fields(mem)
    BY <1>2, <2>1 DEF ResealHeader
  <2>2. CASE ~(mem.schema = CURRENT_SCHEMA_VERSION /\ mem.mac = Fields(mem))
    <3>1. Fields(mem) \in MacType /\ Maced(mem).payload = mem.payload
      BY <1>2, MacedTyped
    <3>2. /\ mem' = Maced(mem)
          /\ db' = [db EXCEPT !.schema = mem.schema, !.mac = Fields(mem)]
      BY <2>2 DEF ResealHeader
    <3> QED
      BY <1>2, <3>1, <3>2 DEF File, InMemory
  <2> QED
    BY <2>1, <2>2
<1>4. mem.payload \in Int
  BY <1>2 DEF InMemory
<1>5. pc' = "payload snapshot" \/ (pc' = "open" /\ build <= mem.payload)
  <2>1. mem.payload < build \/ build <= mem.payload
    BY <1>2, <1>4
  <2> QED
    BY <1>1, <2>1, Zenon
<1> QED
  BY <1>1, <1>2, <1>3, <1>5, FileIsFile DEF Migrated, HasHeader, Opening, Migrating

LEMMA PayloadMigrates ==
    ASSUME Kept, Migrated, Apply \/ StorePayloadVersion \/ StoreManifest \/ Unlocked
    PROVE  Migrated'
<1>1. /\ Attached /\ pc \in {"apply", "bump", "manifest", "open"} /\ UNCHANGED <<build, opened>>
  BY DEF Apply, StorePayloadVersion, StoreManifest, Unlocked, Kept, disk, ghosts
<1>2. /\ db \in File /\ mem \in InMemory
      /\ db.schema <= db.ddl /\ build \in Int
      /\ opened => build <= db.schema
      /\ session \/ pc # "apply" => build <= mem.payload
  <2>1. db \in File /\ mem \in InMemory
    BY <1>1, Known
  <2>2. HasHeader
    BY <2>1, FileIsFile DEF HasHeader
  <2> QED
    BY <1>1, <2>1, <2>2 DEF Migrated, Opening, Migrating
<1>3. mem.payload \in Int
  BY <1>2 DEF InMemory
<1>4. /\ db' \in File /\ db'.schema = db.schema /\ db'.ddl = db.ddl
      /\ session' \/ pc' # "apply" => build <= mem'.payload
      /\ pc' \in {"apply", "bump", "manifest", "open", "idle"}
  <2>1. CASE Apply
    <3>1. /\ pc' = (IF mem.payload + 1 < build THEN "apply" ELSE "bump") /\ session' = session
          /\ mem' = [mem EXCEPT !.payload = mem.payload + 1]
          /\ db' = db \/ db' = [db EXCEPT !.rows = db.rows + 1]
      BY <2>1 DEF Apply, Then
    <3>2. mem'.payload = mem.payload + 1
      BY <1>2, <3>1 DEF InMemory
    <3>3. session' \/ pc' # "apply" => build <= mem'.payload
      BY <1>2, <1>3, <3>1, <3>2
    <3>4. db' \in File /\ db'.schema = db.schema /\ db'.ddl = db.ddl
      BY <1>2, <3>1 DEF File
    <3> QED
      BY <3>1, <3>3, <3>4
  <2>2. CASE StorePayloadVersion
    <3> DEFINE signed == [mem EXCEPT !.sig = db.rows]
    <3>1. /\ pc = "bump" /\ pc' = "manifest" /\ mem' = Maced(signed)
          /\ db' = [db EXCEPT !.payload = mem.payload, !.mac = Maced(signed).mac]
      BY <2>2 DEF StorePayloadVersion, Then
    <3>2. signed \in InMemory /\ signed.payload = mem.payload
      BY <1>2 DEF InMemory, File
    <3> HIDE DEF signed
    <3>3. Maced(signed).payload = mem.payload /\ Maced(signed).mac \in MacType
      BY <3>2, MacedTyped DEF InMemory
    <3>4. db' \in File /\ db'.schema = db.schema /\ db'.ddl = db.ddl
      BY <1>2, <1>3, <3>1, <3>3 DEF File
    <3> QED
      BY <1>2, <3>1, <3>3, <3>4
  <2>3. CASE StoreManifest
    <3>1. /\ pc = "manifest" /\ pc' = "open" /\ mem' = mem
          /\ db' = [db EXCEPT !.sig = mem.sig, !.mac = mem.mac]
      BY <2>3 DEF StoreManifest, Then
    <3>2. db' \in File /\ db'.schema = db.schema /\ db'.ddl = db.ddl
      BY <1>2, <3>1 DEF File, InMemory
    <3> QED
      BY <1>2, <3>1, <3>2
  <2>4. CASE Unlocked
    <3>1. pc = "open" /\ pc' = "idle" /\ UNCHANGED <<db, mem>>
      BY <2>4 DEF Unlocked, Then, disk
    <3> QED
      BY <1>2, <3>1
  <2> QED
    BY <2>1, <2>2, <2>3, <2>4
<1> QED
  BY <1>1, <1>2, <1>4, FileIsFile DEF Migrated, HasHeader, Opening, Migrating

LEMMA WriteMigrates == ASSUME Kept, Migrated, Write PROVE Migrated'
<1>1. /\ Attached /\ pc = "idle" /\ pc' = "idle" /\ UNCHANGED <<build, opened, session>>
  BY DEF Write, Kept
<1>2. db \in File /\ mem \in InMemory
  BY <1>1, Known
<1> DEFINE signed == [mem EXCEPT !.sig = db.rows + 1]
           h == Maced(signed)
<1>3. mem' = h /\ db' = [db EXCEPT !.rows = db.rows + 1, !.sig = h.sig, !.mac = h.mac]
  BY DEF Write
<1>4. signed \in InMemory /\ signed.payload = mem.payload
  BY <1>2 DEF InMemory, File
<1> HIDE DEF signed
<1>5. h \in InMemory /\ h.payload = mem.payload
  BY <1>4, MacedTyped
<1> HIDE DEF h
<1>6. db' \in File /\ db'.schema = db.schema /\ db'.ddl = db.ddl /\ mem'.payload = mem.payload
  <2>1. db.rows + 1 \in Int /\ h.sig \in Int /\ h.mac \in MacType
    BY <1>2, <1>5 DEF File, InMemory
  <2> QED
    BY <1>2, <1>3, <1>5, <2>1 DEF File
<1>7. HasHeader /\ HasHeader'
  BY <1>2, <1>6, FileIsFile DEF HasHeader
<1> QED
  BY <1>1, <1>6, <1>7 DEF Migrated, Opening, Migrating

LEMMA RestartMigrates ==
    ASSUME Kept, Migrated, Quit \/ Crash \/ StatementFails \/ \E b \in 1..MaxBuild : Install(b)
    PROVE  Migrated'
<1>1. pc' = "idle" /\ UNCHANGED <<db, opened>>
  BY DEF Quit, Crash, StatementFails, NoteCut, Install, Then, disk, ghosts
<1>2. build' \in Int
  <2>1. CASE \E b \in 1..MaxBuild : Install(b)
    BY <2>1, ConstantsAssumption DEF Install
  <2>2. CASE Quit \/ Crash \/ StatementFails
    BY <2>2, Zenon DEF Migrated, Quit, Crash, StatementFails, NoteCut
  <2> QED
    BY <2>1, <2>2
<1>3. CASE Quit \/ Crash \/ \E b \in 1..MaxBuild : Install(b)
  <2>1. mem' = NoHeader /\ ~session'
    BY <1>3 DEF Quit, Crash, Install, Kept, Attached
  <2> QED
    BY <1>1, <1>2, <2>1 DEF Migrated, HasHeader, Attached
<1>4. CASE StatementFails
  <2>1. build' = build /\ session' = session /\ mem' \in LeftBehind
    BY <1>4 DEF StatementFails, NoteCut
  <2>2. CASE pc \in Opening
    <3>1. mem' = NoHeader /\ ~session
      BY <2>1, <2>2 DEF LeftBehind, Opening, Migrating, Kept
    <3> QED
      BY <1>1, <1>2, <2>1, <3>1 DEF Migrated, HasHeader, Attached
  <2>3. CASE pc \notin Opening
    <3>1. pc # "idle" /\ Attached
      BY <1>4, <2>3 DEF StatementFails, Kept, Opening
    <3>2. db \in File /\ mem \in InMemory
      BY <3>1, Known
    <3> DEFINE signed == [mem EXCEPT !.sig = db.rows]
    <3>3. signed \in InMemory /\ signed.payload = mem.payload
      BY <3>2 DEF InMemory, File
    <3>4. mem' \in {mem, Maced(mem), Maced(signed)}
      BY <2>1, <2>3 DEF LeftBehind, Opening, Migrating
    <3> HIDE DEF signed
    <3>5. mem'.payload = mem.payload
      BY <3>2, <3>3, <3>4, MacedTyped
    <3> QED
      BY <1>1, <1>2, <2>1, <2>3, <3>1, <3>5 DEF Migrated, HasHeader, Opening, Migrating
  <2> QED
    BY <2>2, <2>3
<1> QED
  BY <1>3, <1>4

LEMMA MigratedStep == Kept /\ Migrated /\ [Next]_vars => Migrated'
<1> SUFFICES ASSUME Kept, Migrated, [Next]_vars PROVE Migrated'
  OBVIOUS
<1>1. CASE UNCHANGED vars
  BY <1>1 DEF Migrated, Attached, HasHeader, vars, disk, process, ghosts
<1>2. CASE Next
  BY <1>2, CreateMigrates, OpenMigrates, SchemaMigrates, IdlingMigrates, ResealMigrates,
     PayloadMigrates, WriteMigrates, RestartMigrates DEF Next, Continue, Idling
<1> QED
  BY <1>1, <1>2

\* open_with and unlock_with: no session runs on a file, opened by its process, whose
\* tables or rows are behind its build, however often the migrations were cut.
THEOREM SessionsAreMigrated == Spec => []SessionIsMigrated
<1>1. Init => Kept /\ Migrated
  BY KeptInit, MigratedInit
<1>2. Kept /\ Migrated /\ [Next]_vars => Kept' /\ Migrated'
  BY KeptStep, MigratedStep
<1>3. Kept /\ Migrated => SessionIsMigrated
  <2> SUFFICES ASSUME Kept, Migrated, session, opened
               PROVE  db.ddl >= build /\ db.schema >= build /\ mem.payload >= build
    BY DEF SessionIsMigrated
  <2>1. Attached /\ pc \notin Opening
    BY DEF Kept
  <2>2. db \in File
    BY <2>1, Known
  <2>3. db.ddl \in Int /\ db.schema \in Int /\ build \in Int
    BY <2>2 DEF File, Migrated
  <2>4. db.schema <= db.ddl /\ build <= db.schema /\ build <= mem.payload
    BY <2>1 DEF Migrated
  <2>5. mem.payload \in Int
    BY <2>1, Known DEF InMemory
  <2> QED
    BY <2>3, <2>4, <2>5
<1> QED
  BY <1>1, <1>2, <1>3, PTL DEF Spec

-----------------------------------------------------------------------------
(* The way back.                                                           *)

\* What CanGoBack promises of a migration that is half done.  It is never lost
\* again: where retention removes a healthy snapshot, as many are left as it keeps.
WayBack ==
    \/ \E k \in DOMAIN snapshots : snapshots[k].healthy
    \/ Len(snapshots) >= SNAPSHOT_RETENTION

\* No migration has begun yet: the file is as create, or a write, left it.
Untouched ==
    /\ HasHeader => db.ddl = db.schema /\ db.sig = db.rows /\ db.mac = Fields(db)
    /\ Attached => mem = Header(db)
    /\ pc \notin {"ddl", "version", "apply", "bump", "manifest"}

\* The inductive invariant: a migration begins with a snapshot.
SnapshotFirst ==
    /\ snapshots \in Seq([index: Nat, healthy: BOOLEAN])
    /\ WayBack \/ Untouched

\* Snapshot files are pruned from the oldest on, and one at least is left.
LEMMA PrunedKeepsLast ==
    ASSUME NEW S, NEW s \in Seq(S), s # <<>>
    PROVE  /\ Pruned(s) \in Seq(S)
           /\ Len(s) <= SNAPSHOT_RETENTION => Pruned(s) = s
           /\ Len(s) > SNAPSHOT_RETENTION => Len(Pruned(s)) = SNAPSHOT_RETENTION
           /\ Len(Pruned(s)) \in DOMAIN Pruned(s)
           /\ Pruned(s)[Len(Pruned(s))] = s[Len(s)]
<1> DEFINE first == Larger(1, Len(s) - SNAPSHOT_RETENTION + 1)
<1>1. Len(s) \in Nat /\ Len(s) >= 1 /\ SNAPSHOT_RETENTION \in Nat /\ SNAPSHOT_RETENTION >= 1
  BY EmptySeq, ConstantsAssumption
<1>2. /\ first \in 1..Len(s)
      /\ Len(s) <= SNAPSHOT_RETENTION => first = 1
      /\ Len(s) > SNAPSHOT_RETENTION => Len(s) - first + 1 = SNAPSHOT_RETENTION
  BY <1>1 DEF Larger
<1> HIDE DEF first
<1>3. Pruned(s) = SubSeq(s, first, Len(s))
  BY DEF Pruned, first
<1>4. /\ SubSeq(s, first, Len(s)) \in Seq(S)
      /\ Len(SubSeq(s, first, Len(s))) = Len(s) - first + 1
      /\ \A i \in 1..(Len(s) - first + 1) :
             SubSeq(s, first, Len(s))[i] = s[first + i - 1]
  BY <1>1, <1>2, SubSeqProperties
<1>5. Len(s) <= SNAPSHOT_RETENTION => SubSeq(s, first, Len(s)) = s
  <2> SUFFICES ASSUME Len(s) <= SNAPSHOT_RETENTION PROVE SubSeq(s, first, Len(s)) = s
    OBVIOUS
  <2>1. SubSeq(s, 1, Len(s)) = s
    BY SubSeqFull
  <2> QED
    BY <1>2, <2>1
<1>6. Len(s) - first + 1 \in 1..(Len(s) - first + 1) /\ first + (Len(s) - first + 1) - 1 = Len(s)
  BY <1>1, <1>2
<1>7. Len(Pruned(s)) \in DOMAIN Pruned(s) /\ Pruned(s)[Len(Pruned(s))] = s[Len(s)]
  BY <1>3, <1>4, <1>6
<1> QED
  BY <1>2, <1>3, <1>4, <1>5, <1>7

\* A snapshot of a healthy file is a way back, and none is lost by taking one.
LEMMA SnapshotKeeps ==
    ASSUME SnapshotFirst, NEW next, Snapshot(next)
    PROVE  /\ snapshots' \in Seq([index: Nat, healthy: BOOLEAN])
           /\ Healthy \/ WayBack => WayBack'
<1> DEFINE Files == [index: Nat, healthy: BOOLEAN]
           new == [index |-> NextIndex, healthy |-> Healthy]
           all == Append(snapshots, new)
<1>1. snapshots \in Seq(Files) /\ SNAPSHOT_RETENTION \in Nat
  BY ConstantsAssumption DEF SnapshotFirst
<1>2. NextIndex \in Nat /\ Healthy \in BOOLEAN
  <2>1. CASE snapshots = <<>>
    BY <2>1 DEF NextIndex, Healthy, HasHeader, Verifies
  <2>2. CASE snapshots # <<>>
    <3>1. Len(snapshots) \in 1..Len(snapshots)
      BY <1>1, <2>2, EmptySeq
    <3>2. snapshots[Len(snapshots)] \in Files
      BY <1>1, <3>1, ElementOfSeq
    <3> QED
      BY <2>2, <3>2 DEF NextIndex, Healthy
  <2> QED
    BY <2>1, <2>2
<1>3. new \in Files /\ new.healthy = Healthy
  BY <1>2
<1> HIDE DEF new, Files
<1>4. /\ all \in Seq(Files) /\ all # <<>> /\ Len(all) = Len(snapshots) + 1
      /\ all[Len(all)] = new
      /\ \A k \in DOMAIN snapshots : k \in DOMAIN all /\ all[k] = snapshots[k]
  BY <1>1, <1>3, AppendProperties, LenProperties
<1>5. snapshots' \in {Pruned(all), all}
  BY DEF Snapshot, new
<1> HIDE DEF all
<1>6. snapshots' \in Seq(Files)
  BY <1>4, <1>5, PrunedKeepsLast
<1>7. Len(snapshots') \in DOMAIN snapshots' /\ snapshots'[Len(snapshots')] = new
  <2>1. CASE snapshots' = all
    BY <1>4, <2>1, EmptySeq
  <2>2. CASE snapshots' = Pruned(all)
    BY <1>4, <2>2, PrunedKeepsLast
  <2> QED
    BY <1>5, <2>1, <2>2
<1>8. ASSUME Healthy PROVE WayBack'
  BY <1>3, <1>7, <1>8 DEF WayBack
<1>9. ASSUME WayBack PROVE WayBack'
  <2>1. CASE Len(all) <= SNAPSHOT_RETENTION
    <3>1. snapshots' = all
      BY <1>4, <1>5, <2>1, PrunedKeepsLast
    <3>2. PICK k \in DOMAIN snapshots : snapshots[k].healthy
      BY <1>1, <1>4, <1>9, <2>1 DEF WayBack
    <3> QED
      BY <1>4, <3>1, <3>2 DEF WayBack
  <2>2. CASE Len(all) > SNAPSHOT_RETENTION
    <3>1. Len(snapshots') >= SNAPSHOT_RETENTION
      <4>1. Len(Pruned(all)) = SNAPSHOT_RETENTION
        BY <1>4, <2>2, PrunedKeepsLast
      <4> QED
        BY <1>1, <1>5, <2>2, <4>1
    <3> QED
      BY <3>1 DEF WayBack
  <2> QED
    BY <1>1, <1>4, <2>1, <2>2
<1> QED
  BY <1>6, <1>8, <1>9 DEF Files

\* The steps before which a migration has begun.
Begun == {"ddl", "version", "apply", "bump", "manifest"}

\* What was untouched stays so where file and header do.
LEMMA UndisturbedKeepsWayBack ==
    ASSUME SnapshotFirst, UNCHANGED <<db, snapshots>>, mem' \in {mem, NoHeader},
           pc' \notin Begun \/ pc \in Begun
    PROVE  SnapshotFirst'
BY DEF SnapshotFirst, WayBack, Untouched, HasHeader, Attached, Begun

LEMMA QuietKeepsWayBack ==
    ASSUME Kept, SnapshotFirst,
           \/ WrongPassword \/ CountFailure \/ SetUntil \/ Tick
           \/ (\E d \in 1..MAX_DELAY : ClockBack(d))
           \/ RightPassword \/ ResetFailures \/ ClearUntil \/ Unlocked \/ DDLRefused
           \/ Lock \/ Quit \/ (\E b \in 1..MaxBuild : Install(b)) \/ Crash
    PROVE  SnapshotFirst'
<1> USE DEF Then, disk, process, Begun
<1>1. ASSUME WrongPassword \/ RightPassword PROVE SnapshotFirst'
  BY <1>1, UndisturbedKeepsWayBack DEF WrongPassword, RightPassword
<1>2. ASSUME CountFailure \/ SetUntil PROVE SnapshotFirst'
  BY <1>2, UndisturbedKeepsWayBack DEF CountFailure, SetUntil
<1>3. ASSUME ResetFailures \/ ClearUntil \/ Unlocked PROVE SnapshotFirst'
  BY <1>3, UndisturbedKeepsWayBack DEF ResetFailures, ClearUntil, Unlocked
<1>4. ASSUME DDLRefused PROVE SnapshotFirst'
  BY <1>4, UndisturbedKeepsWayBack DEF DDLRefused
<1>5. ASSUME Tick \/ \E d \in 1..MAX_DELAY : ClockBack(d) PROVE SnapshotFirst'
  <2>1. UNCHANGED <<db, snapshots, mem, pc>> /\ pc = "idle"
    BY <1>5 DEF Tick, ClockBack
  <2> QED
    BY <2>1, UndisturbedKeepsWayBack
<1>6. ASSUME Lock \/ Quit \/ \E b \in 1..MaxBuild : Install(b) PROVE SnapshotFirst'
  <2>1. UNCHANGED <<db, snapshots, pc>> /\ pc = "idle" /\ mem' \in {mem, NoHeader}
    BY <1>6 DEF Lock, Quit, Install
  <2> QED
    BY <2>1, UndisturbedKeepsWayBack
<1>7. ASSUME Crash PROVE SnapshotFirst'
  BY <1>7, UndisturbedKeepsWayBack DEF Crash, NoteCut
<1> QED
  BY <1>1, <1>2, <1>3, <1>4, <1>5, <1>6, <1>7

\* A migration has begun, and it takes no further snapshot.
LEMMA MigrationKeepsWayBack ==
    ASSUME SnapshotFirst,
           RunDDL \/ StoreSchemaVersion \/ Apply \/ StorePayloadVersion \/ StoreManifest
    PROVE  SnapshotFirst'
<1>1. pc \in Begun /\ UNCHANGED snapshots
  BY DEF RunDDL, StoreSchemaVersion, Apply, StorePayloadVersion, StoreManifest, Begun
<1> QED
  BY <1>1 DEF SnapshotFirst, Untouched, WayBack, Begun

\* Before the first statement of a migration the file is healthy, or there is a
\* way back already.
LEMMA FirstSnapshot ==
    ASSUME Kept, SnapshotFirst, SchemaSnapshot \/ PayloadSnapshot
    PROVE  SnapshotFirst'
<1>1. \E next : Snapshot(next) /\ pc \in {"schema snapshot", "payload snapshot"}
  BY DEF SchemaSnapshot, PayloadSnapshot
<1>2. Attached /\ HasHeader
  BY <1>1, FileIsFile DEF Kept, HasHeader
<1>3. ASSUME Untouched PROVE Healthy
  <2>1. db.ddl = db.schema /\ db.sig = db.rows /\ db.mac = Fields(db)
    BY <1>2, <1>3 DEF Untouched
  <2> QED
    BY <1>2, <2>1 DEF Healthy, Verifies, Header, Fields
<1> QED
  BY <1>1, <1>3, SnapshotKeeps DEF SnapshotFirst

LEMMA CreationKeepsWayBack ==
    ASSUME Kept, SnapshotFirst, CreateTables \/ InsertHeader
    PROVE  SnapshotFirst'
<1>1. CASE CreateTables
  <2>1. ~Attached
    BY <1>1, FileIsFile DEF Kept, CreateTables
  <2> QED
    BY <1>1, <2>1
    DEF CreateTables, Then, SnapshotFirst, WayBack, Untouched, HasHeader, Attached
<1>2. CASE InsertHeader
  <2> DEFINE mac == [schema |-> 1, payload |-> 1, sig |-> 0]
  <2>1. /\ db' = [ddl |-> 1, rows |-> 0, schema |-> 1, payload |-> 1, sig |-> 0, mac |-> mac]
        /\ mem' = [schema |-> 1, payload |-> 1, sig |-> 0, mac |-> mac]
        /\ pc' = "idle" /\ UNCHANGED snapshots
    BY <1>2 DEF InsertHeader, CURRENT_SCHEMA_VERSION, Then, Maced, Fields
  <2>2. mem' = Header(db') /\ db'.mac = Fields(db')
    BY <2>1 DEF Header, Fields
  <2> QED
    BY <2>1, <2>2 DEF SnapshotFirst, WayBack, Untouched
<1> QED
  BY <1>1, <1>2

LEMMA OpenKeepsWayBack == ASSUME SnapshotFirst, Open PROVE SnapshotFirst'
<1>1. /\ mem' = Header(db) /\ UNCHANGED <<db, snapshots>> /\ HasHeader
      /\ pc' \in {"schema snapshot", "idle"}
  BY DEF Open, Then, disk
<1> QED
  BY <1>1 DEF SnapshotFirst, WayBack, Untouched, HasHeader

\* A header resealed as it was, or a write of the item set and its signature.
LEMMA SigningKeepsWayBack ==
    ASSUME Kept, SnapshotFirst, ResealHeader \/ Write
    PROVE  SnapshotFirst'
<1>1. Attached /\ pc \in {"mac", "idle"} /\ UNCHANGED snapshots
  BY DEF ResealHeader, Write, Kept
<1>2. db \in File /\ mem \in InMemory /\ HasHeader
  BY <1>1, Known, FileIsFile DEF HasHeader
<1> SUFFICES ASSUME Untouched PROVE Untouched'
  BY <1>1 DEF SnapshotFirst, WayBack
<1>3. mem = Header(db) /\ db.ddl = db.schema /\ db.sig = db.rows /\ db.mac = Fields(db)
  BY <1>1, <1>2 DEF Untouched
<1>4. CASE ResealHeader
  <2>1. /\ mem.mac = Fields(mem) /\ mem.schema = db.schema /\ Fields(mem) = db.mac
    BY <1>3 DEF Header, Fields
  <2>2. Maced(mem) = mem /\ [db EXCEPT !.schema = mem.schema, !.mac = Fields(mem)] = db
    BY <1>2, <2>1 DEF Maced, InMemory, File
  <2>3. UNCHANGED <<db, mem>> /\ pc' \in {"payload snapshot", "open"}
    BY <1>4, <2>2 DEF ResealHeader, Then
  <2> QED
    BY <2>3 DEF Untouched, HasHeader, Attached
<1>5. CASE Write
  <2> DEFINE h == [mem EXCEPT !.sig = db.rows + 1]
  <2>1. /\ mem' = Maced(h) /\ pc' = "idle" /\ db'.rows = db.rows + 1
        /\ db' = [db EXCEPT !.rows = @ + 1, !.sig = mem'.sig, !.mac = mem'.mac]
    BY <1>2, <1>5 DEF Write, File
  <2>2. /\ h \in InMemory /\ h.schema = db.schema /\ h.payload = db.payload
        /\ h.sig = db.rows + 1
    BY <1>2, <1>3 DEF Header, InMemory, File
  <2>3. /\ mem' = [schema |-> db.schema, payload |-> db.payload, sig |-> db.rows + 1,
                   mac |-> Fields(h)]
        /\ Fields(h) = [schema |-> db.schema, payload |-> db.payload, sig |-> db.rows + 1]
    BY <2>1, <2>2 DEF Maced, Fields, InMemory
  <2>4. /\ db'.ddl = db.ddl /\ db'.schema = db.schema /\ db'.payload = db.payload
        /\ db'.sig = db.rows + 1 /\ db'.mac = Fields(h) /\ db'.rows = db.rows + 1
    BY <1>2, <2>1, <2>3 DEF File
  <2> QED
    BY <1>3, <2>1, <2>3, <2>4 DEF Untouched, Header, Fields
<1> QED
  BY <1>4, <1>5

\* A header that a failing statement changes is one whose migration has begun, or
\* one that was sealed already.
LEMMA FailureKeepsWayBack ==
    ASSUME Kept, SnapshotFirst, StatementFails
    PROVE  SnapshotFirst'
<1>1. pc # "idle" /\ pc' = "idle" /\ UNCHANGED <<db, snapshots>> /\ mem' \in LeftBehind
  BY DEF StatementFails, NoteCut, Then, disk
<1> SUFFICES ASSUME Untouched PROVE Untouched'
  BY <1>1 DEF SnapshotFirst, WayBack
<1>2. CASE pc = "mac"
  <2>1. Attached
    BY <1>2 DEF Kept
  <2>2. db \in File /\ mem \in InMemory /\ HasHeader
    BY <2>1, Known, FileIsFile DEF HasHeader
  <2>3. mem = Header(db) /\ mem.mac = Fields(mem)
    BY <2>1, <2>2 DEF Untouched, Header, Fields
  <2>4. Maced(mem) = mem
    BY <2>2, <2>3 DEF Maced, InMemory
  <2>5. mem' = mem
    BY <1>1, <1>2, <2>4 DEF LeftBehind
  <2> QED
    BY <1>1, <2>5 DEF Untouched, HasHeader, Attached
<1>3. CASE pc # "mac"
  <2>1. pc \notin Begun
    BY DEF Untouched, Begun
  <2>2. mem' \in {mem, NoHeader}
    BY <1>1, <1>3, <2>1 DEF LeftBehind, Begun
  <2> QED
    BY <1>1, <2>2 DEF Untouched, HasHeader, Attached
<1> QED
  BY <1>2, <1>3

LEMMA SnapshotFirstStep == Kept /\ SnapshotFirst /\ [Next]_vars => SnapshotFirst'
<1> SUFFICES ASSUME Kept, SnapshotFirst, [Next]_vars PROVE SnapshotFirst'
  OBVIOUS
<1>1. CASE UNCHANGED vars
  BY <1>1 DEF SnapshotFirst, WayBack, Untouched, HasHeader, Attached, vars, disk, process
<1>2. CASE Next
  BY <1>2, QuietKeepsWayBack, MigrationKeepsWayBack, FirstSnapshot, CreationKeepsWayBack,
     OpenKeepsWayBack, SigningKeepsWayBack, FailureKeepsWayBack DEF Next, Continue
<1> QED
  BY <1>1, <1>2

\* schema::snapshot, taken by run_schema_migrations and run_payload_migrations: a file
\* that a cut left between two versions never lacks the snapshot of a healthy one,
\* unless as many snapshots of the broken one were taken as retention keeps.
THEOREM SnapshotToGoBackTo == Spec => []CanGoBack
<1>1. Init => Kept /\ SnapshotFirst
  <2>1. Init => SnapshotFirst
    BY DEF Init, SnapshotFirst, Untouched, HasHeader, Attached
  <2> QED
    BY <2>1, KeptInit
<1>2. Kept /\ SnapshotFirst /\ [Next]_vars => Kept' /\ SnapshotFirst'
  BY KeptStep, SnapshotFirstStep
<1>3. SnapshotFirst => CanGoBack
  <2> SUFFICES ASSUME SnapshotFirst, HasHeader, ~Healthy PROVE WayBack
    BY DEF CanGoBack, WayBack
  <2>1. ASSUME Untouched PROVE FALSE
    BY <2>1 DEF Untouched, Healthy, Verifies, Header, Fields
  <2> QED
    BY <2>1 DEF SnapshotFirst
<1> QED
  BY <1>1, <1>2, <1>3, PTL DEF Spec

-----------------------------------------------------------------------------
(* The types.                                                              *)

\* A clock that is set back adds at most one longest delay to the wait.
Counted ==
    /\ failures \in Nat /\ guesses \in Nat /\ lost \in Nat /\ owed \in Nat
    /\ cuts \in 0..MaxCuts /\ clockSets \in 0..MaxClockSets
    /\ wait \in Int /\ LongPast <= wait /\ wait <= MAX_DELAY * (1 + clockSets)

\* What the file and the header in memory hold stays in range: a migration ends at
\* the version of the build.
InRange ==
    /\ build \in 1..MaxBuild /\ pc \in Steps
    /\ session \in BOOLEAN /\ opened \in BOOLEAN /\ torn \in BOOLEAN
    /\ HasHeader => db.ddl \in 1..MaxBuild /\ db.rows \in Nat /\ Header(db) \in HeaderType
    /\ Attached => mem \in HeaderType
    /\ pc \in {"payload snapshot", "apply"} => mem.payload < build

LEMMA WaitGrows ==
    ASSUME NEW n \in Nat, NEW m \in Nat, n <= m
    PROVE  /\ MAX_DELAY * (1 + n) \in Nat /\ MAX_DELAY <= MAX_DELAY * (1 + n)
           /\ MAX_DELAY * (1 + (n + 1)) = MAX_DELAY * (1 + n) + MAX_DELAY
           /\ MAX_DELAY * (1 + n) <= MAX_DELAY * (1 + m)
BY ConstantsAssumption

LEMMA CountedStep == Counted /\ [Next]_vars => Counted'
<1> SUFFICES ASSUME Counted, [Next]_vars PROVE Counted'
  OBVIOUS
<1> DEFINE most == MAX_DELAY * (1 + clockSets)
<1>0. /\ clockSets \in Nat /\ MaxClockSets \in Nat /\ MaxCuts \in Nat /\ LongPast \in Int
      /\ LongPast <= 0 /\ most \in Nat /\ MAX_DELAY <= most /\ MAX_DELAY \in Nat
  BY ConstantsAssumption, WaitGrows DEF Counted, LongPast
<1>k. Counted <=>
          /\ failures \in Nat /\ guesses \in Nat /\ lost \in Nat /\ owed \in Nat
          /\ cuts \in 0..MaxCuts /\ clockSets \in 0..MaxClockSets
          /\ wait \in Int /\ LongPast <= wait /\ wait <= most
  BY DEF Counted
<1> HIDE DEF most
<1>n. ASSUME UNCHANGED clockSets,
             failures' \in Nat, guesses' \in Nat, lost' \in Nat, owed' \in Nat,
             cuts' \in 0..MaxCuts, wait' \in Int, LongPast <= wait', wait' <= most
      PROVE  Counted'
  BY <1>k, <1>n DEF Counted, most, LongPast
<1> USE DEF process, bounds, ghosts, disk
<1>1. ASSUME WrongPassword PROVE Counted'
  BY <1>1, <1>k, <1>n DEF WrongPassword
<1>2. ASSUME CountFailure PROVE Counted'
  <2>1. failures + 1 \in Nat /\ delay_after(failures + 1) \in Nat
    BY <1>k, DelayIsBounded
  <2> QED
    BY <1>2, <1>k, <1>n, <2>1 DEF CountFailure
<1>3. ASSUME SetUntil PROVE Counted'
  <2>1. delay_after(failures) \in Nat /\ delay_after(failures) <= MAX_DELAY
    BY <1>k, DelayIsBounded
  <2>2. wait' \in Int /\ LongPast <= wait' /\ wait' <= most
    BY <1>0, <1>3, <2>1 DEF SetUntil
  <2> QED
    BY <1>3, <1>k, <1>n, <2>2 DEF SetUntil
<1>4. ASSUME ResetFailures PROVE Counted'
  BY <1>4, <1>k, <1>n DEF ResetFailures
<1>5. ASSUME ClearUntil PROVE Counted'
  BY <1>5, <1>0, <1>k, <1>n DEF ClearUntil
<1>6. ASSUME Tick PROVE Counted'
  <2>1. wait' \in Int /\ LongPast <= wait' /\ wait' <= most /\ owed' \in Nat
    BY <1>0, <1>6, <1>k DEF Tick, Larger
  <2> QED
    BY <1>6, <1>k, <1>n, <2>1 DEF Tick
<1>7. ASSUME NEW d \in 1..MAX_DELAY, ClockBack(d) PROVE Counted'
  <2>1. /\ wait' = wait + d /\ clockSets' = clockSets + 1 /\ clockSets < MaxClockSets
        /\ UNCHANGED <<failures, guesses, lost, owed, cuts>>
    BY <1>7 DEF ClockBack
  <2>2. MAX_DELAY * (1 + (clockSets + 1)) = most + MAX_DELAY
    BY <1>0, WaitGrows DEF most
  <2>3. wait' \in Int /\ LongPast <= wait' /\ wait' <= most + MAX_DELAY
    BY <1>0, <1>7, <1>k, <2>1
  <2> QED
    BY <1>0, <1>k, <2>1, <2>2, <2>3 DEF Counted, LongPast
<1>8. ASSUME Crash \/ StatementFails PROVE Counted'
  <2>1. /\ cuts < MaxCuts /\ cuts' = cuts + 1 /\ UNCHANGED <<failures, wait, clockSets, guesses>>
        /\ lost' \in {lost, lost + 1} /\ owed' \in {owed, 0}
    BY <1>8 DEF Crash, StatementFails, NoteCut
  <2> QED
    BY <2>1, <1>0, <1>k, <1>n
<1>9. ASSUME UNCHANGED <<failures, wait, guesses, lost, owed, cuts, clockSets>> PROVE Counted'
  BY <1>9, <1>k, <1>n
<1>10. ASSUME CreateTables \/ InsertHeader \/ Open \/ SchemaSnapshot \/ RunDDL \/ DDLRefused
              \/ StoreSchemaVersion \/ RightPassword
       PROVE  Counted'
  BY <1>9, <1>10 DEF CreateTables, InsertHeader, Open, SchemaSnapshot, Snapshot, RunDDL, DDLRefused,
     StoreSchemaVersion, RightPassword
<1>11. ASSUME ResealHeader \/ PayloadSnapshot \/ Apply \/ StorePayloadVersion \/ StoreManifest
              \/ Unlocked
       PROVE  Counted'
  BY <1>9, <1>11 DEF ResealHeader, PayloadSnapshot, Snapshot, Apply, StorePayloadVersion, StoreManifest,
     Unlocked
<1>12. ASSUME Write \/ Lock \/ Quit \/ (\E b \in 1..MaxBuild : Install(b)) \/ UNCHANGED vars
       PROVE  Counted'
  BY <1>9, <1>12 DEF Write, Lock, Quit, Install, vars
<1> QED
  BY <1>1, <1>2, <1>3, <1>4, <1>5, <1>6, <1>7, <1>8, <1>10, <1>11, <1>12 DEF Next, Continue

\* A file and a header whose values are in range.
FileInRange(d) == d \in File /\ d.ddl \in 1..MaxBuild /\ d.rows \in Nat /\ Header(d) \in HeaderType

\* What InRange says while a file is attached.
LEMMA RangeKnown ==
    ASSUME Kept, InRange, Attached
    PROVE  FileInRange(db) /\ mem \in HeaderType /\ mem \in InMemory
<1>1. db \in File /\ mem \in InMemory
  BY Known
<1>2. HasHeader
  BY <1>1, FileIsFile DEF HasHeader
<1> QED
  BY <1>1, <1>2 DEF InRange, FileInRange

LEMMA SealedInRange ==
    ASSUME NEW h \in HeaderType
    PROVE  Maced(h) \in HeaderType /\ Fields(h) = Maced(h).mac
BY DEF Maced, Fields, HeaderType

\* Where the header is sealed again, and the rest of the file is as before.
LEMMA HeaderInRange ==
    ASSUME NEW d, FileInRange(d), NEW h \in HeaderType
    PROVE  /\ FileInRange([d EXCEPT !.schema = h.schema])
           /\ FileInRange([d EXCEPT !.schema = h.schema, !.mac = h.mac])
           /\ FileInRange([d EXCEPT !.payload = h.payload, !.mac = h.mac])
           /\ FileInRange([d EXCEPT !.sig = h.sig, !.mac = h.mac])
<1> DEFINE Mac == [schema: 1..MaxBuild, payload: 1..MaxBuild, sig: Nat]
<1>1. /\ d \in File /\ d.ddl \in 1..MaxBuild /\ d.rows \in Nat
      /\ d.schema \in 1..MaxBuild /\ d.payload \in 1..MaxBuild /\ d.sig \in Nat /\ d.mac \in Mac
  BY DEF FileInRange, Header, HeaderType
<1>2. h.schema \in 1..MaxBuild /\ h.payload \in 1..MaxBuild /\ h.sig \in Nat /\ h.mac \in Mac
  BY DEF HeaderType
<1>3. 1..MaxBuild \subseteq Int /\ Nat \subseteq Int /\ Mac \subseteq MacType
  BY ConstantsAssumption DEF MacType
<1> HIDE DEF Mac
<1>4. ASSUME NEW e \in File, e.ddl \in 1..MaxBuild, e.rows \in Nat,
             e.schema \in 1..MaxBuild, e.payload \in 1..MaxBuild, e.sig \in Nat, e.mac \in Mac
      PROVE  FileInRange(e)
  BY <1>4 DEF FileInRange, Header, HeaderType, Mac
<1>5. FileInRange([d EXCEPT !.schema = h.schema])
  BY <1>1, <1>2, <1>3, <1>4 DEF File
<1>6. FileInRange([d EXCEPT !.schema = h.schema, !.mac = h.mac])
  BY <1>1, <1>2, <1>3, <1>4 DEF File
<1>7. FileInRange([d EXCEPT !.payload = h.payload, !.mac = h.mac])
  BY <1>1, <1>2, <1>3, <1>4 DEF File
<1>8. FileInRange([d EXCEPT !.sig = h.sig, !.mac = h.mac])
  BY <1>1, <1>2, <1>3, <1>4 DEF File
<1> QED
  BY <1>5, <1>6, <1>7, <1>8

\* InRange is re-established from what the step leaves in file and header.
LEMMA StaysInRange ==
    ASSUME InRange, db' = db \/ FileInRange(db'), mem' = mem \/ mem' \in HeaderType \cup {NoHeader},
           UNCHANGED build, pc' \in Steps,
           session' \in BOOLEAN, opened' \in BOOLEAN, torn' \in BOOLEAN,
           pc' \in {"payload snapshot", "apply"} => mem'.payload < build
    PROVE  InRange'
BY DEF InRange, HasHeader, Attached, FileInRange

\* The steps that leave file and header alone.
LEMMA RestInRange ==
    ASSUME InRange, \/ WrongPassword \/ CountFailure \/ SetUntil \/ Tick
                    \/ (\E d \in 1..MAX_DELAY : ClockBack(d))
                    \/ RightPassword \/ ResetFailures \/ ClearUntil \/ Unlocked
                    \/ SchemaSnapshot \/ PayloadSnapshot
    PROVE  InRange'
<1> USE DEF Then, disk, process, ghosts, Steps
<1>1. ASSUME UNCHANGED <<db, mem, build, opened, torn>>, session' \in BOOLEAN,
             \/ pc' \in Steps \ {"payload snapshot", "apply"}
             \/ (pc = "payload snapshot" /\ pc' = "apply")
      PROVE  InRange'
  BY <1>1 DEF InRange, HasHeader, Attached
<1>2. session \in BOOLEAN /\ pc \in Steps
  BY DEF InRange
<1>3. ASSUME WrongPassword \/ RightPassword PROVE InRange'
  BY <1>1, <1>2, <1>3 DEF WrongPassword, RightPassword
<1>4. ASSUME CountFailure \/ SetUntil PROVE InRange'
  BY <1>1, <1>2, <1>4 DEF CountFailure, SetUntil
<1>5. ASSUME ResetFailures \/ ClearUntil \/ Unlocked PROVE InRange'
  BY <1>1, <1>2, <1>5 DEF ResetFailures, ClearUntil, Unlocked
<1>6. ASSUME Tick \/ \E d \in 1..MAX_DELAY : ClockBack(d) PROVE InRange'
  <2>1. UNCHANGED <<db, mem, build, session, pc, opened, torn>> /\ pc = "idle"
    BY <1>6 DEF Tick, ClockBack
  <2> QED
    BY <1>1, <1>2, <2>1
<1>7. ASSUME SchemaSnapshot \/ PayloadSnapshot PROVE InRange'
  BY <1>1, <1>2, <1>7 DEF SchemaSnapshot, PayloadSnapshot, Snapshot
<1> QED
  BY <1>3, <1>4, <1>5, <1>6, <1>7

LEMMA RestartInRange ==
    ASSUME InRange, \/ CreateTables \/ DDLRefused \/ Crash
                    \/ Lock \/ Quit \/ (\E b \in 1..MaxBuild : Install(b))
    PROVE  InRange'
<1>1. /\ (db' = db \/ db' = Tables) /\ (mem' = mem \/ mem' = NoHeader)
      /\ build' \in 1..MaxBuild /\ pc' \in {"idle", "header"}
      /\ session' \in BOOLEAN /\ UNCHANGED <<opened, torn>>
  <2>1. session \in BOOLEAN /\ build \in 1..MaxBuild
    BY DEF InRange
  <2>2. ASSUME CreateTables \/ DDLRefused
        PROVE  /\ UNCHANGED <<build, session, opened, torn>>
               /\ \/ (UNCHANGED mem /\ db' = Tables /\ pc' = "header")
                  \/ (UNCHANGED db /\ mem' = NoHeader /\ pc' = "idle")
    BY <2>2 DEF CreateTables, DDLRefused, Then, disk, ghosts
  <2>3. ASSUME Crash
        PROVE  UNCHANGED <<db, build, opened, torn>> /\ mem' = NoHeader /\ pc' = "idle" /\ session' = FALSE
    BY <2>3 DEF Crash, NoteCut, Then, disk
  <2>4. ASSUME Lock \/ Quit
        PROVE  /\ UNCHANGED <<db, build, pc, opened, torn>> /\ mem' \in {mem, NoHeader}
               /\ pc = "idle" /\ session' = FALSE
    BY <2>4 DEF Lock, Quit, disk, ghosts
  <2>5. ASSUME NEW b \in 1..MaxBuild, Install(b)
        PROVE  UNCHANGED <<db, mem, session, pc, opened, torn>> /\ pc = "idle" /\ build' = b
    BY <2>5 DEF Install, disk, ghosts
  <2> QED
    BY <2>1, <2>2, <2>3, <2>4, <2>5
<1> QED
  BY <1>1 DEF InRange, HasHeader, Attached, Steps

LEMMA CreateInRange == ASSUME InRange, InsertHeader PROVE InRange'
<1> DEFINE mac == [schema |-> 1, payload |-> 1, sig |-> 0]
           d == [ddl |-> 1, rows |-> 0, schema |-> 1, payload |-> 1, sig |-> 0, mac |-> mac]
           h == [schema |-> 1, payload |-> 1, sig |-> 0, mac |-> mac]
<1>1. db' = d /\ mem' = h /\ pc' = "idle" /\ UNCHANGED <<build, session, opened, torn>>
  BY DEF InsertHeader, CURRENT_SCHEMA_VERSION, Then, Maced, Fields, ghosts
<1>2. 1 \in 1..MaxBuild
  BY ConstantsAssumption
<1>3. FileInRange(d) /\ h \in HeaderType
  BY <1>2 DEF FileInRange, File, MacType, Header, HeaderType
<1> HIDE DEF d, h
<1>4. session' \in BOOLEAN /\ opened' \in BOOLEAN /\ torn' \in BOOLEAN
  BY <1>1 DEF InRange
<1> QED
  BY <1>1, <1>3, <1>4, StaysInRange DEF Steps

LEMMA OpenInRange == ASSUME InRange, Open PROVE InRange'
<1>1. /\ mem' = Header(db) /\ UNCHANGED <<db, build, session, torn>> /\ HasHeader
      /\ opened' = TRUE /\ pc' \in {"schema snapshot", "idle"}
  BY DEF Open, Then, disk
<1> QED
  BY <1>1, StaysInRange DEF InRange, Steps

LEMMA SchemaInRange ==
    ASSUME Kept, Migrated, InRange, RunDDL \/ StoreSchemaVersion
    PROVE  InRange'
<1>1. /\ Attached /\ UNCHANGED <<build, session, opened, torn>>
      /\ pc' \in {"ddl", "version", "idle"}
  BY DEF RunDDL, StoreSchemaVersion, Then, ghosts, Kept
<1>2. FileInRange(db) /\ mem \in HeaderType /\ mem \in InMemory
  BY <1>1, RangeKnown
<1>3. CASE RunDDL
  <2> DEFINE v == mem.schema + 1
             d == [db EXCEPT !.ddl = Larger(v, db.ddl)]
             h == [mem EXCEPT !.schema = v]
  <2>1. db' = d /\ mem' = h /\ mem.schema < build
    BY <1>2, <1>3 DEF RunDDL, Migrated, FileInRange, File
  <2>2. v \in 1..MaxBuild
    <3>1. mem.schema \in 1..MaxBuild /\ build \in 1..MaxBuild /\ MaxBuild \in Nat
      BY <1>2, ConstantsAssumption DEF HeaderType, InRange
    <3> QED
      BY <2>1, <3>1
  <2>3. Larger(v, db.ddl) \in 1..MaxBuild
    BY <1>2, <2>2 DEF Larger, FileInRange
  <2>4. FileInRange(d) /\ h \in HeaderType
    BY <1>2, <2>2, <2>3 DEF FileInRange, File, Header, HeaderType
  <2> HIDE DEF d, h
  <2> QED
    BY <1>1, <2>1, <2>4, StaysInRange DEF InRange, Steps
<1>4. CASE StoreSchemaVersion
  <2>1. db' = [db EXCEPT !.schema = mem.schema] /\ mem' = mem
    BY <1>4 DEF StoreSchemaVersion
  <2>2. FileInRange(db')
    BY <1>2, <2>1, HeaderInRange
  <2> QED
    BY <1>1, <2>1, <2>2, StaysInRange DEF InRange, Steps
<1> QED
  BY <1>3, <1>4

LEMMA ResealInRange == ASSUME Kept, InRange, ResealHeader PROVE InRange'
<1>1. /\ Attached /\ UNCHANGED <<build, session, opened>>
      /\ pc' = IF mem.payload < build THEN "payload snapshot" ELSE "open"
  BY DEF ResealHeader, Then, ghosts, Kept
<1>2. FileInRange(db) /\ mem \in HeaderType /\ Maced(mem) \in HeaderType
  BY <1>1, RangeKnown, SealedInRange
<1>3. /\ Maced(mem).payload = mem.payload /\ Maced(mem).schema = mem.schema
      /\ Maced(mem).mac = Fields(mem)
  BY <1>2 DEF Maced, HeaderType
<1>4. \/ UNCHANGED <<db, mem>>
      \/ mem' = Maced(mem) /\ db' = [db EXCEPT !.schema = mem.schema, !.mac = Fields(mem)]
  BY DEF ResealHeader
<1>5. FileInRange([db EXCEPT !.schema = mem.schema, !.mac = Fields(mem)])
  BY <1>2, <1>3, HeaderInRange
<1>6. mem' \in HeaderType /\ mem'.payload = mem.payload /\ (db' = db \/ FileInRange(db'))
  BY <1>2, <1>3, <1>4, <1>5
<1>7. pc' \in Steps /\ (pc' \in {"payload snapshot", "apply"} => mem'.payload < build)
  BY <1>1, <1>6 DEF Steps
<1>8. torn' \in BOOLEAN
  <2>1. torn \in BOOLEAN /\ torn' \in {torn, torn \/ mem.payload # db.payload}
    BY DEF ResealHeader, InRange
  <2> QED
    BY <2>1
<1> QED
  BY <1>1, <1>6, <1>7, <1>8, StaysInRange DEF InRange

LEMMA PayloadInRange ==
    ASSUME Kept, InRange, Apply \/ StorePayloadVersion \/ StoreManifest
    PROVE  InRange'
<1>1. Attached /\ UNCHANGED <<build, session, opened>>
  BY DEF Apply, StorePayloadVersion, StoreManifest, Kept, ghosts
<1>2. FileInRange(db) /\ mem \in HeaderType
  BY <1>1, RangeKnown
<1>3. CASE Apply
  <2> DEFINE v == mem.payload + 1
             h == [mem EXCEPT !.payload = v]
             d == [db EXCEPT !.rows = @ + 1]
  <2>1. /\ mem' = h /\ ((db' = d /\ torn' = TRUE) \/ UNCHANGED <<db, torn>>)
        /\ pc' = (IF v < build THEN "apply" ELSE "bump") /\ pc = "apply"
    BY <1>3 DEF Apply, Then
  <2>2. v \in 1..MaxBuild /\ h.payload = v
    BY <1>2, <2>1, ConstantsAssumption DEF HeaderType, InRange
  <2>3. h \in HeaderType /\ FileInRange(d)
    BY <1>2, <2>2 DEF FileInRange, File, Header, HeaderType
  <2> HIDE DEF d, h
  <2>4. torn' \in BOOLEAN
    BY <2>1 DEF InRange
  <2>5. pc' \in Steps /\ (pc' \in {"payload snapshot", "apply"} => mem'.payload < build)
    BY <2>1, <2>2 DEF Steps
  <2>6. (db' = db \/ FileInRange(db')) /\ mem' \in HeaderType
    BY <2>1, <2>3
  <2> QED
    BY <1>1, <2>4, <2>5, <2>6, StaysInRange DEF InRange
<1>4. CASE StorePayloadVersion
  <2> DEFINE h == [mem EXCEPT !.sig = db.rows]
  <2>1. /\ mem' = Maced(h) /\ db' = [db EXCEPT !.payload = mem.payload, !.mac = mem'.mac]
        /\ pc' = "manifest" /\ UNCHANGED torn
    BY <1>4 DEF StorePayloadVersion, Then, ghosts
  <2>2. h \in HeaderType /\ h.payload = mem.payload
    BY <1>2 DEF FileInRange, HeaderType
  <2> HIDE DEF h
  <2>3. Maced(h) \in HeaderType /\ Maced(h).payload = mem.payload
    BY <2>2, SealedInRange DEF Maced, HeaderType
  <2>4. FileInRange(db') /\ mem' \in HeaderType
    BY <1>2, <2>1, <2>3, HeaderInRange
  <2> QED
    BY <1>1, <2>1, <2>4, StaysInRange DEF InRange, Steps
<1>5. CASE StoreManifest
  <2>1. /\ mem' = mem /\ db' = [db EXCEPT !.sig = mem.sig, !.mac = mem.mac]
        /\ pc' = "open" /\ torn' = FALSE
    BY <1>5 DEF StoreManifest, Then
  <2>2. FileInRange(db')
    BY <1>2, <2>1, HeaderInRange
  <2> QED
    BY <1>1, <2>1, <2>2, StaysInRange DEF InRange, Steps
<1> QED
  BY <1>3, <1>4, <1>5

LEMMA WriteInRange == ASSUME Kept, InRange, Write PROVE InRange'
<1>1. /\ Attached /\ UNCHANGED <<build, session, pc, opened>> /\ pc = "idle"
      /\ torn' = (mem.payload # db.payload)
  BY DEF Write, Kept
<1>2. FileInRange(db) /\ mem \in HeaderType
  BY <1>1, RangeKnown
<1> DEFINE h == [mem EXCEPT !.sig = db.rows + 1]
           d == [db EXCEPT !.rows = @ + 1]
<1>3. h \in HeaderType /\ FileInRange(d)
  BY <1>2 DEF FileInRange, File, Header, HeaderType
<1>4. /\ mem' = Maced(h)
      /\ db' = [d EXCEPT !.sig = mem'.sig, !.mac = mem'.mac]
  BY <1>2 DEF Write, FileInRange, File
<1> HIDE DEF d, h
<1>5. mem' \in HeaderType /\ FileInRange(db')
  BY <1>3, <1>4, SealedInRange, HeaderInRange
<1> QED
  BY <1>1, <1>5, StaysInRange DEF InRange, Steps

LEMMA FailureInRange == ASSUME Kept, InRange, StatementFails PROVE InRange'
<1>1. /\ pc # "idle" /\ pc' = "idle" /\ UNCHANGED <<db, build, session, opened, torn>>
      /\ mem' \in LeftBehind
  BY DEF StatementFails, NoteCut, Then, disk
<1>2. mem' = mem \/ mem' \in HeaderType \cup {NoHeader}
  <2>1. CASE mem' \in {mem, NoHeader}
    BY <2>1
  <2>2. CASE mem' \notin {mem, NoHeader}
    <3>1. Attached /\ mem' \in {Maced(mem), Maced([mem EXCEPT !.sig = db.rows])}
      BY <1>1, <2>2 DEF LeftBehind, Kept
    <3>2. FileInRange(db) /\ mem \in HeaderType
      BY <3>1, RangeKnown
    <3>3. [mem EXCEPT !.sig = db.rows] \in HeaderType
      BY <3>2 DEF FileInRange, HeaderType
    <3> QED
      BY <3>1, <3>2, <3>3, SealedInRange
  <2> QED
    BY <2>1, <2>2
<1> QED
  BY <1>1, <1>2, StaysInRange DEF InRange, Steps

LEMMA InRangeStep == Kept /\ Migrated /\ InRange /\ [Next]_vars => InRange'
<1> SUFFICES ASSUME Kept, Migrated, InRange, [Next]_vars PROVE InRange'
  OBVIOUS
<1>1. CASE UNCHANGED vars
  BY <1>1 DEF InRange, HasHeader, Attached, vars, disk, process, ghosts
<1>2. CASE Next
  BY <1>2, RestInRange, RestartInRange, CreateInRange, OpenInRange, SchemaInRange, ResealInRange,
     PayloadInRange, WriteInRange, FailureInRange DEF Next, Continue
<1> QED
  BY <1>1, <1>2

\* Every variable of the unlock keeps its type: versions never run past the build, the
\* wait never past a longest delay and one more for each time the clock was set back.
THEOREM UnlockTypes == Spec => []TypeOK
<1> DEFINE Inv == Kept /\ Migrated /\ SnapshotFirst /\ Counted /\ InRange
<1>1. Init => Inv
  <2> SUFFICES ASSUME Init PROVE Inv
    OBVIOUS
  <2>1. SnapshotFirst
    BY DEF Init, SnapshotFirst, Untouched, HasHeader, Attached
  <2>2. InRange
    BY DEF Init, InRange, HasHeader, Attached, Steps
  <2>3. Counted
    BY WaitGrows, ConstantsAssumption DEF Init, Counted, LongPast
  <2> QED
    BY <2>1, <2>2, <2>3, KeptInit, MigratedInit
<1>2. Inv /\ [Next]_vars => Inv'
  BY KeptStep, MigratedStep, SnapshotFirstStep, CountedStep, InRangeStep
<1>3. Inv => TypeOK
  <2> SUFFICES ASSUME Inv PROVE TypeOK
    OBVIOUS
  <2>1. wait \in LongPast..(MAX_DELAY * (1 + MaxClockSets))
    <3>1. /\ clockSets \in Nat /\ MaxClockSets \in Nat /\ clockSets <= MaxClockSets
          /\ wait \in Int /\ LongPast <= wait /\ wait <= MAX_DELAY * (1 + clockSets)
      BY ConstantsAssumption DEF Counted
    <3>2. /\ MAX_DELAY * (1 + clockSets) <= MAX_DELAY * (1 + MaxClockSets)
          /\ MAX_DELAY * (1 + clockSets) \in Nat /\ MAX_DELAY * (1 + MaxClockSets) \in Nat
      BY <3>1, WaitGrows
    <3>3. LongPast \in Int
      BY ConstantsAssumption DEF LongPast
    <3> QED
      BY <3>1, <3>2, <3>3
  <2>2. snapshots \in Seq([index: Nat, healthy: BOOLEAN]) /\ (session => Attached)
    BY DEF SnapshotFirst, Kept
  <2>3. mem \in HeaderType \cup {NoHeader}
    BY DEF InRange, Attached
  <2> QED
    BY <2>1, <2>2, <2>3 DEF TypeOK, Counted, InRange
<1> QED
  BY <1>1, <1>2, <1>3, PTL DEF Spec
=============================================================================
