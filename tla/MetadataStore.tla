---------------------------- MODULE MetadataStore ----------------------------
(***************************************************************************)
(* The sqlite metadata store of database/plugin/metadata/sqlite: New (open, *)
(* init, AutoMigrate), the daily vacuum timer that init arms and that       *)
(* re-arms itself from its own callback, writes through the DB() wrappers, *)
(* and Close.  The owner goroutine calls New, uses the store and closes it; *)
(* each armed time.AfterFunc timer runs its callback f in a goroutine of    *)
(* its own.  Time is untimed: a pending timer may expire at any step.       *)
(***************************************************************************)
EXTENDS Naturals, FiniteSets

CONSTANTS
    TimerIds,   \* identities of time.Timer values (reused once unreferenced)
    NoTimer     \* d.timerVacuum == nil

ASSUME NoTimer \notin TimerIds

VARIABLES
    inMemory,     \* New was called with dataDir = ""
    ownerPc,      \* where the owner goroutine is in New / use / Close
    dbOpen,       \* the *sql.DB behind d.db is open
    timerVacuum,  \* d.timerVacuum
    armed,        \* timers started by AfterFunc, neither fired nor stopped
    vpc,          \* vpc[t]: the step of the callback f run by fired timer t
    garbage,      \* free pages left by writes that a VACUUM would reclaim
    vacuumed      \* history: a vacuum ran on the open file database since the last write

vars == <<inMemory, ownerPc, dbOpen, timerVacuum, armed, vpc, garbage, vacuumed>>

OwnerPcs == {"new", "init", "migrate", "ready", "failed", "nostore", "closed"}
VacuumPcs == {"idle", "vacuum", "resched"}

Running == {t \in TimerIds : vpc[t] # "idle"}

TypeOK ==
    /\ inMemory \in BOOLEAN
    /\ ownerPc \in OwnerPcs
    /\ dbOpen \in BOOLEAN
    /\ timerVacuum \in TimerIds \cup {NoTimer}
    /\ armed \subseteq TimerIds
    /\ vpc \in [TimerIds -> VacuumPcs]
    /\ garbage \in BOOLEAN
    /\ vacuumed \in BOOLEAN

\* A time.Timer value nothing refers to any more: not pending, not running.
FreeTimers == TimerIds \ (armed \cup Running)

(***************************************************************************)
(* scheduleDailyVacuum: stop the previous timer, then AfterFunc(daily, f)  *)
(* and store the new timer in d.timerVacuum.                               *)
(***************************************************************************)
ScheduleDailyVacuum ==
    \E t \in FreeTimers :
        /\ armed' = (armed \ {timerVacuum}) \cup {t}
        /\ timerVacuum' = t

(***************************************************************************)
(* New, up to db.init(): stat / create the data dir and gorm.Open; any     *)
(* failure returns (nil, err).                                             *)
(***************************************************************************)
NewOpen ==
    /\ ownerPc = "new"
    /\ \E ok, mem \in BOOLEAN :
         /\ ownerPc' = IF ok THEN "init" ELSE "nostore"
         /\ dbOpen' = ok
         /\ inMemory' = mem
    /\ UNCHANGED <<timerVacuum, armed, vpc, garbage, vacuumed>>

(***************************************************************************)
(* init, for a file and an in-memory store alike: the tracing plugin may  *)
(* fail (the store is returned with the error, no timer armed); otherwise *)
(* the daily vacuum is scheduled.                                          *)
(***************************************************************************)
StoreInit ==
    /\ ownerPc = "init"
    /\ \/ /\ ownerPc' = "failed"
          /\ UNCHANGED <<timerVacuum, armed>>
       \/ /\ ownerPc' = "migrate"
          /\ ScheduleDailyVacuum
    /\ UNCHANGED <<inMemory, dbOpen, vpc, garbage, vacuumed>>

(***************************************************************************)
(* The AutoMigrate calls of New: any failure returns the store with the   *)
(* error, after init has already armed the vacuum timer.                   *)
(***************************************************************************)
Migrate ==
    /\ ownerPc = "migrate"
    /\ \E ok \in BOOLEAN : ownerPc' = IF ok THEN "ready" ELSE "failed"
    /\ UNCHANGED <<inMemory, dbOpen, timerVacuum, armed, vpc, garbage, vacuumed>>

(***************************************************************************)
(* A write through Create / Where / Transaction on the open handle; it     *)
(* leaves free pages behind.  A write on a closed handle fails unchanged.  *)
(***************************************************************************)
Write ==
    /\ ownerPc \in {"ready", "failed"}
    /\ dbOpen
    /\ garbage' = TRUE
    /\ vacuumed' = FALSE
    /\ UNCHANGED <<inMemory, ownerPc, dbOpen, timerVacuum, armed, vpc>>

(***************************************************************************)
(* Close: DB().DB() then Close on the *sql.DB.  The vacuum timer is left  *)
(* as it is.                                                               *)
(***************************************************************************)
Close ==
    /\ ownerPc \in {"ready", "failed"}
    /\ ownerPc' = "closed"
    /\ dbOpen' = FALSE
    /\ UNCHANGED <<inMemory, timerVacuum, armed, vpc, garbage, vacuumed>>

(***************************************************************************)
(* Timer t expires: its callback f starts in a new goroutine.              *)
(***************************************************************************)
Expire(t) ==
    /\ t \in armed
    /\ armed' = armed \ {t}
    /\ vpc' = [vpc EXCEPT ![t] = "vacuum"]
    /\ UNCHANGED <<inMemory, ownerPc, dbOpen, timerVacuum, garbage, vacuumed>>

(***************************************************************************)
(* runVacuum: nothing for the in-memory store; otherwise                  *)
(* d.DB().Raw("VACUUM"), which only builds the statement: gorm executes a *)
(* Raw statement on Exec/Scan/Row, none of which is called, so the pages   *)
(* are not reclaimed and result.Error is nil.  The error branch is dead.  *)
(***************************************************************************)
RunVacuum(t) ==
    /\ vpc[t] = "vacuum"
    /\ vpc' = [vpc EXCEPT ![t] = "resched"]
    /\ vacuumed' = (vacuumed \/ (dbOpen /\ ~inMemory))
    /\ UNCHANGED <<inMemory, ownerPc, dbOpen, timerVacuum, armed, garbage>>

\* f without the reschedule.
ReschedDropped(t) ==
    /\ vpc[t] = "resched"
    /\ vpc' = [vpc EXCEPT ![t] = "idle"]
    /\ UNCHANGED <<inMemory, ownerPc, dbOpen, timerVacuum, armed, garbage, vacuumed>>

(***************************************************************************)
(* The deferred d.scheduleDailyVacuum() at the end of f.                   *)
(***************************************************************************)
Resched(t) ==
    /\ vpc[t] = "resched"
    /\ vpc' = [vpc EXCEPT ![t] = "idle"]
    /\ ScheduleDailyVacuum
    /\ UNCHANGED <<inMemory, ownerPc, dbOpen, garbage, vacuumed>>

Init ==
    /\ inMemory = FALSE
    /\ ownerPc = "new"
    /\ dbOpen = FALSE
    /\ timerVacuum = NoTimer
    /\ armed = {}
    /\ vpc = [t \in TimerIds |-> "idle"]
    /\ garbage = FALSE
    /\ vacuumed = FALSE

Next ==
    \/ NewOpen \/ StoreInit \/ Migrate \/ Write \/ Close
    \/ \E t \in TimerIds : Expire(t) \/ RunVacuum(t) \/ Resched(t)

(***************************************************************************)
(* The Go runtime fires an expired timer and runs a runnable goroutine    *)
(* eventually.  The owner's calls get no fairness: it may stop anywhere.   *)
(***************************************************************************)
Fairness == \A t \in TimerIds :
    WF_vars(Expire(t)) /\ WF_vars(RunVacuum(t)) /\ WF_vars(Resched(t))

Spec == Init /\ [][Next]_vars /\ Fairness

-----------------------------------------------------------------------------
(***************************************************************************)
(* Properties                                                              *)
(***************************************************************************)

\* While the store is open, an armed vacuum chain keeps running vacuums: the
\* callback's deferred scheduleDailyVacuum re-arms the timer after every
\* vacuum, so the daily chain dies only once the store is closed.
VacuumRecurs == [](armed # {} => []<>(Running # {} \/ ownerPc = "closed"))

\* The daily vacuum reclaims space: once a vacuum has run on the open file
\* database after the last write, no free pages are left (spec 6: "A daily
\* VACUUM timer reclaims space").
VacuumReclaims == (vacuumed /\ ~inMemory) => ~garbage

\* Once the store is closed no vacuum is pending or running against it.
NoVacuumAfterClose == ownerPc = "closed" => (armed = {} /\ Running = {})
=============================================================================
