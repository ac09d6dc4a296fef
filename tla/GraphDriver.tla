---------------------------- MODULE GraphDriver ----------------------------
(***************************************************************************)
(* The handle to Memgraph that the routes and the workers of one server    *)
(* share (internal/graphdb).  The driver is made on first use, under a     *)
(* mutex, with a bounded number of probes.  A route whose call fails with  *)
(* a service that is unavailable resets the handle: it closes the driver,  *)
(* whoever else has a session on it, and the next call makes another.      *)
(* That is also the error of a caller that leaves while it probes.         *)
(***************************************************************************)
EXTENDS Naturals, FiniteSets

CONSTANTS
  Callers,     \* the workers and the requests of the server
  Requests,    \* the callers that reset the handle, and may leave: the routes
  Attempts,    \* probes of one call to Driver
  MaxMishaps   \* bound on the times Memgraph is out of reach, the requests
               \* that are left by their callers, and the queries that fail of
               \* themselves, all together

ASSUME DriverAssumption ==
  /\ Requests \subseteq Callers /\ IsFiniteSet(Callers)
  /\ Attempts \in Nat \ {0} /\ MaxMishaps \in Nat

VARIABLES
  memgraph,   \* up, down, or refusing the credentials
  mishaps,
  driver,     \* the driver in the handle; 0 is none
  opened,     \* drivers with a connection pool
  call,       \* where each caller is, and the driver of its session
  left,       \* callers whose context has ended in the call
  failed,     \* callers whose last call failed
  excused,    \* history: callers whose call met something it may fail for
  met         \* history: what has gone wrong with Memgraph or with a caller

driverVars == <<memgraph, mishaps, driver, opened, call, left, failed, excused, met>>

\* Two more than the callers: a number is used again once nobody has it.
Drivers == 1 .. Cardinality(Callers) + 2
Call == [step: {"idle", "waiting", "probing", "session", "resetting"},
         tries: 0 .. Attempts, on: Drivers \cup {0}]
Idle == [step |-> "idle", tries |-> 0, on |-> 0]

DriverTypeOK ==
  /\ memgraph \in {"up", "down", "locked"} /\ mishaps \in 0 .. MaxMishaps
  /\ driver \in Drivers \cup {0} /\ opened \subseteq Drivers
  /\ call \in [Callers -> Call] /\ left \subseteq Callers
  /\ failed \subseteq Callers /\ excused \subseteq Callers
  /\ met \subseteq {"outage", "departure"}

DriverInit ==
  /\ memgraph = "up" /\ mishaps = 0 /\ driver = 0 /\ opened = {}
  /\ call = [c \in Callers |-> Idle] /\ left = {}
  /\ failed = {} /\ excused = {} /\ met = {}

Busy == {c \in Callers : call[c].step # "idle"}

Mishap == mishaps < MaxMishaps /\ mishaps' = mishaps + 1

Outage ==
  /\ memgraph = "up" /\ memgraph' \in {"down", "locked"} /\ Mishap
  /\ excused' = excused \cup Busy /\ met' = met \cup {"outage"}
  /\ UNCHANGED <<driver, opened, call, left, failed>>

Restored ==
  /\ memgraph # "up" /\ memgraph' = "up"
  /\ UNCHANGED <<mishaps, driver, opened, call, left, failed, excused, met>>

Enter(c) ==
  /\ call[c] = Idle
  /\ call' = [call EXCEPT ![c].step = "waiting"]
  /\ failed' = failed \ {c}
  /\ excused' = IF memgraph = "up" THEN excused \ {c} ELSE excused \cup {c}
  /\ UNCHANGED <<memgraph, mishaps, driver, opened, left, met>>

\* A client goes away, or its request runs into the server's time limit.  The
\* context of a worker ends with the worker.
Leave(c) ==
  /\ call[c].step \in {"waiting", "probing", "session"} /\ c \notin left /\ Mishap
  /\ left' = left \cup {c}
  /\ excused' = excused \cup {c} /\ met' = met \cup {"departure"}
  /\ UNCHANGED <<memgraph, driver, opened, call, failed>>

NeverLocked == TRUE
Unlocked == \A c \in Callers : call[c].step # "probing"

Driver(c) ==
  /\ call[c].step = "waiting" /\ Unlocked
  /\ call' = [call EXCEPT ![c] = IF driver # 0
                THEN [step |-> "session", tries |-> 0, on |-> driver]
                ELSE [step |-> "probing", tries |-> 1, on |-> 0]]
  /\ UNCHANGED <<memgraph, mishaps, driver, opened, left, failed, excused, met>>

New == CHOOSE d \in Drivers : d \notin opened /\ \A c \in Callers : call[c].on # d

Connect(c) ==
  /\ call[c].step = "probing" /\ memgraph = "up" /\ c \notin left
  /\ driver' = New /\ opened' = opened \cup {New}
  /\ call' = [call EXCEPT ![c] = [step |-> "session", tries |-> 0, on |-> New]]
  /\ UNCHANGED <<memgraph, mishaps, left, failed, excused, met>>

RetryOnceMore(c) ==
  /\ call[c].step = "probing" /\ memgraph = "down" /\ c \notin left
  /\ call[c].tries <= Attempts
  /\ call' = [call EXCEPT ![c].tries = @ + 1]
  /\ UNCHANGED <<memgraph, mishaps, driver, opened, left, failed, excused, met>>
Retry(c) ==
  /\ call[c].step = "probing" /\ memgraph = "down" /\ c \notin left
  /\ call[c].tries < Attempts
  /\ call' = [call EXCEPT ![c].tries = @ + 1]
  /\ UNCHANGED <<memgraph, mishaps, driver, opened, left, failed, excused, met>>

\* What a failure leaves the caller to do: a route resets the handle if the
\* error says that the service is unavailable, and only then.
Fail(c, unavailable) ==
  /\ call' = [call EXCEPT ![c] = IF unavailable /\ c \in Requests
                THEN [Idle EXCEPT !.step = "resetting"] ELSE Idle]
  /\ left' = left \ {c} /\ failed' = failed \cup {c}

\* No attempt is left, or the caller left during one: either way the service is
\* unavailable, were Memgraph up or not.  An authentication error ends the
\* attempts at once and is an error of its own.
GiveUp(c) ==
  /\ call[c].step = "probing"
  /\ \/ c \in left /\ Fail(c, TRUE)
     \/ memgraph = "down" /\ call[c].tries = Attempts /\ Fail(c, TRUE)
     \/ memgraph = "locked" /\ Fail(c, FALSE)
  /\ UNCHANGED <<memgraph, mishaps, driver, opened, excused, met>>

Served(c) == memgraph = "up" /\ call[c].on \in opened

Query(c) ==
  /\ call[c].step = "session" /\ Served(c) /\ c \notin left
  /\ call' = [call EXCEPT ![c] = Idle]
  /\ UNCHANGED <<memgraph, mishaps, driver, opened, left, failed, excused, met>>

\* A connection that is lost is a service that is unavailable.  A driver that
\* was closed, credentials that are refused, and a context that ended are that
\* or not, as the driver library sees them.
QueryFails(c) ==
  /\ call[c].step = "session" /\ (~Served(c) \/ c \in left)
  /\ \E unavailable \in BOOLEAN :
       /\ memgraph = "down" /\ call[c].on \in opened /\ c \notin left => unavailable
       /\ Fail(c, unavailable)
  /\ UNCHANGED <<memgraph, mishaps, driver, opened, excused, met>>

RefusedAsDead(c) ==
  /\ call[c].step = "session" /\ Served(c) /\ c \notin left /\ Mishap
  /\ Fail(c, TRUE) /\ excused' = excused \cup {c}
  /\ UNCHANGED <<memgraph, driver, opened, met>>
\* Memgraph answers with an error: a transient one, which a route reports as a
\* database that is unavailable for now, or one of the query, which it reports
\* as a failure.  Neither resets the handle.
Refused(c) ==
  /\ call[c].step = "session" /\ Served(c) /\ c \notin left /\ Mishap
  /\ Fail(c, FALSE) /\ excused' = excused \cup {c}
  /\ UNCHANGED <<memgraph, driver, opened, met>>

OnDriver == {c \in Callers : call[c].step = "session" /\ call[c].on = driver}

ResetInPlace(c) ==
  /\ call[c].step = "resetting" /\ Unlocked
  /\ opened' = opened \ {driver}
  /\ call' = [call EXCEPT ![c] = Idle]
  /\ excused' = excused \cup OnDriver
  /\ UNCHANGED <<memgraph, mishaps, driver, left, failed, met>>
Reset(c) ==
  /\ call[c].step = "resetting" /\ Unlocked
  /\ driver' = 0 /\ opened' = opened \ {driver}
  /\ call' = [call EXCEPT ![c] = Idle]
  /\ excused' = excused \cup OnDriver
  /\ UNCHANGED <<memgraph, mishaps, left, failed, met>>

Connecting(c) == Driver(c) \/ Connect(c) \/ Retry(c)

\* A call ends with an answer, or with an error.
Ends(c, answered) ==
  IF answered THEN Query(c) ELSE GiveUp(c) \/ QueryFails(c) \/ Refused(c)

-----------------------------------------------------------------------------
(* There is one connection pool at a time: callers that find the handle    *)
(* empty at once do not each make a driver, of which all but the last      *)
(* would stay open (Driver and Reset, graphdb.go).                         *)
OneDriver == opened \subseteq {driver}

(* A call fails only for an outage during it, for a reset of the driver it *)
(* was using, because its caller left, or with an error of its own query:  *)
(* after a reset nobody is handed the closed driver, and no failure of one *)
(* caller is passed on to the next (Driver and Reset, graphdb.go).         *)
FailsForCause == failed \subseteq excused

HasDriver(c) == call[c].step = "session" => call[c].on \in opened

(* While Memgraph is in reach and no caller has left, nobody loses the     *)
(* driver of his session, whatever errors the queries of others meet       *)
(* (routes.go:456).                                                        *)
ErrorsDisturbNobody == met = {} => \A c \in Callers : HasDriver(c)

(* Only a dead connection warrants a new driver, says the route that       *)
(* resets it: nobody loses the driver of his session while Memgraph was    *)
(* never out of reach (routes.go:456).  It does not hold: a request whose  *)
(* caller left while it probed closes what another has made since.         *)
OnlyDeadReset == "outage" \notin met => \A c \in Callers : HasDriver(c)
=============================================================================
