------------------------------ MODULE PasswordReset ------------------------------
(***************************************************************************)
(* PasswordResetService: the bounded queue of one API process, its fixed   *)
(* set of workers, the permit each holds at RuntimeLimits, the shutdown,   *)
(* and the cooldown each job claims at the database, which every process   *)
(* shares.                                                                 *)
(*                                                                         *)
(* Node runs one callback at a time: request() is one step, and a worker   *)
(* yields at each call, between finding the queue empty and its finally,   *)
(* and before its first look.                                              *)
(***************************************************************************)
EXTENDS Naturals, Sequences, FiniteSets, RuntimeLimits

CONSTANTS
    Accounts,      \* the addresses that have an enabled account
    Strangers,     \* addresses that have none
    ResetWorkers,  \* RESET_WORKERS of them
    QueueMax,      \* RESET_QUEUE_MAX
    MaxRequests,   \* bounds the requests made
    MaxCooldowns,  \* bounds the cooldowns that run out
    NoAddress

Addresses == Accounts \cup Strangers

\* What the constants are.
ASSUME ResetAssumption ==
    /\ QueueMax \in Nat \ {0} /\ MaxRequests \in Nat /\ MaxCooldowns \in Nat
    /\ Accounts \cap Strangers = {}
    /\ NoAddress \notin Addresses
    /\ IsFiniteSet(ResetWorkers) /\ ResetWorkers # {}

VARIABLES
    queue,      \* this.queue
    work,       \* work[w]: "free", "started", "looking", "leaving", or a step of run()
    email,      \* email[w]: the address w works on
    permits,    \* RuntimeLimits.active.get('auth-email:jobs')
    cooling,    \* the accounts whose recovery_sent_at is within the cooldown
    links,      \* links[a]: the links mailed since a last began to cool down
    requests,   \* requests made so far
    cooldowns   \* cooldowns run out so far

resetVars == <<queue, work, email, permits, cooling, links, requests, cooldowns>>
database == <<cooling, links>>
bounds == <<requests, cooldowns>>

FreeWorkers == {w \in ResetWorkers : work[w] = "free"}

ResetInit ==
    /\ queue = <<>>
    /\ work = [w \in ResetWorkers |-> "free"]
    /\ email = [w \in ResetWorkers |-> NoAddress]
    /\ permits = 0
    /\ cooling = {}
    /\ links = [a \in Accounts |-> 0]
    /\ requests = 0
    /\ cooldowns = 0

\* pump(): while there is something to do, every free worker is started, one
\* permit each; busy is who is not free as it looks, out the permits then.
Pump(q, busy, out) ==
    LET started == IF q = <<>> THEN {} ELSE ResetWorkers \ busy
    IN  /\ work' = [w \in ResetWorkers |->
                      IF w \in started THEN "started" ELSE IF w \in busy THEN work[w] ELSE "free"]
        /\ permits' = out + Cardinality(started)

-----------------------------------------------------------------------------
(* request()                                                               *)

Request(a) ==
    /\ requests < MaxRequests
    /\ requests' = requests + 1
    /\ IF Len(queue) >= QueueMax
       THEN UNCHANGED <<queue, work, permits>>
       ELSE /\ queue' = Append(queue, a)
            /\ Pump(queue', ResetWorkers \ FreeWorkers, permits)
    /\ UNCHANGED <<email, database, cooldowns>>

-----------------------------------------------------------------------------
(* drain()                                                                 *)

Turns(w, p) == work' = [work EXCEPT ![w] = p]

\* setImmediate, or the job before has ended.
\* Mutant: a worker does not ask whether the process is stopping.
LookAnyway(w) ==
    /\ work[w] \in {"started", "looking"}
    /\ IF queue = <<>>
       THEN Turns(w, "leaving") /\ UNCHANGED <<queue, email>>
       ELSE /\ queue' = Tail(queue)
            /\ email' = [email EXCEPT ![w] = Head(queue)]
            /\ Turns(w, "reading")
    /\ UNCHANGED <<permits, database, bounds>>
Look(w) ==
    /\ work[w] \in {"started", "looking"}
    /\ IF queue = <<>> \/ stopping
       THEN /\ queue' = <<>>
            /\ Turns(w, "leaving")
            /\ UNCHANGED email
       ELSE /\ queue' = Tail(queue)
            /\ email' = [email EXCEPT ![w] = Head(queue)]
            /\ Turns(w, "reading")
    /\ UNCHANGED <<permits, database, bounds>>

LeaveQueue(w) ==
    /\ work[w] = "leaving"
    /\ Pump(queue, ResetWorkers \ (FreeWorkers \cup {w}), permits - 1)
    /\ UNCHANGED <<queue, email, database, bounds>>

-----------------------------------------------------------------------------
(* run()                                                                   *)

Read(w) ==
    /\ work[w] = "reading"
    /\ Turns(w, IF email[w] \in Accounts THEN "claiming" ELSE "looking")
    /\ UNCHANGED <<queue, email, permits, database, bounds>>

\* One statement claims the cooldown.
\* Mutant: what was read before decides.
ClaimTwice(w) ==
    /\ work[w] = "claiming"
    /\ cooling' = cooling \cup {email[w]}
    /\ links' = [links EXCEPT ![email[w]] = IF email[w] \in cooling THEN @ ELSE 0]
    /\ Turns(w, "mailing")
    /\ UNCHANGED <<queue, email, permits, bounds>>
Claim(w) ==
    /\ work[w] = "claiming"
    /\ IF email[w] \in cooling
       THEN /\ Turns(w, "looking")
            /\ UNCHANGED database
       ELSE /\ cooling' = cooling \cup {email[w]}
            /\ links' = [links EXCEPT ![email[w]] = 0]
            /\ Turns(w, "mailing")
    /\ UNCHANGED <<queue, email, permits, bounds>>

\* The link and the mail, or a failure of either.
MailLink(w) ==
    /\ work[w] = "mailing"
    /\ links' = [links EXCEPT ![email[w]] = @ + 1]
    /\ Turns(w, "looking")
    /\ UNCHANGED <<queue, email, permits, cooling, bounds>>

\* A call of run() that throws or answers an error ends the job, no more.
JobFails(w) ==
    /\ work[w] \in {"reading", "claiming", "mailing"}
    /\ Turns(w, "looking")
    /\ UNCHANGED <<queue, email, permits, database, bounds>>

\* Another process sends a link to the account, or its cooldown runs out.
ElsewhereClaims(a) ==
    /\ a \notin cooling
    /\ cooling' = cooling \cup {a}
    /\ links' = [links EXCEPT ![a] = 1]
    /\ UNCHANGED <<queue, work, email, permits, bounds>>

\* A cooldown is five minutes, a job under way a few calls: none straddles it.
CooldownRunsOut(a) ==
    /\ a \in cooling
    /\ cooldowns < MaxCooldowns
    /\ \A w \in ResetWorkers : ~(work[w] = "mailing" /\ email[w] = a)
    /\ cooling' = cooling \ {a}
    /\ cooldowns' = cooldowns + 1
    /\ UNCHANGED <<queue, work, email, permits, links, requests>>

-----------------------------------------------------------------------------
Runs(w) == Look(w) \/ LeaveQueue(w) \/ Read(w) \/ Claim(w) \/ MailLink(w)

ResetWork ==
    \/ \E a \in Addresses : Request(a)
    \/ \E w \in ResetWorkers : Runs(w) \/ JobFails(w)
    \/ \E a \in Accounts : ElsewhereClaims(a) \/ CooldownRunsOut(a)

-----------------------------------------------------------------------------
ResetTypeOK ==
    /\ queue \in Seq(Addresses)
    /\ Len(queue) <= QueueMax
    /\ work \in [ResetWorkers -> {"free", "started", "looking", "leaving", "reading",
                                  "claiming", "mailing"}]
    /\ email \in [ResetWorkers -> Addresses \cup {NoAddress}]
    /\ permits \in Nat
    /\ cooling \subseteq Accounts
    /\ links \in [Accounts -> Nat]

(* A worker that is not free holds one permit, so acquire() is never asked *)
(* for one too many by pump() and cannot throw there, where a worker       *)
(* counted but never started would be lost for good.                       *)
PermitPerWorker == permits = Cardinality(ResetWorkers \ FreeWorkers)

(* However many requests, workers and processes, an account is mailed one  *)
(* link in a cooldown ("so two requests at once send one email").          *)
OneLinkPerCooldown == \A a \in Accounts : links[a] <= 1

(* When the drain lets the application close, no reset is being worked on  *)
(* ("a shutdown waits for it; queued ones are dropped once it starts").    *)
NoResetAfterDrain ==
    closing = "drained" => \A w \in ResetWorkers : work[w] \notin {"reading", "claiming", "mailing"}
=============================================================================
