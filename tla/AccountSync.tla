------------------------------ MODULE AccountSync ------------------------------
(***************************************************************************)
(* One account between the database and Supabase Auth: its enabled state,  *)
(* the sync that carries it over (AuthSyncService), the delivery of its    *)
(* invitation (InvitationDeliveryService), the administrator's disable,    *)
(* enable and re-send, the operator's reconcile, and the person who opens  *)
(* the link, signs in and accepts.                                         *)
(*                                                                         *)
(* The advisory lock of the sync is taken per profile and every statement  *)
(* names one profile, so one account is modelled.  Of Auth the model keeps *)
(* what auth-admin.service.ts says was measured: a user is created banned, *)
(* a password change ends every session and every pending link.            *)
(***************************************************************************)
EXTENDS Naturals, FiniteSets

CONSTANTS
    Workers,    \* requests and operator runs in progress at one time
    MaxChanges, \* bounds auth_sync_generation
    MaxTime,    \* bounds the sessions begun: each takes one tick of the clock
    MaxFaults,  \* bounds the crashes, lost answers and failed calls
    None

ASSUME SyncAssumption ==
    /\ MaxChanges \in Nat /\ MaxTime \in Nat /\ MaxFaults \in Nat
    /\ None \notin Workers
    /\ IsFiniteSet(Workers)

VARIABLES
    disabled,    \* profiles.disabled_at is set
    revoked,     \* profiles.sessions_revoked_at, 0 for null
    pending,     \* profiles.auth_sync_pending_since is set
    generation,  \* profiles.auth_sync_generation
    invitation,  \* invitations.status, "none" for an account without one
    auth,        \* the Auth user: "absent", "banned" or "active"
    confirmed,   \* Auth: the address was confirmed through a link
    chosen,      \* Auth: the password is one its owner chose
    link,        \* Auth: the worker whose minted link is still good
    mailed,      \* the workers whose last link reached the mailbox
    sessions,    \* the start times of the sessions whose tokens still verify
    dead,        \* history: those begun before an enable, or ended by Auth
    clock,
    lock,        \* the worker whose transaction holds the sync lock
    job,         \* job[w]: what w is doing
    strayed,     \* history: the last call to change Auth came after its transaction
    faults       \* crashes and failures so far

profile == <<disabled, revoked, pending, generation>>
authUser == <<auth, confirmed, chosen, link>>
person == <<mailed, sessions, dead, clock>>
vars == <<disabled, revoked, pending, generation, invitation, auth, confirmed,
          chosen, link, mailed, sessions, dead, clock, lock, job, strayed, faults>>

\* phase: what comes next; state: the enabled state read or being written;
\* gen: the generation read; stamp: the time read; mint: the sync is a
\* delivery's, which goes on to its link.
Job(phase, state, gen, stamp, mint) ==
    [phase |-> phase, state |-> state, gen |-> gen, stamp |-> stamp, mint |-> mint]
Idle == Job("idle", FALSE, 0, 0, FALSE)

Busy(w) == job[w].phase # "idle"
\* The organisation's administrative lock: one such transaction at a time.
TenantLockFree == \A w \in Workers : job[w].phase \notin {"change", "reopen"}
\* Every job moves the generation at most once.
Room == generation + Cardinality({w \in Workers : Busy(w)}) < MaxChanges

Goes(w, j) == job' = [job EXCEPT ![w] = j]
Ends(w) == Goes(w, Idle)

\* sessionStartedAt against sessions_revoked_at, and disabled_at: the guard.
Admits(t) == ~disabled /\ (revoked = 0 \/ t > revoked)

Init ==
    /\ disabled = FALSE
    /\ revoked = 0
    /\ pending = FALSE
    /\ generation = 0
    /\ \/ /\ invitation = "pending"      \* just invited: the profile, then Auth
          /\ auth = "absent"
          /\ confirmed = FALSE
       \/ /\ invitation = "none"         \* a seeded account
          /\ auth = "active"
          /\ confirmed = TRUE
    /\ chosen = confirmed
    /\ link = None
    /\ mailed = {}
    /\ sessions = {}
    /\ dead = {}
    /\ clock = 1
    /\ lock = None
    /\ job = [w \in Workers |-> Idle]
    /\ strayed = FALSE
    /\ faults = 0

-----------------------------------------------------------------------------
(* The administrator's transactions, under the organisation's lock.        *)

\* disableMember, enableMember: nothing to change still retries the sync.
Decide(w, to) ==
    /\ ~Busy(w) /\ TenantLockFree /\ Room
    /\ Goes(w, IF disabled = to THEN Job("apply", FALSE, 0, 0, FALSE)
                                ELSE Job("change", to, 0, clock, FALSE))
    /\ UNCHANGED <<profile, invitation, authUser, person, lock, strayed, faults>>

CommitChange(w) ==
    /\ job[w].phase = "change"
    /\ disabled' = job[w].state
    /\ revoked' = job[w].stamp
    /\ pending' = TRUE
    /\ generation' = generation + 1
    /\ invitation' = IF job[w].state /\ invitation \in {"pending", "sent"}
                     THEN "revoked" ELSE invitation
    /\ dead' = sessions
    /\ Goes(w, Job("apply", FALSE, 0, 0, FALSE))
    /\ UNCHANGED <<authUser, mailed, sessions, clock, lock, strayed, faults>>

\* reopenInvitation, then its delivery.  An acceptance does not take the
\* organisation's lock and may come between the two.
Reopen(w) ==
    /\ ~Busy(w) /\ TenantLockFree /\ Room
    /\ ~disabled
    /\ invitation \in {"pending", "sent", "revoked"}
    /\ Goes(w, Job("reopen", FALSE, 0, 0, FALSE))
    /\ UNCHANGED <<profile, invitation, authUser, person, lock, strayed, faults>>

CommitReopen(w) ==
    /\ job[w].phase = "reopen"
    /\ invitation' = "pending"
    /\ Goes(w, Job("deliver", FALSE, 0, 0, FALSE))
    /\ UNCHANGED <<profile, authUser, person, lock, strayed, faults>>

\* The operator's reconcile reads the flag, and later applies.
Reconcile(w) ==
    /\ ~Busy(w)
    /\ pending
    /\ Goes(w, Job("apply", FALSE, 0, 0, FALSE))
    /\ UNCHANGED <<profile, invitation, authUser, person, lock, strayed, faults>>

-----------------------------------------------------------------------------
(* The sync: AuthSyncService.apply, one transaction under the lock.        *)

\* What follows a sync that answered true, whatever state it read.
AfterSync(w) == IF job[w].mint THEN Job("mint", FALSE, 0, 0, FALSE) ELSE Idle

TakeLock(w) ==
    /\ job[w].phase = "apply"
    /\ lock = None
    /\ IF pending
       THEN /\ lock' = w
            /\ Goes(w, Job("calling", disabled, generation, 0, job[w].mint))
       ELSE /\ Goes(w, AfterSync(w))
            /\ UNCHANGED lock
    /\ UNCHANGED <<profile, invitation, authUser, person, strayed, faults>>

\* setBanned reaching Auth: the ban and a password nobody holds, in one call.
Applied(banned) ==
    IF auth = "absent" THEN UNCHANGED <<auth, chosen, link, dead>>
    ELSE /\ auth' = IF banned THEN "banned" ELSE "active"
         /\ chosen' = FALSE
         /\ link' = None
         /\ dead' = sessions

Land(w) ==
    /\ job[w].phase = "calling"
    /\ Applied(job[w].state)
    /\ strayed' = (auth = "absent" /\ strayed)
    /\ Goes(w, Job("landed", job[w].state, job[w].gen, 0, job[w].mint))
    /\ UNCHANGED <<profile, invitation, confirmed, mailed, sessions, clock, lock, faults>>

\* The transaction's 20 s are over, or its process is gone: its lock with it,
\* but setBanned has no deadline and the call is still on its way.
TimesOut(w) ==
    /\ job[w].phase = "calling"
    /\ faults < MaxFaults
    /\ faults' = faults + 1
    /\ lock' = None
    /\ Goes(w, [job[w] EXCEPT !.phase = "late"])
    /\ UNCHANGED <<profile, invitation, authUser, person, strayed>>

\* It reaches Auth after all; the next statement fails, so the sync did.
LandLate(w) ==
    /\ job[w].phase = "late"
    /\ Applied(job[w].state)
    /\ strayed' = (auth # "absent" \/ strayed)
    /\ Ends(w)
    /\ UNCHANGED <<profile, invitation, confirmed, mailed, sessions, clock, lock, faults>>

\* The boundary moves to now, only forward and only where there is one; the
\* flag clears only while the generation is the one read.
\* Mutant: the boundary stays where the disable or enable put it.
NotRotated == revoked
Rotated == IF revoked # 0 /\ revoked < clock THEN clock ELSE revoked
\* Mutant: cleared while the enabled state is the one read.
FlaggedIfStateMoved(w) == pending /\ job[w].state # disabled
\* Mutant: the generation is compared before it has been read.
FlaggedForGood(w) == pending
\* Whether the flag stays set.
StillFlagged(w) == pending /\ job[w].gen # generation

\* A delivery that found the flag still set records a failure and stops.
Finish(w) ==
    /\ job[w].phase = "landed"
    /\ revoked' = Rotated
    /\ pending' = StillFlagged(w)
    /\ lock' = None
    /\ Goes(w, IF StillFlagged(w) THEN Idle ELSE AfterSync(w))
    /\ UNCHANGED <<disabled, generation, invitation, authUser, person, strayed, faults>>

-----------------------------------------------------------------------------
(* The delivery: InvitationDeliveryService.deliver.                        *)

\* A provision run again, or the invite's own delivery.
Resume(w) ==
    /\ ~Busy(w) /\ Room
    /\ invitation = "pending"
    /\ Goes(w, Job("deliver", FALSE, 0, 0, FALSE))
    /\ UNCHANGED <<profile, invitation, authUser, person, lock, strayed, faults>>

ReadInvitation(w) ==
    /\ job[w].phase = "deliver"
    /\ Goes(w, IF invitation = "pending" /\ ~disabled
               THEN Job("create", FALSE, 0, 0, FALSE) ELSE Idle)
    /\ UNCHANGED <<profile, invitation, authUser, person, lock, strayed, faults>>

\* ensureUser: a user that was not there is born banned; state: banned now.
\* Mutant: created ready to sign in.
BornActive == "active"
BornAs == "banned"
EnsureUser(w) ==
    /\ job[w].phase = "create"
    /\ auth' = IF auth = "absent" THEN BornAs ELSE auth
    /\ Goes(w, Job("reread", auth' = "banned", 0, 0, FALSE))
    /\ UNCHANGED <<profile, invitation, confirmed, chosen, link, person, lock, strayed, faults>>

\* Disabled meanwhile, or banned: arm the flag; otherwise straight to the link.
\* Whether the delivery goes on after the sync is decided here.
Reread(w) ==
    /\ job[w].phase = "reread"
    /\ Goes(w, IF job[w].state \/ disabled
               THEN Job("arm", FALSE, 0, 0, ~disabled) ELSE Job("mint", FALSE, 0, 0, FALSE))
    /\ UNCHANGED <<profile, invitation, authUser, person, lock, strayed, faults>>

Arm(w) ==
    /\ job[w].phase = "arm"
    /\ pending' = TRUE
    /\ generation' = generation + 1
    /\ Goes(w, Job("apply", FALSE, 0, 0, job[w].mint))
    /\ UNCHANGED <<disabled, revoked, invitation, authUser, person, lock, strayed, faults>>

\* inviteToken: a new link voids the last; a confirmed address is refused one.
Mint(w) ==
    /\ job[w].phase = "mint"
    /\ IF auth # "absent" /\ ~confirmed
       THEN /\ link' = w
            /\ mailed' = mailed \ {w}
            /\ Goes(w, Job("mail", FALSE, 0, 0, FALSE))
       ELSE /\ Ends(w)
            /\ UNCHANGED <<link, mailed>>
    /\ UNCHANGED <<profile, invitation, auth, confirmed, chosen, sessions, dead, clock,
                   lock, strayed, faults>>

Mail(w) ==
    /\ job[w].phase = "mail"
    /\ mailed' = mailed \cup {w}
    /\ Goes(w, Job("record", FALSE, 0, 0, FALSE))
    /\ UNCHANGED <<profile, invitation, authUser, sessions, dead, clock, lock, strayed, faults>>

\* Still pending: a disable in the meantime revoked it, and that stands.
Sent == IF invitation = "pending" THEN "sent" ELSE invitation
Record(w) ==
    /\ job[w].phase = "record"
    /\ invitation' = Sent
    /\ Ends(w)
    /\ UNCHANGED <<profile, authUser, person, lock, strayed, faults>>

-----------------------------------------------------------------------------
(* The person.                                                             *)

Begin ==
    /\ clock < MaxTime
    /\ auth = "active"
    /\ sessions' = sessions \cup {clock}
    /\ clock' = clock + 1
    /\ chosen' = TRUE

\* The link opened: the address is confirmed and a password chosen.
Confirm ==
    /\ link \in mailed
    /\ Begin
    /\ confirmed' = TRUE
    /\ link' = None
    /\ UNCHANGED <<profile, invitation, auth, mailed, dead, lock, job, strayed, faults>>

\* A password already chosen, or chosen again through a reset link.
SignIn ==
    /\ confirmed
    /\ Begin
    /\ UNCHANGED <<profile, invitation, auth, confirmed, link, mailed, dead, lock, job,
                   strayed, faults>>

\* UserLifecycleService.accept: the guard first, its transaction later.
Call(w) ==
    /\ ~Busy(w) /\ Room
    /\ \E t \in sessions : Admits(t)
    /\ invitation # "none"
    /\ Goes(w, Job("accept", FALSE, 0, 0, FALSE))
    /\ UNCHANGED <<profile, invitation, authUser, person, lock, strayed, faults>>

Accept(w) ==
    /\ job[w].phase = "accept"
    /\ invitation' = "accepted"
    /\ Ends(w)
    /\ UNCHANGED <<profile, authUser, person, lock, strayed, faults>>

-----------------------------------------------------------------------------
(* Failures.                                                               *)

\* A process that stops, a refused call, an answer that never comes: the
\* transaction rolls back, its lock with it.  What landed at Auth stays, and
\* a call under way does not land (TimesOut is the call that still does).
Released(w) == IF lock = w THEN None ELSE lock
Fail(w) ==
    /\ Busy(w)
    /\ faults < MaxFaults
    /\ faults' = faults + 1
    /\ lock' = Released(w)
    /\ Ends(w)
    /\ UNCHANGED <<profile, invitation, authUser, person, strayed>>

\* Every bound spent and every job done.
Rest ==
    /\ \A w \in Workers : ~Busy(w)
    /\ UNCHANGED vars

Steps(w) ==
    \/ CommitChange(w) \/ CommitReopen(w)
    \/ TakeLock(w) \/ Land(w) \/ LandLate(w) \/ Finish(w)
    \/ ReadInvitation(w) \/ EnsureUser(w) \/ Reread(w) \/ Arm(w)
    \/ Mint(w) \/ Mail(w) \/ Record(w)
    \/ Accept(w)

Next ==
    \/ \E w \in Workers :
         \/ \E to \in BOOLEAN : Decide(w, to)
         \/ Reopen(w) \/ Reconcile(w) \/ Resume(w) \/ Call(w)
         \/ Steps(w)
         \/ TimesOut(w) \/ Fail(w)
    \/ Confirm \/ SignIn
    \/ Rest

Spec == Init /\ [][Next]_vars

(* A statement sent is answered and a lock waited for is granted; and the  *)
(* operator reconciles again and again while a flag is set.  That run is a *)
(* process of its own, which the number of workers must not keep waiting.  *)
Fairness ==
    /\ \A w \in Workers : WF_vars(Steps(w))
    /\ SF_vars(\E w \in Workers : Reconcile(w))
FairSpec == Spec /\ Fairness

-----------------------------------------------------------------------------
Phases == {"idle", "change", "reopen", "apply", "calling", "late", "landed", "deliver", "create",
           "reread", "arm", "mint", "mail", "record", "accept"}

TypeOK ==
    /\ disabled \in BOOLEAN /\ pending \in BOOLEAN
    /\ revoked \in Nat /\ clock \in Nat \ {0} /\ generation \in Nat /\ faults \in Nat
    /\ invitation \in {"none", "pending", "sent", "accepted", "revoked"}
    /\ auth \in {"absent", "banned", "active"}
    /\ confirmed \in BOOLEAN /\ chosen \in BOOLEAN
    /\ link \in Workers \cup {None} /\ lock \in Workers \cup {None}
    /\ mailed \subseteq Workers
    /\ sessions \subseteq 1 .. clock - 1
    /\ dead \subseteq sessions
    /\ strayed \in BOOLEAN
    /\ job \in [Workers -> [phase : Phases, state : BOOLEAN, gen : Nat, stamp : Nat,
                            mint : BOOLEAN]]
    /\ \A w \in Workers : (lock = w) <=> (job[w].phase \in {"calling", "landed"})

(* A disabled account whose flag is clear cannot sign in at Supabase Auth, *)
(* whatever changes, deliveries and syncs crossed, until a call whose      *)
(* transaction is over comes last: "the last run to hold [the lock]        *)
(* applies the latest state" (auth-sync.service.ts).                       *)
SettledHonours == disabled /\ ~pending /\ ~strayed => auth # "active"

(* The other way round: an invitation shown as sent or accepted belongs to *)
(* an account that can sign in, unless it is disabled or flagged, or a     *)
(* late call came last; a user left banned by a lost answer or a crash     *)
(* shows as pending or revoked (ensureUser and deliver).                   *)
InvitedCanSignIn ==
    invitation \in {"sent", "accepted"} /\ ~disabled /\ ~pending /\ ~strayed => auth = "active"

(* A disabled account has no open invitation, though a delivery of it may  *)
(* be anywhere on its way (disableMember, reopenInvitation and the         *)
(* statement at the end of deliver).                                       *)
DisabledIsWithdrawn == disabled => invitation \notin {"pending", "sent"}

(* Once the flag is clear, a session begun before the account was last     *)
(* disabled or enabled, or while it was disabled, or ended by the sync's   *)
(* password change, is not admitted, whatever its token says - unless a    *)
(* late call ended it.  An account never disabled has no boundary and is   *)
(* left out, as in the code.                                               *)
EndedStayRefused == revoked # 0 /\ ~pending /\ ~strayed => \A t \in dead : ~Admits(t)

(* The account implements its abstract promise, AccountMark.               *)
Marked == INSTANCE AccountMark WITH
    barred <- disabled, open <- (auth = "active"), marked <- pending, astray <- strayed
ImplementsMark == Marked!Spec

(* Violated.  "The last run to hold it applies the latest state, however   *)
(* the HTTP calls interleave" (auth-sync.service.ts): a call that its      *)
(* transaction did not wait for lands after a later run's.                 *)
LastRunApplies == disabled /\ ~pending => auth # "active"

(* An account brought out of line is brought in line again once the faults *)
(* and the changes cease, through the operator's reconcile if nothing else.*)
EventuallySettled == pending ~> ~pending

(* Violated.  "An unbanned user of an enabled account is left alone: the   *)
(* sync replaces the password, and an invitee who already confirmed (and   *)
(* chose one) would lose it" (invitation-delivery.service.ts): the flag of *)
(* a sync whose answer was lost outlives the delivery that armed it.       *)
ChosenPasswordKept == [][chosen /\ ~disabled /\ revoked = 0 => chosen']_vars

(* Violated.  "Refused once accepted" (reopenInvitation): its status is    *)
(* read before an acceptance, which takes no lock of the organisation, and *)
(* overwritten after it.                                                   *)
AcceptedIsFinal == [][invitation = "accepted" => invitation' = "accepted"]_vars
=============================================================================
