----------------------------- MODULE LoginGuard -----------------------------
(***************************************************************************)
(* The login guard of Vendra: failed logins are counted per name and per   *)
(* address within a window, and too many of them lock the name, or the     *)
(* address, out for a while.  The retention sweep deletes the rows that    *)
(* are counted once they are old.                                          *)
(*                                                                         *)
(* One SQL statement per step; any of them may fail.  Time is a clock that *)
(* ticks up to Horizon; failures are a count per name, address and tick.   *)
(***************************************************************************)
EXTENDS Integers, FiniteSetsExt

CONSTANTS Names,             \* names that are tried
          Addresses,         \* source addresses
          LoginRequests,     \* logins in flight at once (bound)
          Protection,        \* the setting security.login, as an administrator left it
          Default,           \* defaultLoginProtection, in ticks
          MostFailures,      \* no limit is above these: 1000 for a name, 10000 for an address
          MostAddressFailures,
          Day,               \* ticks in a day: the longest window, the shortest retention
          Horizon,           \* the last tick (bound)
          AttemptBound,      \* failures on record at once (bound)
          Nobody

ASSUME GuardAssumption ==
    /\ Protection \in [maxFailures : Int, window : Int, lockout : Int, maxAddressFailures : Int]
    /\ Default \in [maxFailures : 0 .. MostFailures, window : 1 .. Day, lockout : 1 .. Day,
                    maxAddressFailures : 0 .. MostAddressFailures]
    /\ MostFailures \in Nat /\ MostAddressFailures \in Nat /\ Day \in Nat /\ Horizon \in Nat /\ AttemptBound \in Nat
    /\ Nobody \notin Names \cup Addresses
    /\ IsFiniteSet(Names) /\ IsFiniteSet(Addresses) /\ IsFiniteSet(LoginRequests)

VARIABLES clock,
          failures,    \* login_attempts that did not succeed
          lreq,        \* logins in flight
          blind        \* ghost: a count or the record of a failure has failed, or a failed read
                       \* of the setting has put other limits in place of the configured ones

guardVars == <<clock, failures, lreq, blind>>

Asleep == [pc |-> "idle", name |-> Nobody, address |-> Nobody]

Ranged(v, default) == IF v \in 1 .. Day THEN v ELSE default
Clamped(v, default, most) == IF v < 0 THEN default ELSE IF v > most THEN most ELSE v

\* normalized: a limit below zero is the default one, as are a window and a lockout out
\* of range; a limit that is too high is cut.
Normalized(p) ==
    [maxFailures |-> Clamped(p.maxFailures, Default.maxFailures, MostFailures),
     window |-> Ranged(p.window, Default.window),
     lockout |-> Ranged(p.lockout, Default.lockout),
     maxAddressFailures |-> Clamped(p.maxAddressFailures, Default.maxAddressFailures, MostAddressFailures)]

\* Mutant: the window may be as long as an administrator likes.
Guard_Uncapped == Protection

\* The guard as it is configured, and the one in place when the setting cannot be read.
Guard == Normalized(Protection)
Fallback == Normalized(Default)

\* loginProtection
Settings(answered) == IF answered THEN Guard ELSE Fallback

\* recentFailures: how many, and the last of them.
Recent(keys, g) == {k \in keys : k[3] <= clock /\ clock - k[3] < g.window}
Count(keys, g) == SumFunctionOnSet(failures, Recent(keys, g))
Latest(keys, g) == Max({0} \cup {k[3] : k \in {j \in Recent(keys, g) : failures[j] > 0}})

OfName(n) == {k \in DOMAIN failures : k[1] = n}
OfAddress(a) == {k \in DOMAIN failures : k[2] = a}

\* Mutant: one failure too many.
Locks_OffByOne(keys, limit, g) ==
    limit > 0 /\ Count(keys, g) > limit /\ clock < Latest(keys, g) + g.lockout

\* retryAfter: a limit of zero switches the dimension off.
Locks(keys, limit, g) ==
    limit > 0 /\ Count(keys, g) >= limit /\ clock < Latest(keys, g) + g.lockout

Locked(n, a, g) == \/ Locks(OfName(n), g.maxFailures, g)
                   \/ Locks(OfAddress(a), g.maxAddressFailures, g)

-----------------------------------------------------------------------------
\* login reads the setting and counts the failures first, and ends at once when the name or
\* the address is locked; a read that fails leaves the default limits, a count that fails
\* lets everybody on.  Then the password is looked at.
TryLogin(r, n, a, right, answered, counted) ==
    /\ lreq[r].pc = "idle"
    /\ counted => ~Locked(n, a, Settings(answered))
    /\ lreq' = [lreq EXCEPT ![r] = [pc |-> IF right THEN "clear" ELSE "record", name |-> n, address |-> a]]
    /\ blind' = (blind \/ ~counted \/ Settings(answered) # Guard)
    /\ UNCHANGED <<clock, failures>>

\* recordLoginAttempt
RecordFailure(r) ==
    LET q == lreq[r] IN
    /\ q.pc = "record"
    /\ SumFunction(failures) < AttemptBound
    /\ failures' = [failures EXCEPT ![<<q.name, q.address, clock>>] = @ + 1]
    /\ lreq' = [lreq EXCEPT ![r] = Asleep]
    /\ UNCHANGED <<clock, blind>>

\* A success clears the failures of the name, whatever address they came from.
ClearFailures(r) ==
    /\ lreq[r].pc = "clear"
    /\ failures' = [k \in DOMAIN failures |-> IF k[1] = lreq[r].name THEN 0 ELSE failures[k]]
    /\ lreq' = [lreq EXCEPT ![r] = Asleep]
    /\ UNCHANGED <<clock, blind>>

\* The statement fails, and nobody is told, or the replica dies.
LoginFails(r) ==
    /\ lreq[r].pc # "idle"
    /\ blind' = (blind \/ lreq[r].pc = "record")
    /\ lreq' = [lreq EXCEPT ![r] = Asleep]
    /\ UNCHANGED <<clock, failures>>

\* changeMyPassword and resetUserPassword clear them as well.
PasswordClears(n) ==
    /\ failures' = [k \in DOMAIN failures |-> IF k[1] = n THEN 0 ELSE failures[k]]
    /\ UNCHANGED <<clock, lreq, blind>>

\* purgeExpired with the shortest retention there is, a day.
PurgeAttempts ==
    /\ failures' = [k \in DOMAIN failures |-> IF k[3] + Day < clock THEN 0 ELSE failures[k]]
    /\ UNCHANGED <<clock, lreq, blind>>

Tick ==
    /\ clock < Horizon
    /\ clock' = clock + 1
    /\ UNCHANGED <<failures, lreq, blind>>

GuardInit ==
    /\ clock = 0
    /\ failures = [k \in Names \X Addresses \X (0 .. Horizon) |-> 0]
    /\ lreq = [r \in LoginRequests |-> Asleep]
    /\ blind = FALSE

GuardNext ==
    \/ \E r \in LoginRequests :
         \/ \E n \in Names, a \in Addresses, right, answered, counted \in BOOLEAN :
              TryLogin(r, n, a, right, answered, counted)
         \/ RecordFailure(r)
         \/ ClearFailures(r)
         \/ LoginFails(r)
    \/ \E n \in Names : PasswordClears(n)
    \/ PurgeAttempts
    \/ Tick

GuardSpec == GuardInit /\ [][GuardNext]_guardVars

-----------------------------------------------------------------------------
\* Lockouts that fit into a window, rounded up.
Bursts == (Guard.window + Guard.lockout - 1) \div Guard.lockout

\* Unless a count or a record of failures fails, or a failed read of the setting puts other
\* limits in place of the configured ones, the guard admits no more than its limit, and for
\* each lockout that fits into the window the attempts that were under way at once: logins
\* count before they check the password and record after it, so the excess is the number
\* of logins in flight and not more (login, loginProtection, recentFailures,
\* recordLoginAttempt).
FailuresBounded ==
    ~blind =>
        /\ Guard.maxFailures > 0 => \A n \in Names :
             Count(OfName(n), Guard) <= Guard.maxFailures - 1 + Bursts * Cardinality(LoginRequests)
        /\ Guard.maxAddressFailures > 0 => \A a \in Addresses :
             Count(OfAddress(a), Guard) <= Guard.maxAddressFailures - 1 + Bursts * Cardinality(LoginRequests)

\* The sweep changes nothing anybody can see: whoever is locked out stays so, and for as
\* long (purgeExpired: "without changing behaviour"), whatever window was configured, and
\* also when the setting cannot be read.
SweepHarmless ==
    [][failures' # failures /\ PurgeAttempts =>
         \A g \in {Guard, Fallback} :
             /\ \A n \in Names : /\ Count(OfName(n), g)' = Count(OfName(n), g)
                                 /\ Latest(OfName(n), g)' = Latest(OfName(n), g)
             /\ \A a \in Addresses : Count(OfAddress(a), g)' = Count(OfAddress(a), g)]_guardVars

=============================================================================
