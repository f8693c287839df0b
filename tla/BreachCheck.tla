----------------------------- MODULE BreachCheck -----------------------------
(***************************************************************************)
(* The breach check and the report that reads its results:                 *)
(* src-tauri/src/commands/security.rs, services/breach.rs and hibp.rs.     *)
(* The check reads under the session, fetches without it, and writes under *)
(* it again; a sleep signal may lock the vault in between.  Commands run   *)
(* one at a time, so items do not change meanwhile.                        *)
(*                                                                         *)
(* Abstractions: passwords fall into ranges, by prefix.  A body is the set *)
(* of breached passwords of its range, or Garbage: a response that is not  *)
(* a range body.  An item is its password, Blank if it has none or is      *)
(* deleted.                                                                *)
(***************************************************************************)
EXTENDS Integers, FiniteSets

CONSTANTS
    Logins,          \* login items
    Ranges,          \* the passwords, as sets of those with one prefix
    MIN_INTERVAL,    \* breach::MIN_INTERVAL_MS, coarsely
    MaxHours,        \* bound: time
    MaxBreachCuts    \* bound: crashes and failing statements

ASSUME BreachAssumption ==
    /\ \A x, y \in Ranges : x # y => x \cap y = {}
    /\ {"blank", "missing", "garbage"} \cap UNION Ranges = {}   \* told from passwords
    /\ MIN_INTERVAL \in Nat \ {0}
    /\ MaxHours \in Nat /\ MaxBreachCuts \in Nat

VARIABLES
    password,    \* per item
    corpus,      \* the service: breached passwords
    cache,       \* BreachCache.ranges, in app_cache: per prefix a body or Missing
    stamp,       \* app_state LastBreachCheckAt; NoStamp reads as 0, long ago
    check,       \* the check in progress
    hour,
    breachCuts,
    judged,      \* ghost: per password what the last body fetched for it said
    lastRun,     \* ghost: when the last check that reached the service began
    unstamped    \* ghost: that check was cut before its stamp

breachVars == <<password, corpus, cache, stamp, check, hour, breachCuts,
                judged, lastRun, unstamped>>

outside == <<password, corpus, hour>>
breachGhosts == <<judged, lastRun, unstamped>>

Blank == "blank"
Missing == {"missing"}
Garbage == {"garbage"}
Passwords == UNION Ranges

\* split.
Prefix(p) == CHOOSE x \in Ranges : p \in x

NoStamp == -MIN_INTERVAL
NoCheck == [phase |-> "none"]
Holding == {i \in Logins : password[i] # Blank}
Wanted == {Prefix(password[i]) : i \in Holding}

-----------------------------------------------------------------------------
(* The report.                                                             *)

\* Mutant: what is not known is taken for absent.
StatusOptimistic(p) ==
    LET body == cache[Prefix(p)]
    IN  IF p \in body THEN "Breached" ELSE "NotBreached"

\* check_one with CachedOnly: find_in_body of what is cached, if anything is.
Status(p) ==
    LET body == cache[Prefix(p)]
    IN  IF body \in {Missing, Garbage} THEN "NotChecked"
        ELSE IF p \in body THEN "Breached" ELSE "NotBreached"

StatusOf(i) == Status(password[i])
breached == {i \in Holding : StatusOf(i) = "Breached"}

-----------------------------------------------------------------------------
(* security_breach_check.                                                  *)

may_refresh == hour - stamp >= MIN_INTERVAL

\* Phase A.  Inside the interval nothing follows that changes anything.
BreachCheckBegin ==
    /\ check = NoCheck /\ may_refresh
    /\ check' = [phase |-> IF Wanted = {} THEN "store" ELSE "fetch",
                 left |-> Wanted, fetched |-> FALSE, now |-> hour,
                 new |-> IF Wanted = {} THEN cache ELSE [x \in Ranges |-> Missing]]
    /\ UNCHANGED <<outside, cache, stamp, breachCuts, breachGhosts>>

\* Phase B, refresh: the body of one more prefix is in the rebuilt cache.
Refreshed(x, body, ok) ==
    check' = [check EXCEPT !.left = @ \ {x}, !.new[x] = body, !.fetched = @ \/ ok,
                           !.phase = IF check.left = {x} THEN "store" ELSE @]

\* The request succeeds.
FetchRange(x) ==
    /\ check.phase = "fetch" /\ x \in check.left
    /\ \/ Refreshed(x, corpus \cap x, TRUE)
          /\ judged' = [p \in Passwords |-> IF p \notin x THEN judged[p]
                                            ELSE IF p \in corpus THEN "Breached" ELSE "NotBreached"]
       \/ Refreshed(x, Garbage, TRUE) /\ UNCHANGED judged
    /\ lastRun' = check.now
    /\ unstamped' = TRUE
    /\ UNCHANGED <<outside, cache, stamp, breachCuts>>

\* Mutant: a prefix that could not be reached is dropped.
FetchFailsDropping(x) ==
    /\ check.phase = "fetch" /\ x \in check.left
    /\ Refreshed(x, Missing, FALSE)
    /\ UNCHANGED <<outside, cache, stamp, breachCuts, breachGhosts>>

\* It fails: the previous body, if any, stays.
FetchFails(x) ==
    /\ check.phase = "fetch" /\ x \in check.left
    /\ Refreshed(x, cache[x], FALSE)
    /\ UNCHANGED <<outside, cache, stamp, breachCuts, breachGhosts>>

\* Phase C: app_cache_put.
StoreCache ==
    /\ check.phase = "store"
    /\ cache' = check.new
    /\ check' = IF check.fetched THEN [check EXCEPT !.phase = "stamp"] ELSE NoCheck
    /\ UNCHANGED <<outside, stamp, breachCuts, breachGhosts>>

\* Mutant: nothing is stamped.
StampForgotten ==
    /\ check.phase = "stamp"
    /\ unstamped' = FALSE
    /\ check' = NoCheck
    /\ UNCHANGED <<outside, cache, stamp, breachCuts, judged, lastRun>>

\* Phase C: state_set_i64.
Stamp ==
    /\ check.phase = "stamp"
    /\ stamp' = check.now /\ unstamped' = FALSE
    /\ check' = NoCheck
    /\ UNCHANGED <<outside, cache, breachCuts, judged, lastRun>>

\* The process dies, a statement fails, or the vault has been locked by the time
\* the cache is to be stored.
BreachCut ==
    /\ check # NoCheck /\ breachCuts < MaxBreachCuts
    /\ breachCuts' = breachCuts + 1
    /\ check' = NoCheck
    /\ UNCHANGED <<outside, cache, stamp, breachGhosts>>

-----------------------------------------------------------------------------
(* The rest of the world.                                                  *)

ChangePassword(i, p) ==
    /\ check = NoCheck /\ p # password[i]
    /\ password' = [password EXCEPT ![i] = p]
    /\ UNCHANGED <<corpus, cache, stamp, check, hour, breachCuts, breachGhosts>>

Leaks(p) ==
    /\ p \notin corpus
    /\ corpus' = corpus \cup {p}
    /\ UNCHANGED <<password, cache, stamp, check, hour, breachCuts, breachGhosts>>

HourPasses ==
    /\ hour < MaxHours
    /\ hour' = hour + 1
    /\ UNCHANGED <<password, corpus, cache, stamp, check, breachCuts, breachGhosts>>

BreachInit ==
    /\ password = [i \in Logins |-> Blank] /\ corpus = {}
    /\ cache = [x \in Ranges |-> Missing] /\ stamp = NoStamp
    /\ check = NoCheck /\ hour = 0 /\ breachCuts = 0
    /\ judged = [p \in Passwords |-> "NotChecked"]
    /\ lastRun = NoStamp /\ unstamped = FALSE

BreachNext ==
    \/ BreachCheckBegin \/ StoreCache \/ Stamp \/ BreachCut
    \/ \E x \in Ranges : FetchRange(x) \/ FetchFails(x)
    \/ \E i \in Logins, p \in Passwords \cup {Blank} : ChangePassword(i, p)
    \/ \E p \in Passwords : Leaks(p)
    \/ HourPasses

BreachSpec == BreachInit /\ [][BreachNext]_breachVars

-----------------------------------------------------------------------------
(* Properties.                                                             *)

Bodies == (SUBSET Passwords) \cup {Missing, Garbage}

BreachTypeOK ==
    /\ password \in [Logins -> Passwords \cup {Blank}]
    /\ corpus \subseteq Passwords
    /\ cache \in [Ranges -> Bodies]
    /\ stamp \in NoStamp..MaxHours /\ hour \in 0..MaxHours
    /\ check.phase \in {"none", "fetch", "store", "stamp"}
    /\ check.phase = "fetch" => check.left # {}
    /\ breachCuts \in 0..MaxBreachCuts

\* "Offline is not checked, never safe": whatever failed, was cut, or was fetched
\* for another password of the same range, an item is reported as breached or as
\* not breached only if a body fetched for its password's range said so.
NeverSafeUnchecked ==
    \A i \in Holding : StatusOf(i) # "NotChecked" => judged[password[i]] # "NotChecked"

\* "One failed request cannot cost a usable answer": an item that is reported
\* breached stays so while its password stays, through every check that fails,
\* wholly or in part, or is cut, unless the service answered with garbage.
BreachedStays ==
    [][\A i \in breached : password'[i] = password[i] =>
         i \in breached' \/ cache'[Prefix(password[i])] = Garbage]_breachVars

\* "At most once per 24 h": a check reaches the service no sooner than the interval
\* after the last one that did, unless that one was cut before its stamp.
ChecksAreADayApart ==
    [][check = NoCheck /\ check' # NoCheck /\ ~unstamped => hour - lastRun >= MIN_INTERVAL]_breachVars

=============================================================================
