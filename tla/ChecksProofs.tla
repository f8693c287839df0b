---------------------------- MODULE ChecksProofs ----------------------------
(***************************************************************************)
(* Proofs about BreachCheck and UpdateCheck, the two checks that ask a     *)
(* service, and about HealthReport, which reads what the first one found:  *)
(* for any passwords, ranges, releases, calls in flight, logins, intervals *)
(* and bounds.                                                             *)
(***************************************************************************)
EXTENDS BreachCheck, UpdateCheck, HealthReport, FiniteSetTheorems, TLAPS

-----------------------------------------------------------------------------
(* The breach check: a password is safe or breached only on a service's    *)
(* word.                                                                   *)

Uninformative == {Missing, Garbage}

\* A body in this cache was fetched for every password of its range.
Founded(bodies) ==
    /\ bodies = [x \in Ranges |-> bodies[x]]
    /\ \A x \in Ranges : bodies[x] \notin Uninformative =>
          \A p \in x : judged[p] # "NotChecked"

\* The shape of a check in progress.
InProgress ==
    check = [phase |-> check.phase, left |-> check.left, fetched |-> check.fetched,
             now |-> check.now, new |-> check.new]

\* So in the cache that is stored and in the one a check is building.
AllFounded ==
    /\ password = [i \in Logins |-> password[i]]
    /\ \A i \in Logins : password[i] \in Passwords \cup {Blank}
    /\ judged = [p \in Passwords |-> judged[p]]
    /\ Founded(cache)
    /\ check # NoCheck => /\ check.phase \in {"fetch", "store", "stamp"}
                          /\ Founded(check.new)
                          /\ InProgress

LEMMA PrefixHolds == \A p \in Passwords : Prefix(p) \in Ranges /\ p \in Prefix(p)
  BY DEF Passwords, Prefix

LEMMA FoundedIsChecked == AllFounded => NeverSafeUnchecked
<1> SUFFICES ASSUME AllFounded, NEW i \in Holding, StatusOf(i) # "NotChecked"
             PROVE  judged[password[i]] # "NotChecked"
  BY DEF NeverSafeUnchecked
<1>1. password[i] \in Passwords
  BY DEF Holding, AllFounded
<1>2. cache[Prefix(password[i])] \notin Uninformative
  BY DEF StatusOf, Status, Uninformative
<1> QED
  BY <1>1, <1>2, PrefixHolds DEF AllFounded, Founded

LEMMA FoundedInit == BreachInit => AllFounded
  BY DEF BreachInit, AllFounded, Founded, Uninformative

\* One more body in the cache under construction: of a range that was fetched, of
\* one that keeps what was known of it, or one that says nothing.
LEMMA OneMore ==
    ASSUME NEW x \in Ranges, NEW body, NEW ok, Refreshed(x, body, ok),
           InProgress, check.phase = "fetch", Founded(check.new),
           judged' = [p \in Passwords |-> judged'[p]],
           \A p \in Passwords : judged[p] # "NotChecked" => judged'[p] # "NotChecked",
           body \notin Uninformative => \A p \in x : judged'[p] # "NotChecked"
    PROVE  /\ check'.phase \in {"fetch", "store"}
           /\ Founded(check.new)'
           /\ InProgress'
<1>1. check' = [phase |-> IF check.left = {x} THEN "store" ELSE "fetch",
                left |-> check.left \ {x}, fetched |-> check.fetched \/ ok,
                now |-> check.now, new |-> [check.new EXCEPT ![x] = body]]
  BY DEF Refreshed, InProgress
<1>2. check'.new = [check.new EXCEPT ![x] = body]
  BY <1>1
<1>3. check'.phase \in {"fetch", "store"} /\ InProgress'
  BY <1>1 DEF InProgress
<1>4. \A y \in Ranges : \A p \in y : p \in Passwords
  BY DEF Passwords
<1>5. ASSUME NEW y \in Ranges, check'.new[y] \notin Uninformative, NEW p \in y
      PROVE  judged'[p] # "NotChecked"
  BY <1>2, <1>4, <1>5 DEF Founded
<1>6. check'.new = [y \in Ranges |-> check'.new[y]]
  BY <1>2 DEF Founded
<1> QED
  BY <1>3, <1>5, <1>6 DEF Founded

LEMMA FoundedStep == AllFounded /\ [BreachNext]_breachVars => AllFounded'
<1> SUFFICES ASSUME AllFounded, [BreachNext]_breachVars PROVE AllFounded'
  OBVIOUS
<1> USE DEF AllFounded, outside, breachGhosts
<1>1. ASSUME BreachCheckBegin PROVE AllFounded'
  <2>1. Founded(check.new)' /\ InProgress' /\ check'.phase \in {"fetch", "store"}
    <3>1. CASE Wanted = {}
      BY <1>1, <3>1 DEF BreachCheckBegin, Founded, InProgress
    <3>2. CASE Wanted # {}
      BY <1>1, <3>2 DEF BreachCheckBegin, Founded, InProgress, Uninformative
    <3> QED
      BY <3>1, <3>2
  <2> QED
    BY <1>1, <2>1 DEF BreachCheckBegin, Founded
<1>2. ASSUME NEW x \in Ranges, FetchRange(x) PROVE AllFounded'
  <2>1. check.phase = "fetch" /\ check # NoCheck
    BY <1>2 DEF FetchRange, NoCheck
  <2>2. UNCHANGED <<password, cache>>
    BY <1>2 DEF FetchRange
  <2>3. CASE /\ Refreshed(x, corpus \cap x, TRUE)
             /\ judged' = [p \in Passwords |-> IF p \notin x THEN judged[p]
                                               ELSE IF p \in corpus THEN "Breached" ELSE "NotBreached"]
    <3>1. /\ judged' = [p \in Passwords |-> judged'[p]]
          /\ \A p \in Passwords : judged[p] # "NotChecked" => judged'[p] # "NotChecked"
          /\ \A p \in x : judged'[p] # "NotChecked"
      BY <2>3 DEF Passwords
    <3>2. Founded(cache)'
      BY <2>2, <3>1 DEF Founded, Passwords
    <3>3. check'.phase \in {"fetch", "store"} /\ Founded(check.new)' /\ InProgress'
      BY <2>1, <2>3, <3>1, OneMore
    <3> QED
      BY <2>2, <3>1, <3>2, <3>3
  <2>4. CASE Refreshed(x, Garbage, TRUE) /\ UNCHANGED judged
    <3>1. check'.phase \in {"fetch", "store"} /\ Founded(check.new)' /\ InProgress'
      BY <2>1, <2>4, OneMore DEF Uninformative
    <3> QED
      BY <2>2, <2>4, <3>1 DEF Founded
  <2> QED
    BY <1>2, <2>3, <2>4 DEF FetchRange
<1>3. ASSUME NEW x \in Ranges, FetchFails(x) PROVE AllFounded'
  <2>1. check.phase = "fetch" /\ check # NoCheck
    BY <1>3 DEF FetchFails, NoCheck
  <2>5. Refreshed(x, cache[x], FALSE)
    BY <1>3, Zenon DEF FetchFails
  <2>2. UNCHANGED <<password, cache, judged>>
    BY <1>3 DEF FetchFails
  <2>3. cache[x] \notin Uninformative => \A p \in x : judged'[p] # "NotChecked"
    BY <2>2 DEF Founded
  <2>4. check'.phase \in {"fetch", "store"} /\ Founded(check.new)' /\ InProgress'
    BY <2>1, <2>2, <2>3, <2>5, OneMore
  <2> QED
    BY <2>2, <2>4 DEF Founded
<1>4. ASSUME StoreCache PROVE AllFounded'
  <2>1. check # NoCheck /\ cache' = check.new /\ UNCHANGED <<password, judged>>
    BY <1>4 DEF StoreCache, NoCheck
  <2>2. CASE check' = [check EXCEPT !.phase = "stamp"]
    <3>1. check' = [phase |-> "stamp", left |-> check.left, fetched |-> check.fetched,
                    now |-> check.now, new |-> check.new]
      BY <2>1, <2>2 DEF InProgress
    <3> QED
      BY <2>1, <3>1 DEF Founded, InProgress
  <2>3. CASE check' = NoCheck
    BY <2>1, <2>3 DEF Founded
  <2> QED
    BY <1>4, <2>2, <2>3 DEF StoreCache
<1>5. ASSUME Stamp \/ BreachCut PROVE AllFounded'
  BY <1>5 DEF Stamp, BreachCut, Founded
<1>6. ASSUME NEW i \in Logins, NEW p \in Passwords \cup {Blank}, ChangePassword(i, p)
      PROVE  AllFounded'
  BY <1>6 DEF ChangePassword, Founded, InProgress
<1>7. ASSUME (\E p \in Passwords : Leaks(p)) \/ HourPasses \/ UNCHANGED breachVars
      PROVE  AllFounded'
  <2>1. UNCHANGED <<password, cache, check, judged>>
    BY <1>7 DEF Leaks, HourPasses, breachVars
  <2> QED
    BY <2>1 DEF Founded, InProgress
<1> QED
  BY <1>1, <1>2, <1>3, <1>4, <1>5, <1>6, <1>7 DEF BreachNext

\* refresh, security_breach_check and CachedOnly: whatever fails, is cut, or was
\* fetched for another password of the range, the report calls a password safe or
\* breached only on the word of a body that was fetched for its range.
THEOREM NotCheckedIsNeverSafe == BreachSpec => []NeverSafeUnchecked
<1>1. BreachInit => AllFounded
  BY FoundedInit
<1>2. AllFounded /\ [BreachNext]_breachVars => AllFounded'
  BY FoundedStep
<1>3. AllFounded => NeverSafeUnchecked
  BY FoundedIsChecked
<1> QED
  BY <1>1, <1>2, <1>3, PTL DEF BreachSpec

-----------------------------------------------------------------------------
(* What was breached stays so, and the interval between checks.            *)

\* The passwords body holds have leaked, and are of range x.
Leaked(x, body) == body \notin Uninformative => body \subseteq corpus \cap x

\* Of range x, the body now says no less than the one before.
NoLess(now, before) ==
    now = Garbage \/ before \in Uninformative \/ (now \notin Uninformative /\ before \subseteq now)

\* The inductive invariant.  Bodies are of their range and of what leaked, and the
\* cache a check is building says no less of the ranges it is done with.
Retained ==
    /\ \A x \in Ranges : Leaked(x, cache[x])
    /\ check # NoCheck =>
         /\ \A x \in Ranges : Leaked(x, check.new[x])
         /\ check.phase = "store" => check.left = {}
         /\ check.phase \in {"fetch", "store"} =>
              \A x \in Wanted \ check.left : NoLess(check.new[x], cache[x])

\* The inductive invariant of the dates: the stamp is that of the last check that
\* reached the service, unless that check still has to leave it or was cut.
DatedByStamp ==
    /\ ~unstamped => lastRun = stamp
    /\ check # NoCheck /\ check.fetched => lastRun = check.now
    /\ check # NoCheck /\ check.phase = "stamp" => check.fetched

LEMMA WantedIsRange == AllFounded => Wanted \subseteq Ranges
  BY PrefixHolds DEF AllFounded, Wanted, Holding

LEMMA RetainedInit == BreachInit => Retained /\ DatedByStamp
  BY DEF BreachInit, Retained, DatedByStamp, Leaked, Uninformative

\* What the service says of a range is no mark for a body that is not there.
LEMMA BodyInforms == \A x \in Ranges : corpus \cap x \notin Uninformative
<1> SUFFICES ASSUME NEW x \in Ranges PROVE corpus \cap x \notin Uninformative
  OBVIOUS
<1>1. "missing" \notin x /\ "garbage" \notin x
  BY BreachAssumption
<1> QED
  BY <1>1 DEF Uninformative, Missing, Garbage

\* One more range is done: of the others nothing changes.
LEMMA OneMoreRetained ==
    ASSUME AllFounded, Retained, DatedByStamp, check # NoCheck, check.phase = "fetch",
           NEW x \in check.left, x \in Ranges,
           NEW body, NEW ok \in BOOLEAN, Refreshed(x, body, ok),
           UNCHANGED <<password, corpus, cache, stamp>>,
           Leaked(x, body), NoLess(body, cache[x]),
           ok => lastRun' = check.now /\ unstamped' = TRUE,
           ~ok => lastRun' = lastRun /\ unstamped' = unstamped
    PROVE  Retained' /\ DatedByStamp'
<1>1. check' = [phase |-> IF check.left = {x} THEN "store" ELSE "fetch",
                left |-> check.left \ {x}, fetched |-> check.fetched \/ ok,
                now |-> check.now, new |-> [check.new EXCEPT ![x] = body]]
  BY DEF Refreshed, AllFounded, InProgress
<1>2. /\ check'.new = [check.new EXCEPT ![x] = body] /\ check'.left = check.left \ {x}
      /\ check'.phase = IF check.left = {x} THEN "store" ELSE "fetch"
      /\ check'.fetched = (check.fetched \/ ok) /\ check'.now = check.now
  BY <1>1
<1>3. /\ check'.new[x] = body
      /\ \A y \in Ranges \ {x} : check'.new[y] = check.new[y]
  BY <1>2 DEF AllFounded, Founded
<1>4. Wanted' = Wanted
  BY Zenon DEF Wanted, Holding
<1>5. \A y \in Ranges : Leaked(y, cache[y])' /\ Leaked(y, check.new[y])'
  <2> SUFFICES ASSUME NEW y \in Ranges PROVE Leaked(y, cache[y])' /\ Leaked(y, check.new[y])'
    OBVIOUS
  <2>1. Leaked(y, cache[y]) /\ Leaked(y, check.new[y])
    BY DEF Retained
  <2> QED
    BY <2>1, <1>3 DEF Leaked
<1>6. check'.phase = "store" => check'.left = {}
  BY <1>2
<1>7. ASSUME NEW y \in Wanted \ check'.left PROVE NoLess(check'.new[y], cache[y])
  <2>1. y \in Ranges
    BY WantedIsRange
  <2>2. CASE y = x
    BY <2>2, <1>3
  <2>3. CASE y # x
    <3>1. NoLess(check.new[y], cache[y])
      BY <2>3, <1>2 DEF Retained
    <3> QED
      BY <2>1, <2>3, <3>1, <1>3
  <2> QED
    BY <2>2, <2>3
<1>8. Retained'
  BY <1>4, <1>5, <1>6, <1>7 DEF Retained, NoLess
<1>9. DatedByStamp'
  <2>1. check'.phase # "stamp"
    BY <1>2
  <2>2. check'.fetched => lastRun' = check'.now
    BY <1>2 DEF DatedByStamp
  <2>3. ~unstamped' => lastRun' = stamp'
    BY DEF DatedByStamp
  <2> QED
    BY <2>1, <2>2, <2>3 DEF DatedByStamp
<1> QED
  BY <1>8, <1>9

LEMMA BeginRetained ==
    ASSUME AllFounded, Retained, DatedByStamp, BreachCheckBegin
    PROVE  Retained' /\ DatedByStamp'
<1>1. /\ check = NoCheck /\ UNCHANGED <<password, corpus, cache, stamp, lastRun, unstamped>>
      /\ check' = [phase |-> IF Wanted = {} THEN "store" ELSE "fetch",
                   left |-> Wanted, fetched |-> FALSE, now |-> hour,
                   new |-> IF Wanted = {} THEN cache ELSE [x \in Ranges |-> Missing]]
  BY Zenon DEF BreachCheckBegin, outside, breachGhosts
<1>2. /\ check'.phase = IF Wanted = {} THEN "store" ELSE "fetch"
      /\ check'.left = Wanted /\ check'.fetched = FALSE
      /\ check'.new = IF Wanted = {} THEN cache ELSE [x \in Ranges |-> Missing]
  BY <1>1
<1>3. Wanted' = Wanted
  BY <1>1, Zenon DEF Wanted, Holding
<1>4. \A y \in Ranges : Leaked(y, cache[y])' /\ Leaked(y, check.new[y])'
  BY <1>1, <1>2 DEF Retained, Leaked, Uninformative
<1>5. Retained'
  BY <1>2, <1>3, <1>4 DEF Retained
<1>6. DatedByStamp'
  BY <1>1, <1>2 DEF DatedByStamp
<1> QED
  BY <1>5, <1>6

LEMMA StoreRetained ==
    ASSUME AllFounded, Retained, DatedByStamp, StoreCache
    PROVE  Retained' /\ DatedByStamp'
<1>1. /\ check # NoCheck /\ check.phase = "store" /\ cache' = check.new
      /\ UNCHANGED <<password, corpus, stamp, lastRun, unstamped>>
      /\ check' = IF check.fetched THEN [check EXCEPT !.phase = "stamp"] ELSE NoCheck
  BY DEF StoreCache, outside, breachGhosts, NoCheck
<1>2. \A y \in Ranges : Leaked(y, cache[y])'
  BY <1>1 DEF Retained, Leaked
<1>3. CASE check.fetched
  <2>1. check' = [phase |-> "stamp", left |-> check.left, fetched |-> check.fetched,
                  now |-> check.now, new |-> check.new]
    BY <1>1, <1>3 DEF AllFounded, InProgress
  <2>2. /\ check'.phase = "stamp" /\ check'.fetched = check.fetched
        /\ check'.now = check.now /\ check'.new = check.new
    BY <2>1
  <2>3. \A y \in Ranges : Leaked(y, check.new[y])'
    BY <1>1, <2>2 DEF Retained, Leaked
  <2>4. Retained'
    BY <1>2, <2>2, <2>3 DEF Retained
  <2>5. DatedByStamp'
    BY <1>1, <1>3, <2>2 DEF DatedByStamp
  <2> QED
    BY <2>4, <2>5
<1>4. CASE ~check.fetched
  BY <1>1, <1>2, <1>4 DEF Retained, DatedByStamp
<1> QED
  BY <1>3, <1>4

LEMMA RetainedStep ==
    ASSUME AllFounded, Retained, DatedByStamp, [BreachNext]_breachVars
    PROVE  Retained' /\ DatedByStamp'
<1> USE DEF outside, breachGhosts
<1>1. ASSUME NEW x \in Ranges, FetchRange(x) PROVE Retained' /\ DatedByStamp'
  <2>1. check.phase = "fetch" /\ check # NoCheck /\ x \in check.left
    BY <1>1 DEF FetchRange, NoCheck
  <2>2. /\ UNCHANGED <<password, corpus, cache, stamp>>
        /\ lastRun' = check.now /\ unstamped' = TRUE
    BY <1>1, Zenon DEF FetchRange
  <2>3. Refreshed(x, corpus \cap x, TRUE) \/ Refreshed(x, Garbage, TRUE)
    BY <1>1, Zenon DEF FetchRange
  <2>4. Leaked(x, corpus \cap x) /\ NoLess(corpus \cap x, cache[x])
    BY BodyInforms DEF Retained, Leaked, NoLess
  <2>5. Leaked(x, Garbage) /\ NoLess(Garbage, cache[x])
    BY DEF Leaked, NoLess, Uninformative
  <2> QED
    BY <2>1, <2>2, <2>3, <2>4, <2>5, OneMoreRetained
<1>2. ASSUME NEW x \in Ranges, FetchFails(x) PROVE Retained' /\ DatedByStamp'
  <2>1. check.phase = "fetch" /\ check # NoCheck /\ x \in check.left
    BY <1>2 DEF FetchFails, NoCheck
  <2>2. /\ UNCHANGED <<password, corpus, cache, stamp, lastRun, unstamped>>
        /\ Refreshed(x, cache[x], FALSE)
    BY <1>2, Zenon DEF FetchFails
  <2>3. Leaked(x, cache[x]) /\ NoLess(cache[x], cache[x])
    BY DEF Retained, NoLess
  <2> QED
    BY <2>1, <2>2, <2>3, OneMoreRetained
<1>3. ASSUME Stamp PROVE Retained' /\ DatedByStamp'
  <2>1. check # NoCheck /\ check.phase = "stamp"
    BY <1>3 DEF Stamp, NoCheck
  <2>2. /\ check' = NoCheck /\ stamp' = check.now /\ unstamped' = FALSE
        /\ UNCHANGED <<corpus, cache, lastRun>>
    BY <1>3, Zenon DEF Stamp
  <2>3. lastRun = check.now
    BY <2>1 DEF DatedByStamp
  <2> QED
    BY <2>2, <2>3, Zenon DEF Retained, DatedByStamp, Leaked
<1>4. ASSUME BreachCut PROVE Retained' /\ DatedByStamp'
  BY <1>4, Zenon DEF BreachCut, Retained, DatedByStamp, Leaked
<1>5. ASSUME NEW i \in Logins, NEW p \in Passwords \cup {Blank}, ChangePassword(i, p)
      PROVE  Retained' /\ DatedByStamp'
  BY <1>5, Zenon DEF ChangePassword, Retained, DatedByStamp, Leaked
<1>6. ASSUME NEW p \in Passwords, Leaks(p) PROVE Retained' /\ DatedByStamp'
  <2>1. /\ corpus' = corpus \cup {p}
        /\ UNCHANGED <<password, cache, check, stamp, lastRun, unstamped>>
    BY <1>6, Zenon DEF Leaks
  <2>2. \A x \in Ranges : \A body : Leaked(x, body) => Leaked(x, body)'
    BY <2>1 DEF Leaked
  <2>3. Wanted' = Wanted
    BY <2>1, Zenon DEF Wanted, Holding
  <2>4. \A x \in Ranges : /\ Leaked(x, cache[x]) => Leaked(x, cache[x])'
                          /\ Leaked(x, check.new[x]) => Leaked(x, check.new[x])'
    BY <2>1 DEF Leaked
  <2>5. Retained'
    BY <2>1, <2>3, <2>4 DEF Retained, NoLess
  <2> QED
    BY <2>1, <2>5, Zenon DEF DatedByStamp
<1>7. ASSUME HourPasses \/ UNCHANGED breachVars PROVE Retained' /\ DatedByStamp'
  <2>1. UNCHANGED <<password, corpus, cache, check, stamp, lastRun, unstamped>>
    BY <1>7, Zenon DEF HourPasses, breachVars
  <2>2. Wanted' = Wanted
    BY <2>1, Zenon DEF Wanted, Holding
  <2> QED
    BY <2>1, <2>2, Zenon DEF Retained, DatedByStamp, Leaked, NoLess
<1> QED
  BY <1>1, <1>2, <1>3, <1>4, <1>5, <1>6, <1>7, BeginRetained, StoreRetained, Zenon DEF BreachNext

LEMMA RetainedAlways == BreachSpec => [](AllFounded /\ Retained /\ DatedByStamp)
<1>1. BreachInit => AllFounded /\ Retained /\ DatedByStamp
  BY FoundedInit, RetainedInit
<1>2. (AllFounded /\ Retained /\ DatedByStamp) /\ [BreachNext]_breachVars
      => (AllFounded /\ Retained /\ DatedByStamp)'
  BY FoundedStep, RetainedStep
<1> QED
  BY <1>1, <1>2, PTL DEF BreachSpec

\* Only app_cache_put changes what the report reads, and it puts a cache that says
\* no less of the passwords in use.
LEMMA BreachedStep ==
    ASSUME AllFounded, Retained, [BreachNext]_breachVars,
           NEW i \in breached, password'[i] = password[i]
    PROVE  i \in breached' \/ cache'[Prefix(password[i])] = Garbage
<1> DEFINE x == Prefix(password[i])
<1>1. i \in Logins /\ password[i] # Blank /\ StatusOf(i) = "Breached"
  BY DEF breached, Holding
<1>2. password[i] \in Passwords /\ x \in Ranges
  BY <1>1, PrefixHolds DEF AllFounded
<1>3. cache[x] \notin Uninformative /\ password[i] \in cache[x]
  BY <1>1 DEF StatusOf, Status, Uninformative
<1>4. ASSUME cache'[x] \notin Uninformative, cache[x] \subseteq cache'[x]
      PROVE  i \in breached'
  <2>1. i \in Holding'
    BY <1>1 DEF Holding
  <2>2. StatusOf(i)' = "Breached"
    BY <1>3, <1>4 DEF StatusOf, Status, Uninformative
  <2> QED
    BY <2>1, <2>2 DEF breached
<1>5. CASE StoreCache
  <2>1. check # NoCheck /\ check.phase = "store" /\ cache' = check.new
    BY <1>5 DEF StoreCache, NoCheck
  <2>2. x \in Wanted \ check.left
    BY <1>1, <2>1 DEF Wanted, Holding, Retained
  <2>3. NoLess(check.new[x], cache[x])
    BY <2>1, <2>2, Zenon DEF Retained
  <2> QED
    BY <1>3, <1>4, <2>1, <2>3, Zenon DEF NoLess
<1>6. CASE ~StoreCache
  <2>1. cache' = cache
    BY <1>6, Zenon DEF BreachNext, BreachCheckBegin, Stamp, BreachCut, FetchRange, FetchFails,
                       ChangePassword, Leaks, HourPasses, breachVars
  <2> QED
    BY <1>3, <1>4, <2>1
<1> QED
  BY <1>5, <1>6

\* refresh, which starts over from nothing and keeps the body of a range it cannot
\* reach, and app_cache_put: through checks that fail in part or are cut, an item that
\* is reported breached stays so, while its password stays and the service answers
\* with range bodies.
THEOREM OnceBreachedAlwaysBreached == BreachSpec => BreachedStays
<1>1. (AllFounded /\ Retained /\ DatedByStamp) /\ [BreachNext]_breachVars
      => [\A i \in breached : password'[i] = password[i] =>
             i \in breached' \/ cache'[Prefix(password[i])] = Garbage]_breachVars
  BY BreachedStep
<1> QED
  BY <1>1, RetainedAlways, PTL DEF BreachSpec, BreachedStays

\* may_refresh and state_set_i64: however checks fail, and wherever they are cut, a
\* check begins no sooner than the interval after the last that reached the service,
\* unless that one was cut before its stamp.
THEOREM ChecksKeepTheirDistance == BreachSpec => ChecksAreADayApart
<1>1. ASSUME DatedByStamp, [BreachNext]_breachVars, check = NoCheck, check' # NoCheck, ~unstamped
      PROVE  hour - lastRun >= MIN_INTERVAL
  <2>1. BreachCheckBegin
    BY <1>1 DEF BreachNext, breachVars, StoreCache, Stamp, BreachCut, FetchRange, FetchFails,
                ChangePassword, Leaks, HourPasses, NoCheck
  <2>2. hour - stamp >= MIN_INTERVAL
    BY <2>1, Zenon DEF BreachCheckBegin, may_refresh
  <2>3. lastRun = stamp
    BY <1>1, Zenon DEF DatedByStamp
  <2> QED
    BY <2>2, <2>3
<1>2. (AllFounded /\ Retained /\ DatedByStamp) /\ [BreachNext]_breachVars
      => [check = NoCheck /\ check' # NoCheck /\ ~unstamped
             => hour - lastRun >= MIN_INTERVAL]_breachVars
  BY <1>1
<1> QED
  BY <1>2, RetainedAlways, PTL DEF BreachSpec, ChecksAreADayApart

-----------------------------------------------------------------------------
(* Updates: what is installed and what runs.                               *)

\* What is installed, and what is being downloaded, is no older than what runs.
Forward ==
    /\ current \in Builds /\ installed \in Builds
    /\ installed >= current
    /\ served \in Builds \cup {Odd}
    /\ call = [c \in Calls |-> call[c]]
    /\ \A c \in Calls : Waiting(c, "download") => /\ call[c].build \in Builds
                                                  /\ call[c].build > current

LEMMA ForwardInit == UpdateInit => Forward
  BY UpdateAssumption DEF UpdateInit, Forward, Waiting, NoCall

LEMMA ForwardStep == Forward /\ [UpdateNext]_updateVars => Forward'
<1> SUFFICES ASSUME Forward, [UpdateNext]_updateVars PROVE Forward'
  OBVIOUS
<1> USE UpdateAssumption DEF Forward, Waiting, releases
<1>1. ASSUME NEW c \in Calls, CheckBegin(c) PROVE Forward'
  BY <1>1 DEF CheckBegin
<1>2. ASSUME NEW c \in Calls, CheckFailed(c) \/ StampCheck(c) \/ StampCheckFails(c) PROVE Forward'
  BY <1>2 DEF CheckFailed, StampCheck, StampCheckFails, NoCall
<1>10. ASSUME NEW c \in Calls, CheckAnswered(c) PROVE Forward'
  BY <1>10 DEF CheckAnswered
<1>3. ASSUME NEW c \in Calls, InstallBegin(c) PROVE Forward'
  BY <1>3 DEF InstallBegin
<1>4. ASSUME NEW c \in Calls, InstallAnswered(c) PROVE Forward'
  <2>1. CASE offerable(served)
    <3>1. call' = [call EXCEPT ![c] = [waits |-> "download", build |-> served]]
      BY <1>4, <2>1 DEF InstallAnswered
    <3>2. served \in Builds /\ served > current
      BY <2>1 DEF offerable
    <3> QED
      BY <1>4, <3>1, <3>2 DEF InstallAnswered
  <2>2. CASE ~offerable(served)
    BY <1>4, <2>2 DEF InstallAnswered, NoCall
  <2> QED
    BY <2>1, <2>2
<1>5. ASSUME NEW c \in Calls, InstallDone(c) PROVE Forward'
  BY <1>5 DEF InstallDone, NoCall
<1>6. ASSUME NEW c \in Calls, InstallFailed(c) PROVE Forward'
  BY <1>6 DEF InstallFailed, NoCall
<1>7. ASSUME Relaunch PROVE Forward'
  BY <1>7 DEF Relaunch, NoCall
<1>8. ASSUME NEW b \in Builds \cup {Odd}, Serve(b) PROVE Forward'
  BY <1>8 DEF Serve
<1>9. ASSUME \/ \E value \in BOOLEAN : SetEnabled(value)
             \/ NewVault \/ ClockTicks \/ ClockTurnedBack
             \/ UNCHANGED updateVars
      PROVE Forward'
  BY <1>9 DEF SetEnabled, NewVault, ClockTicks, ClockTurnedBack, updateVars
<1> QED
  BY <1>1, <1>2, <1>3, <1>4, <1>5, <1>6, <1>7, <1>8, <1>9, <1>10 DEF UpdateNext

\* Only a relaunch changes what runs, and it runs what is installed.
LEMMA RunsForward == Forward /\ [UpdateNext]_updateVars => current' >= current
<1> SUFFICES ASSUME Forward, [UpdateNext]_updateVars PROVE current' >= current
  OBVIOUS
<1>1. current \in Int /\ installed >= current
  BY UpdateAssumption DEF Forward
<1>2. current' = current \/ current' = installed
  BY DEF UpdateNext, updateVars, releases, CheckBegin, CheckAnswered, CheckFailed, StampCheck,
         StampCheckFails, InstallBegin, InstallAnswered, InstallDone, InstallFailed, SetEnabled,
         NewVault, Relaunch, Serve, ClockTicks, ClockTurnedBack
<1> QED
  BY <1>1, <1>2

\* update_install and the guard `offerable': whatever the endpoint serves and however
\* installs overlap, the build that runs is never followed by an older one.
THEOREM NeverDowngraded == UpdateSpec => NeverOlder
<1>1. UpdateInit => Forward
  BY ForwardInit
<1>2. Forward /\ [UpdateNext]_updateVars => Forward'
  BY ForwardStep
<1>3. Forward /\ [UpdateNext]_updateVars => [current' >= current]_updateVars
  BY RunsForward
<1> QED
  BY <1>1, <1>2, <1>3, PTL DEF UpdateSpec, NeverOlder

-----------------------------------------------------------------------------
(* The interval between checks.                                            *)

\* What a check in flight noted when it began: the time, and a reading of the clock
\* that was set back no further than it is by now.
Begun(c) ==
    /\ call[c].at \in Int /\ call[c].now \in Int
    /\ call[c].at <= time /\ call[c].at <= call[c].now + slow

\* The inductive invariant.  While checks come one at a time and their answers are
\* stamped, the stamp lies no further back than the last answer, as far as the clock
\* allows, and a check in flight began after it.
Spaced ==
    /\ time \in Int /\ slow \in {0, 1} /\ checked \in Int /\ answered \in Int
    /\ answered <= time
    /\ call = [c \in Calls |-> call[c]]
    /\ \A c \in Calls : Checking(c) => Begun(c)
    /\ ~loose =>
         /\ (\A c \in Calls : ~Waiting(c, "stamp")) => answered <= checked + slow
         /\ \A c \in Calls : Checking(c) => answered <= call[c].at
         /\ \A c, d \in Calls : Checking(c) /\ Checking(d) => c = d

LEMMA SpacedInit == UpdateInit => Spaced
<1> SUFFICES ASSUME UpdateInit PROVE Spaced
  OBVIOUS
<1>1. /\ time = 0 /\ slow = 0 /\ checked = Unchecked /\ answered = Unchecked
      /\ call = [c \in Calls |-> NoCall]
  BY Zenon DEF UpdateInit
<1>2. Unchecked \in Int /\ Unchecked <= 0
  BY UpdateAssumption DEF Unchecked
<1>3. \A c \in Calls : ~Checking(c)
  BY <1>1 DEF Checking, Waiting, NoCall
<1> QED
  BY <1>1, <1>2, <1>3 DEF Spaced

\* Calls that end or start to wait for something other than the endpoint's answer.
LEMMA SpacedWithout ==
    ASSUME Spaced, UNCHANGED <<checked, answered, loose, time, slow>>,
           call' = [c \in Calls |-> call'[c]],
           \A c \in Calls : Checking(c)' => call'[c] = call[c],
           \A c \in Calls : Waiting(c, "stamp") => call'[c] = call[c]
    PROVE  Spaced'
<1>1. \A c \in Calls : Checking(c)' => Checking(c)
  BY Zenon DEF Checking, Waiting
<1>2. \A c \in Calls : Checking(c)' => Begun(c)'
  <2> SUFFICES ASSUME NEW c \in Calls, Checking(c)' PROVE Begun(c)'
    OBVIOUS
  <2>1. Begun(c) /\ call'[c] = call[c]
    BY <1>1, Zenon DEF Spaced
  <2> QED
    BY <2>1, Zenon DEF Begun
<1>3. \A c \in Calls : Waiting(c, "stamp") => Waiting(c, "stamp")'
  BY Zenon DEF Waiting
<1> QED
  BY <1>1, <1>2, <1>3, Zenon DEF Spaced

LEMMA CheckBeginSpaced ==
    ASSUME Spaced, NEW c \in Calls, CheckBegin(c)
    PROVE  Spaced'
<1>1. /\ call' = [call EXCEPT ![c] = [waits |-> "manifest", now |-> Reads, at |-> time]]
      /\ loose' = (loose \/ \E d \in Calls : Checking(d))
      /\ UNCHANGED <<checked, answered, time, slow>>
  BY Zenon DEF CheckBegin, preferences, clock
<1>2. /\ time \in Int /\ slow \in {0, 1} /\ answered <= time
      /\ checked \in Int /\ answered \in Int /\ call = [d \in Calls |-> call[d]]
  BY DEF Spaced
<1>3. /\ call'[c] = [waits |-> "manifest", now |-> Reads, at |-> time]
      /\ \A d \in Calls \ {c} : call'[d] = call[d]
      /\ call' = [d \in Calls |-> call'[d]]
  BY <1>1, <1>2
<1>4. Begun(c)' /\ call'[c].at = time
  BY <1>1, <1>2, <1>3 DEF Begun, Reads
<1>5. ASSUME NEW d \in Calls, Checking(d)', d # c
      PROVE  Checking(d) /\ Begun(d)' /\ call'[d] = call[d]
  <2>1. call'[d] = call[d]
    BY <1>3, <1>5
  <2>2. Checking(d)
    BY <2>1, <1>5, Zenon DEF Checking, Waiting
  <2>3. Begun(d)
    BY <2>2, Zenon DEF Spaced
  <2> QED
    BY <1>1, <2>1, <2>2, <2>3, Zenon DEF Begun
<1>6. ASSUME ~loose'
      PROVE  /\ answered' <= checked' + slow'
             /\ \A d \in Calls : Checking(d)' => d = c
  <2>1. ~loose /\ ~\E d \in Calls : Checking(d)
    BY <1>1, <1>6
  <2>2. \A d \in Calls : ~Waiting(d, "stamp")
    BY <2>1, Zenon DEF Checking
  <2> QED
    BY <1>1, <1>5, <2>1, <2>2 DEF Spaced
<1>7. \A d \in Calls : Checking(d)' => Begun(d)'
  BY <1>4, <1>5
<1> QED
  BY <1>1, <1>2, <1>3, <1>4, <1>6, <1>7 DEF Spaced

\* A call in flight that is not the one that steps.
LEMMA OtherCheck ==
    ASSUME Spaced, NEW c \in Calls, NEW to, call' = [call EXCEPT ![c] = to],
           time' = time, slow' = slow, NEW d \in Calls, d # c
    PROVE  /\ call'[d] = call[d] /\ Checking(d)' = Checking(d)
           /\ Waiting(d, "stamp")' = Waiting(d, "stamp")
           /\ Checking(d) => Begun(d)'
<1>1. call'[d] = call[d]
  BY DEF Spaced
<1>2. Checking(d)' = Checking(d) /\ Waiting(d, "stamp")' = Waiting(d, "stamp")
  BY <1>1, Zenon DEF Checking, Waiting
<1>3. Checking(d) => Begun(d)
  BY Zenon DEF Spaced
<1>4. Begun(d)' = Begun(d)
  BY <1>1, Zenon DEF Begun
<1> QED
  BY <1>1, <1>2, <1>3, <1>4, Zenon

LEMMA CheckAnsweredSpaced ==
    ASSUME Spaced, NEW c \in Calls, CheckAnswered(c)
    PROVE  Spaced'
<1> DEFINE to == [call[c] EXCEPT !.waits = "stamp"]
<1>1. /\ call' = [call EXCEPT ![c] = to]
      /\ answered' = IF call[c].at > answered THEN call[c].at ELSE answered
      /\ UNCHANGED <<checked, loose, time, slow>>
  BY DEF CheckAnswered, preferences, clock
<1>2. Checking(c) /\ Begun(c)
  BY Zenon DEF CheckAnswered, Checking, Spaced
<1>3. /\ time \in Int /\ slow \in {0, 1} /\ answered <= time
      /\ checked \in Int /\ answered \in Int /\ call = [d \in Calls |-> call[d]]
  BY DEF Spaced
<1>4. /\ call' = [d \in Calls |-> call'[d]]
      /\ call'[c] = to /\ to.at = call[c].at /\ to.now = call[c].now /\ to.waits = "stamp"
  BY <1>1, <1>3
<1> HIDE DEF to
<1>5. \A d \in Calls : d # c =>
         /\ call'[d] = call[d] /\ Checking(d)' = Checking(d) /\ (Checking(d) => Begun(d)')
  BY <1>1, OtherCheck, Zenon
<1>6. Begun(c)' /\ Waiting(c, "stamp")'
  BY <1>1, <1>2, <1>4 DEF Begun, Waiting
<1>7. answered' \in Int /\ answered' <= time
  BY <1>1, <1>2, <1>3 DEF Begun
<1>8. ASSUME ~loose'
      PROVE  answered' = call'[c].at /\ \A d \in Calls : Checking(d)' => d = c
  <2>1. answered <= call[c].at /\ \A d \in Calls : Checking(d) => d = c
    BY <1>1, <1>2, <1>8, Zenon DEF Spaced
  <2>2. answered' = call'[c].at
    BY <1>1, <1>2, <1>3, <1>4, <2>1 DEF Begun
  <2> QED
    BY <1>5, <2>1, <2>2, Zenon
<1>9. \A d \in Calls : Checking(d)' => Begun(d)'
  BY <1>5, <1>6, Zenon
<1>10. ~loose' =>
         /\ (\A d \in Calls : ~Waiting(d, "stamp")') => answered' <= checked' + slow'
         /\ \A d \in Calls : Checking(d)' => answered' <= call'[d].at
         /\ \A d, e \in Calls : Checking(d)' /\ Checking(e)' => d = e
  <2> SUFFICES ASSUME ~loose'
               PROVE  /\ \A d \in Calls : Checking(d)' => answered' <= call'[d].at
                      /\ \A d, e \in Calls : Checking(d)' /\ Checking(e)' => d = e
    BY <1>6, Zenon
  <2>1. answered' <= answered'
    BY <1>7
  <2> QED
    BY <1>8, <2>1, Zenon
<1> QED
  BY <1>1, <1>3, <1>4, <1>7, <1>9, <1>10 DEF Spaced

\* The check is over: stamped, or not.
LEMMA StampSpaced ==
    ASSUME Spaced, NEW c \in Calls, StampCheck(c) \/ StampCheckFails(c)
    PROVE  Spaced'
<1>1. /\ call' = [call EXCEPT ![c] = NoCall]
      /\ checked' = call[c].now \/ (checked' = checked /\ loose')
      /\ loose => loose'
      /\ UNCHANGED <<answered, time, slow>>
  <2>1. CASE StampCheck(c)
    BY <2>1, Zenon DEF StampCheck, clock
  <2>2. CASE StampCheckFails(c)
    BY <2>2, Zenon DEF StampCheckFails, clock, preferences
  <2> QED
    BY <2>1, <2>2
<1>2. Checking(c) /\ Begun(c)
  BY Zenon DEF StampCheck, StampCheckFails, Checking, Spaced
<1>3. /\ time \in Int /\ slow \in {0, 1} /\ answered <= time
      /\ checked \in Int /\ answered \in Int /\ call = [d \in Calls |-> call[d]]
  BY DEF Spaced
<1>4. call' = [d \in Calls |-> call'[d]] /\ ~Checking(c)'
  BY <1>1, <1>3 DEF Checking, Waiting, NoCall
<1>5. \A d \in Calls : Checking(d)' => d # c /\ Checking(d) /\ Begun(d)'
  BY <1>1, <1>4, OtherCheck, Zenon
<1>6. checked' \in Int
  BY <1>1, <1>2, <1>3 DEF Begun
<1>7. ASSUME ~loose'
      PROVE  answered' <= checked' + slow' /\ \A d \in Calls : ~Checking(d)'
  <2>1. ~loose /\ checked' = call[c].now
    BY <1>1, <1>7, Zenon
  <2>2. answered <= call[c].at /\ \A d \in Calls : Checking(d) => d = c
    BY <2>1, <1>2, Zenon DEF Spaced
  <2>3. answered' <= checked' + slow'
    BY <1>1, <1>2, <1>3, <2>1, <2>2 DEF Begun
  <2> QED
    BY <1>5, <2>2, <2>3, Zenon
<1> QED
  BY <1>1, <1>3, <1>4, <1>5, <1>6, <1>7 DEF Spaced

\* The clock goes on, or is set back for good.
LEMMA ClockSpaced ==
    ASSUME Spaced, ClockTicks \/ ClockTurnedBack
    PROVE  Spaced'
<1>1. /\ UNCHANGED <<checked, answered, loose, call>>
      /\ \/ time' = time + 1 /\ slow' = slow
         \/ time' = time /\ slow = 0 /\ slow' = 1
  BY Zenon DEF ClockTicks, ClockTurnedBack, preferences, updateGhosts
<1>2. /\ time' \in Int /\ slow' \in {0, 1} /\ time' >= time /\ slow' >= slow
      /\ answered <= time'
  BY <1>1 DEF Spaced
<1>3. \A c \in Calls : Checking(c) => Begun(c)'
  <2> SUFFICES ASSUME NEW c \in Calls, Checking(c) PROVE Begun(c)'
    OBVIOUS
  <2>1. Begun(c)
    BY Zenon DEF Spaced
  <2> QED
    BY <1>1, <1>2, <2>1 DEF Begun, Spaced
<1>4. ~loose /\ (\A c \in Calls : ~Waiting(c, "stamp")) => answered <= checked + slow'
  BY <1>2 DEF Spaced
<1> QED
  BY <1>1, <1>2, <1>3, <1>4, Zenon DEF Spaced, Waiting, Checking

LEMMA SpacedStep == Spaced /\ [UpdateNext]_updateVars => Spaced'
<1> SUFFICES ASSUME Spaced, [UpdateNext]_updateVars PROVE Spaced'
  OBVIOUS
<1> USE DEF preferences, releases, clock, updateGhosts
<1>1. \A c \in Calls : CheckBegin(c) \/ CheckAnswered(c) \/ StampCheck(c) \/ StampCheckFails(c) => Spaced'
  BY CheckBeginSpaced, CheckAnsweredSpaced, StampSpaced, Zenon
<1>2. ASSUME NEW c \in Calls,
             \/ CheckFailed(c) \/ InstallBegin(c) \/ InstallAnswered(c) \/ InstallDone(c)
             \/ InstallFailed(c)
      PROVE  Spaced'
  <2>1. UNCHANGED <<checked, answered, loose, time, slow>>
    BY <1>2, Zenon DEF CheckFailed, InstallBegin, InstallAnswered, InstallDone, InstallFailed
  <2>2. /\ ~Waiting(c, "stamp")
        /\ \E to : call' = [call EXCEPT ![c] = to] /\ to.waits \notin {"manifest", "stamp"}
    BY <1>2 DEF CheckFailed, InstallBegin, InstallAnswered, InstallDone, InstallFailed, NoCall,
                Waiting
  <2>3. /\ call' = [d \in Calls |-> call'[d]]
        /\ \A d \in Calls : Checking(d)' => call'[d] = call[d]
        /\ \A d \in Calls : Waiting(d, "stamp") => call'[d] = call[d]
    BY <2>2 DEF Spaced, Waiting, Checking
  <2> QED
    BY <2>1, <2>3, SpacedWithout
<1>3. ASSUME Relaunch PROVE Spaced'
  <2>1. /\ UNCHANGED <<checked, answered, time, slow>>
        /\ call' = [c \in Calls |-> NoCall]
        /\ loose' = (loose \/ \E c \in Calls : Waiting(c, "stamp"))
    BY <1>3, Zenon DEF Relaunch
  <2>2. call' = [d \in Calls |-> call'[d]] /\ \A d \in Calls : ~Checking(d)'
    BY <2>1 DEF Checking, Waiting, NoCall
  <2>3. ~loose' => ~loose /\ \A c \in Calls : ~Waiting(c, "stamp")
    BY <2>1, Zenon
  <2> QED
    BY <2>1, <2>2, <2>3 DEF Spaced
<1>4. ASSUME \/ \E value \in BOOLEAN : SetEnabled(value)
             \/ \E b \in Builds \cup {Odd} : Serve(b)
             \/ UNCHANGED updateVars
      PROVE  Spaced'
  <2>1. UNCHANGED <<checked, answered, loose, time, slow, call>>
    BY <1>4, Zenon DEF SetEnabled, Serve, updateVars
  <2> QED
    BY <2>1, SpacedWithout, Zenon DEF Spaced, Checking, Waiting
<1>5. ASSUME NewVault PROVE Spaced'
  <2>1. /\ UNCHANGED <<answered, time, slow, call>>
        /\ checked' = Unchecked /\ loose' = (loose \/ answered # Unchecked)
    BY <1>5, Zenon DEF NewVault
  <2>2. Unchecked \in Int
    BY UpdateAssumption DEF Unchecked
  <2>3. ~loose' => answered <= checked' + slow
    <3>1. ~loose' => answered = Unchecked
      BY <2>1, Zenon
    <3>2. answered \in Int /\ slow \in {0, 1}
      BY DEF Spaced
    <3> QED
      BY <2>1, <2>2, <3>1, <3>2
  <2>4. \A c \in Calls : (Checking(c)' <=> Checking(c)) /\ (Begun(c)' <=> Begun(c))
    BY <2>1, Zenon DEF Checking, Waiting, Begun
  <2> QED
    BY <2>1, <2>2, <2>3, <2>4 DEF Spaced
<1> QED
  BY <1>1, <1>2, <1>3, <1>4, <1>5, ClockSpaced, Zenon DEF UpdateNext

\* Only update_check begins to wait for the manifest, and what it decides by is the
\* clock and the stamp.
LEMMA BeginsAfterInterval ==
    ASSUME Spaced, [UpdateNext]_updateVars, NEW c \in Calls,
           ~Waiting(c, "manifest"), call'[c].waits = "manifest", ~loose'
    PROVE  time - answered >= UPDATE_INTERVAL
<1>0. call = [d \in Calls |-> call[d]]
  BY DEF Spaced
<1>1. ASSUME NEW d \in Calls, CheckBegin(d) PROVE time - answered >= UPDATE_INTERVAL
  <2>1. Reads - checked >= UPDATE_INTERVAL /\ ~loose /\ ~\E e \in Calls : Checking(e)
    BY <1>1, Zenon DEF CheckBegin, DecideCheck
  <2>2. \A e \in Calls : ~Waiting(e, "stamp")
    BY <2>1, Zenon DEF Checking
  <2> QED
    BY <2>1, <2>2, UpdateAssumption DEF Spaced, Reads
<1> USE DEF Waiting
<1>2. ASSUME NEW d \in Calls,
             \/ CheckAnswered(d) \/ CheckFailed(d) \/ StampCheck(d) \/ StampCheckFails(d)
             \/ InstallBegin(d) \/ InstallAnswered(d) \/ InstallDone(d) \/ InstallFailed(d)
      PROVE  FALSE
  <2>1. \E to : call' = [call EXCEPT ![d] = to] /\ to.waits # "manifest"
    <3>1. CASE CheckAnswered(d)
      BY <3>1 DEF CheckAnswered
    <3> QED
      BY <1>2, <3>1 DEF CheckFailed, StampCheck, StampCheckFails, InstallBegin, InstallAnswered,
                        InstallDone, InstallFailed, NoCall
  <2> QED
    BY <2>1, <1>0
<1>3. ASSUME Relaunch PROVE FALSE
  BY <1>3 DEF Relaunch, NoCall
<1>4. ASSUME call' = call PROVE FALSE
  BY <1>4
<1>5. (\E value \in BOOLEAN : SetEnabled(value)) \/ (\E b \in Builds \cup {Odd} : Serve(b))
      \/ NewVault \/ ClockTicks \/ ClockTurnedBack \/ UNCHANGED updateVars
      => call' = call
  BY Zenon DEF SetEnabled, Serve, NewVault, ClockTicks, ClockTurnedBack, updateVars
<1> QED
  BY <1>1, <1>2, <1>3, <1>4, <1>5, Zenon DEF UpdateNext

\* update_check and stamp_check: however long an answer takes, whatever fails, is
\* restarted or installed meanwhile, and though the clock is set back, a check is
\* begun no sooner than the interval after the last one that was answered, while
\* checks do not overlap and every answer is stamped: a stamp that has no vault to go
\* to, whose write fails, or that the end of the process cuts, is the exception.
THEOREM ChecksKeepTheInterval == UpdateSpec => ChecksAreSpaced
<1>1. UpdateInit => Spaced
  BY SpacedInit
<1>2. Spaced /\ [UpdateNext]_updateVars => Spaced'
  BY SpacedStep
<1>3. Spaced /\ [UpdateNext]_updateVars
      => [\A c \in Calls : ~Waiting(c, "manifest") /\ call'[c].waits = "manifest" /\ ~loose'
             => time - answered >= UPDATE_INTERVAL]_updateVars
  BY BeginsAfterInterval
<1> QED
  BY <1>1, <1>2, <1>3, PTL DEF UpdateSpec, ChecksAreSpaced

-----------------------------------------------------------------------------
(* The score.                                                              *)

LEMMA QuotientGrows ==
    ASSUME NEW a \in Int, NEW b \in Int, NEW d \in Int, d > 0, a <= b
    PROVE  a \div d <= b \div d
<1> DEFINE q == a \div d
           r == b \div d
<1>1. q \in Int /\ r \in Int /\ d * q <= a /\ b < d * r + d
  OBVIOUS
<1> HIDE DEF q, r
<1>2. ASSUME r < q PROVE FALSE
  <2>1. r + 1 <= q
    BY <1>1, <1>2
  <2>2. d * (r + 1) <= d * q
    <3>1. q - (r + 1) \in Nat
      BY <1>1, <2>1
    <3>2. d * (q - (r + 1)) >= 0
      BY <3>1
    <3> QED
      BY <1>1, <3>2
  <2>3. d * (r + 1) = d * r + d
    BY <1>1
  <2>4. d * r \in Int /\ d * q \in Int
    BY <1>1
  <2> QED
    BY <1>1, <2>2, <2>3, <2>4
<1>3. ~(r < q)
  BY <1>2
<1> QED
  BY <1>1, <1>3 DEF q, r

LEMMA ProductGrows ==
    ASSUME NEW a \in Int, NEW b \in Int, NEW c \in Nat, a <= b
    PROVE  a * c <= b * c
<1>1. (b - a) \in Nat
  OBVIOUS
<1>2. (b - a) * c >= 0
  BY <1>1
<1>3. (b - a) * c = b * c - a * c
  OBVIOUS
<1> QED
  BY <1>2, <1>3

HealthInputs == [logins : Nat, breached : Nat, weak : Nat, reused : Nat, capable : Nat, enabled : Nat]

(* Fewer passwords at risk or more codes are worth no less.                *)
LEMMA ScoreGrows ==
    ASSUME NEW n \in HealthInputs, NEW m \in HealthInputs,
           n.logins # 0, m.logins = n.logins, m.capable = n.capable,
           m.breached <= n.breached, m.weak <= n.weak, m.reused <= n.reused,
           n.enabled <= m.enabled
    PROVE  Score(n) <= Score(m)
<1> DEFINE w == Weights(HasCapable(n))
           c == IF HasCapable(n) THEN n.capable ELSE 1
           P(k) == HygienePoints(k, w) * c + TwoFactorPoints(k, w) * n.logins
           whole == 100 * n.logins * c
<1>1. HasCapable(m) = HasCapable(n)
  BY DEF HasCapable
<1>2. /\ Score(n) = (2 * P(n) + whole) \div (2 * whole)
      /\ Score(m) = (2 * P(m) + whole) \div (2 * whole)
  BY <1>1 DEF Score
<1>3. c \in Nat /\ c > 0 /\ n.logins \in Nat /\ n.logins > 0
  BY DEF HasCapable, HealthInputs
<1>4. /\ w.breached \in Nat /\ w.weak \in Nat /\ w.reused \in Nat /\ w.two_factor \in Nat
  BY DEF Weights
<1> HIDE DEF w, c
<1>5. /\ HygienePoints(n, w) \in Int /\ HygienePoints(m, w) \in Int
      /\ HygienePoints(n, w) <= HygienePoints(m, w)
  <2> DEFINE lost(k) == <<k.logins - k.breached, k.logins - k.weak, k.logins - k.reused>>
  <2>1. /\ lost(n)[1] \in Int /\ lost(n)[2] \in Int /\ lost(n)[3] \in Int
        /\ lost(m)[1] \in Int /\ lost(m)[2] \in Int /\ lost(m)[3] \in Int
        /\ lost(n)[1] <= lost(m)[1] /\ lost(n)[2] <= lost(m)[2] /\ lost(n)[3] <= lost(m)[3]
    BY DEF HealthInputs
  <2>2. \A k : HygienePoints(k, w) = w.breached * lost(k)[1] + w.weak * lost(k)[2] + w.reused * lost(k)[3]
    BY DEF HygienePoints
  <2> HIDE DEF lost
  <2>3. \A a, b \in Int, x \in Nat : a <= b => x * a <= x * b /\ x * a \in Int /\ x * b \in Int
    <3>1. \A a \in Int, x \in Nat : x * a = a * x
      OBVIOUS
    <3> QED
      BY ProductGrows, <3>1
  <2>4. /\ w.breached * lost(n)[1] <= w.breached * lost(m)[1]
        /\ w.breached * lost(n)[1] \in Int /\ w.breached * lost(m)[1] \in Int
    BY <1>4, <2>1, <2>3
  <2>5. /\ w.weak * lost(n)[2] <= w.weak * lost(m)[2]
        /\ w.weak * lost(n)[2] \in Int /\ w.weak * lost(m)[2] \in Int
    BY <1>4, <2>1, <2>3
  <2>6. /\ w.reused * lost(n)[3] <= w.reused * lost(m)[3]
        /\ w.reused * lost(n)[3] \in Int /\ w.reused * lost(m)[3] \in Int
    BY <1>4, <2>1, <2>3
  <2> QED
    BY <2>2, <2>4, <2>5, <2>6
<1>6. /\ TwoFactorPoints(n, w) \in Int /\ TwoFactorPoints(m, w) \in Int
      /\ TwoFactorPoints(n, w) <= TwoFactorPoints(m, w)
  <2>1. /\ AtMost(n.enabled, n.capable) \in Nat /\ AtMost(m.enabled, m.capable) \in Nat
        /\ AtMost(n.enabled, n.capable) <= AtMost(m.enabled, m.capable)
    BY DEF AtMost, HealthInputs
  <2>2. \A a, b \in Nat, x \in Nat : a <= b => x * a <= x * b /\ x * a \in Int /\ x * b \in Int
    <3>1. \A a \in Int, x \in Nat : x * a = a * x
      OBVIOUS
    <3> QED
      BY ProductGrows, <3>1
  <2> QED
    BY <1>4, <2>1, <2>2 DEF TwoFactorPoints
<1> DEFINE hn == HygienePoints(n, w)
           hm == HygienePoints(m, w)
           tn == TwoFactorPoints(n, w)
           tm == TwoFactorPoints(m, w)
<1>7. hn * c <= hm * c /\ tn * n.logins <= tm * n.logins
  BY <1>3, <1>5, <1>6, ProductGrows
<1>8. hn * c \in Int /\ hm * c \in Int /\ tn * n.logins \in Int /\ tm * n.logins \in Int
  BY <1>3, <1>5, <1>6
<1>9. P(n) \in Int /\ P(m) \in Int /\ P(n) <= P(m)
  BY <1>7, <1>8
<1>10. whole \in Int /\ whole > 0
  BY <1>3
<1> HIDE DEF P, whole
<1>11. 2 * P(n) + whole <= 2 * P(m) + whole /\ 2 * whole > 0
  BY <1>9, <1>10
<1> QED
  BY <1>2, <1>9, <1>10, <1>11, QuotientGrows

-----------------------------------------------------------------------------
(* The report.                                                             *)

LEMMA CountsAreNaturals ==
    ASSUME NEW S \in SUBSET Reviewed
    PROVE  IsFiniteSet(S) /\ Cardinality(S) \in Nat
BY HealthAssumption, FS_Subset, FS_CardinalityType

LEMMA InputsAreCounts == Inputs \in HealthInputs
<1>1. /\ Under \in SUBSET Reviewed /\ ReusedIds \in SUBSET Reviewed
      /\ {i \in Under : InCorpus(i)} \in SUBSET Reviewed
      /\ {i \in Under : Weak(i)} \in SUBSET Reviewed
      /\ {i \in Under : login[i].capable} \in SUBSET Reviewed
      /\ {i \in Under : login[i].totp} \in SUBSET Reviewed
  BY DEF Under, ReusedIds
<1> QED
  BY <1>1, CountsAreNaturals DEF Inputs, HealthInputs

LEMMA ReviewedHasSome == \A i \in Under : Inputs.logins # 0
<1> SUFFICES ASSUME NEW i \in Under PROVE Cardinality(Under) # 0
  BY DEF Inputs
<1>1. Under \in SUBSET Reviewed
  BY DEF Under
<1> QED
  BY <1>1, CountsAreNaturals, FS_EmptySet

LEMMA HealthTypesAlways == HealthSpec => []HealthTypeOK
<1>1. HealthInit => HealthTypeOK
  BY DEF HealthInit, HealthTypeOK, BreachStatuses
<1>2. HealthTypeOK /\ [HealthNext]_healthVars => HealthTypeOK'
  <2> SUFFICES ASSUME HealthTypeOK, [HealthNext]_healthVars PROVE HealthTypeOK'
    OBVIOUS
  <2>1. ASSUME NEW i \in Reviewed, NEW fields \in LoginItem, SaveLogin(i, fields) PROVE HealthTypeOK'
    BY <2>1 DEF SaveLogin, HealthTypeOK
  <2>2. ASSUME NEW i \in Reviewed, DropLogin(i) PROVE HealthTypeOK'
    BY <2>2 DEF DropLogin, HealthTypeOK
  <2>3. ASSUME NEW p \in Secrets, NEW status \in BreachStatuses, Learn(p, status) PROVE HealthTypeOK'
    BY <2>3 DEF Learn, HealthTypeOK
  <2>4. CASE UNCHANGED healthVars
    BY <2>4 DEF healthVars, HealthTypeOK
  <2> QED
    BY <2>1, <2>2, <2>3, <2>4 DEF HealthNext
<1> QED
  BY <1>1, <1>2, PTL DEF HealthSpec

(* A login given a password of its own leaves every group it was in, and   *)
(* takes the last member of a group of two with it.                        *)
LEMMA MendedSets ==
    ASSUME HealthTypeOK, NEW i \in Reviewed, Mended(i), ranged' = ranged
    PROVE  /\ Under' = Under
           /\ {j \in Under : InCorpus(j)}' = {j \in Under : InCorpus(j)} \ {i}
           /\ {j \in Under : Weak(j)}' = {j \in Under : Weak(j)} \ {i}
           /\ {j \in Under : login[j].capable}' = {j \in Under : login[j].capable}
           /\ {j \in Under : login[j].totp}' = {j \in Under : login[j].totp}
           /\ \A j \in Under : Sharing(j)' = IF j = i THEN {i} ELSE Sharing(j) \ {i}
<1>1. PICK p \in Secrets :
          /\ login' = [login EXCEPT ![i].password = p]
          /\ p # login[i].password /\ p \notin Common /\ i \notin Telling
          /\ ranged[p] # "breached"
          /\ \A j \in Under : login[j].password # p
  BY DEF Mended
<1>2. i \in Under /\ login[i] # NoLogin /\ login[i] \in LoginItem
  BY DEF Mended, Under, HealthTypeOK
<1>3. /\ login'[i].password = p /\ login'[i].capable = login[i].capable /\ login'[i].totp = login[i].totp
      /\ \A j \in Reviewed : j # i => login'[j] = login[j]
  BY <1>1, <1>2 DEF HealthTypeOK, LoginItem
<1>4. login'[i] # NoLogin /\ p # "blank"
  BY <1>1, <1>3, HealthAssumption DEF NoLogin
<1>5. Under' = Under
  BY <1>2, <1>3, <1>4 DEF Under
<1>6. \A j \in Under : j \in Reviewed
  BY DEF Under
<1>7. {j \in Under : InCorpus(j)}' = {j \in Under : InCorpus(j)} \ {i}
  BY <1>1, <1>3, <1>5, <1>6 DEF InCorpus
<1>8. {j \in Under : Weak(j)}' = {j \in Under : Weak(j)} \ {i}
  BY <1>1, <1>3, <1>5, <1>6 DEF Weak
<1>9. /\ {j \in Under : login[j].capable}' = {j \in Under : login[j].capable}
      /\ {j \in Under : login[j].totp}' = {j \in Under : login[j].totp}
  BY <1>3, <1>5, <1>6
<1>10. ASSUME NEW j \in Under PROVE Sharing(j)' = IF j = i THEN {i} ELSE Sharing(j) \ {i}
  <2>1. Sharing(j)' = {k \in Under : login'[k].password = login'[j].password}
    BY <1>5 DEF Sharing
  <2>2. CASE j = i
    BY <1>1, <1>2, <1>3, <1>6, <2>1, <2>2
  <2>3. CASE j # i
    BY <1>1, <1>2, <1>3, <1>6, <2>1, <2>3 DEF Sharing
  <2> QED
    BY <2>2, <2>3
<1> QED
  BY <1>5, <1>7, <1>8, <1>9, <1>10

LEMMA MendedGroups ==
    ASSUME HealthTypeOK, NEW i \in Reviewed, Mended(i), ranged' = ranged
    PROVE  /\ ReusedIds' \subseteq ReusedIds /\ i \notin ReusedIds'
           /\ Cardinality(ReusedIds) - Cardinality(ReusedIds') =
                 CASE Cardinality(Sharing(i)) = 1 -> 0
                   [] Cardinality(Sharing(i)) = 2 -> 2
                   [] OTHER -> 1
<1>1. i \in Under /\ Under \subseteq Reviewed
  BY DEF Mended, Under
<1>2. /\ Under' = Under
      /\ \A j \in Under : Sharing(j)' = IF j = i THEN {i} ELSE Sharing(j) \ {i}
  BY MendedSets
<1>3. \A j \in Under : Sharing(j) \in SUBSET Reviewed /\ j \in Sharing(j)
  BY <1>1 DEF Sharing
<1>4. \A j, k \in Under : k \in Sharing(j) => Sharing(k) = Sharing(j)
  BY DEF Sharing
<1>5. ReusedIds' = {j \in Under : Cardinality(Sharing(j)') > 1}
  BY <1>2 DEF ReusedIds
<1>6. i \notin ReusedIds'
  <2>1. Sharing(i)' = {i} /\ Cardinality({i}) = 1
    BY <1>1, <1>2, FS_Singleton
  <2>2. ~(Cardinality(Sharing(i)') > 1)
    BY <2>1
  <2> QED
    BY <1>5, <2>2
<1>7. ASSUME NEW j \in Under, j \notin Sharing(i)
      PROVE  j \in ReusedIds' <=> j \in ReusedIds
  <2>1. i \notin Sharing(j)
    BY <1>1, <1>3, <1>4, <1>7
  <2>2. Sharing(j)' = Sharing(j)
    BY <1>1, <1>2, <1>3, <1>7, <2>1
  <2> QED
    BY <1>5, <2>2 DEF ReusedIds
<1>8. ASSUME NEW j \in Sharing(i), j # i
      PROVE  /\ Cardinality(Sharing(j)') = Cardinality(Sharing(i)) - 1
             /\ j \in Under /\ j \in ReusedIds
  <2>1. j \in Under /\ Sharing(j) = Sharing(i) /\ i \in Sharing(i)
    BY <1>1, <1>3, <1>4 DEF Sharing
  <2>2. IsFiniteSet(Sharing(i)) /\ Cardinality(Sharing(i)) \in Nat
    BY <1>1, <1>3, CountsAreNaturals
  <2>3. Sharing(j)' = Sharing(i) \ {i}
    BY <1>2, <1>8, <2>1
  <2>4. Cardinality(Sharing(i) \ {i}) = Cardinality(Sharing(i)) - 1
    BY <2>1, <2>2, FS_RemoveElement
  <2>5. Cardinality(Sharing(i)) # 1
    BY <1>8, <2>1, <2>2, FS_Singleton
  <2>6. Cardinality(Sharing(i)) # 0
    BY <2>1, <2>2, FS_EmptySet
  <2>7. Cardinality(Sharing(j)) > 1
    BY <2>1, <2>2, <2>5, <2>6
  <2> QED
    BY <2>1, <2>3, <2>4, <2>7 DEF ReusedIds
<1>9. ReusedIds' \subseteq ReusedIds
  BY <1>5, <1>6, <1>7, <1>8
<1>10. IsFiniteSet(ReusedIds) /\ Cardinality(ReusedIds) \in Nat
  <2>1. ReusedIds \in SUBSET Reviewed
    BY <1>1 DEF ReusedIds
  <2> QED
    BY <2>1, CountsAreNaturals
<1>11. IsFiniteSet(Sharing(i)) /\ Cardinality(Sharing(i)) \in Nat /\ i \in Sharing(i)
  BY <1>1, <1>3, CountsAreNaturals
<1> DEFINE n == Cardinality(Sharing(i))
<1>12. CASE n = 1
  <2>1. Sharing(i) = {i} /\ i \notin ReusedIds
    <3>1. \E x : Sharing(i) = {x}
      BY <1>11, <1>12, FS_Singleton
    <3> QED
      BY <1>11, <1>12, <3>1 DEF ReusedIds
  <2>2. ReusedIds' = ReusedIds
    BY <1>1, <1>5, <1>6, <1>7, <1>9, <2>1 DEF ReusedIds
  <2>3. Cardinality(ReusedIds) - Cardinality(ReusedIds') = 0
    BY <1>10, <2>2
  <2> QED
    BY <1>6, <1>9, <1>12, <2>3
<1>13. CASE n = 2
  <2>1. IsFiniteSet(Sharing(i) \ {i}) /\ Cardinality(Sharing(i) \ {i}) = 1
    BY <1>11, <1>13, FS_RemoveElement
  <2>2. PICK j : Sharing(i) \ {i} = {j}
    BY <2>1, FS_Singleton
  <2>3. Sharing(i) = {i, j} /\ j # i
    BY <1>11, <2>2
  <2>4. j \in ReusedIds /\ j \notin ReusedIds'
    BY <1>5, <1>8, <1>13, <2>3
  <2>5. i \in ReusedIds
    BY <1>1, <1>13 DEF ReusedIds
  <2>6. ReusedIds' = (ReusedIds \ {i}) \ {j}
    BY <1>5, <1>6, <1>7, <1>9, <2>3, <2>4 DEF ReusedIds
  <2>7. IsFiniteSet(ReusedIds \ {i}) /\ Cardinality(ReusedIds \ {i}) = Cardinality(ReusedIds) - 1
    BY <1>10, <2>5, FS_RemoveElement
  <2>8. Cardinality((ReusedIds \ {i}) \ {j}) = Cardinality(ReusedIds \ {i}) - 1
    BY <2>3, <2>4, <2>7, FS_RemoveElement
  <2>9. Cardinality(ReusedIds) - Cardinality(ReusedIds') = 2
    BY <1>10, <2>6, <2>7, <2>8
  <2> QED
    BY <1>6, <1>9, <1>13, <2>9
<1>14. CASE n # 1 /\ n # 2
  <2>1. n # 0
    BY <1>11, FS_EmptySet
  <2>2. n > 2 /\ n - 1 > 1
    BY <1>11, <1>14, <2>1
  <2>3. i \in ReusedIds
    BY <1>1, <1>11, <2>2 DEF ReusedIds
  <2>4. ReusedIds' = ReusedIds \ {i}
    <3>1. \A j \in Sharing(i) : j # i => j \in ReusedIds'
      BY <1>5, <1>8, <2>2
    <3> QED
      BY <1>6, <1>7, <1>9, <3>1 DEF ReusedIds
  <2>5. Cardinality(ReusedIds \ {i}) = Cardinality(ReusedIds) - 1
    BY <1>10, <2>3, FS_RemoveElement
  <2>6. Cardinality(ReusedIds) - Cardinality(ReusedIds') = 1
    BY <1>10, <2>4, <2>5
  <2> QED
    BY <1>6, <1>9, <1>14, <2>6
<1> QED
  BY <1>6, <1>9, <1>12, <1>13, <1>14

(* Advice that is followed costs no points.                                *)
LEMMA MendingPays ==
    ASSUME HealthTypeOK, NEW i \in Reviewed, Mended(i), ranged' = ranged
    PROVE  Score(Inputs') >= Score(Inputs)
<1>1. i \in Under /\ Under \in SUBSET Reviewed
  BY DEF Mended, Under
<1> DEFINE exposed == {j \in Under : InCorpus(j)}
           weak == {j \in Under : Weak(j)}
<1>2. IsFiniteSet(exposed) /\ IsFiniteSet(weak) /\ IsFiniteSet(ReusedIds)
  <2>1. exposed \in SUBSET Reviewed /\ weak \in SUBSET Reviewed /\ ReusedIds \in SUBSET Reviewed
    BY <1>1 DEF ReusedIds
  <2> QED
    BY <2>1, CountsAreNaturals
<1>3. /\ Cardinality(exposed \ {i}) <= Cardinality(exposed)
      /\ Cardinality(weak \ {i}) <= Cardinality(weak)
      /\ Cardinality(ReusedIds') <= Cardinality(ReusedIds)
  <2>1. ReusedIds' \in SUBSET ReusedIds
    BY MendedGroups
  <2> QED
    BY <1>2, <2>1, FS_Subset
<1>4. /\ Inputs'.logins = Inputs.logins /\ Inputs'.capable = Inputs.capable
      /\ Inputs'.enabled = Inputs.enabled
      /\ Inputs'.breached = Cardinality(exposed \ {i}) /\ Inputs.breached = Cardinality(exposed)
      /\ Inputs'.weak = Cardinality(weak \ {i}) /\ Inputs.weak = Cardinality(weak)
      /\ Inputs'.reused = Cardinality(ReusedIds') /\ Inputs.reused = Cardinality(ReusedIds)
  BY MendedSets DEF Inputs
<1>5. Inputs.logins # 0 /\ Inputs \in HealthInputs
  BY <1>1, ReviewedHasSome, InputsAreCounts
<1>6. Inputs' \in HealthInputs
  <2>1. /\ Under' \in SUBSET Reviewed /\ ReusedIds' \in SUBSET Reviewed
        /\ exposed \ {i} \in SUBSET Reviewed /\ weak \ {i} \in SUBSET Reviewed
    BY <1>1, MendedSets, MendedGroups DEF ReusedIds
  <2>2. /\ Cardinality(exposed \ {i}) \in Nat /\ Cardinality(weak \ {i}) \in Nat
        /\ Cardinality(ReusedIds') \in Nat
    BY <2>1, CountsAreNaturals
  <2> QED
    BY <1>4, <1>5, <2>2 DEF Inputs, HealthInputs
<1>7. Inputs.enabled <= Inputs'.enabled
  BY <1>4, <1>5 DEF HealthInputs
<1>8. Score(Inputs) <= Score(Inputs')
  BY <1>3, <1>4, <1>5, <1>6, <1>7, ScoreGrows
<1> QED
  BY <1>8

LEMMA MendedIsSafe ==
    ASSUME HealthTypeOK, NEW i \in Reviewed, Mended(i), ranged' = ranged,
           NEW r \in Risks', r.item = i
    PROVE  r.kind = "MissingTwoFactor"
<1>1. i \notin {j \in Under : InCorpus(j)}' /\ i \notin {j \in Under : Weak(j)}'
  BY MendedSets
<1>2. i \notin ReusedIds'
  BY MendedGroups
<1> QED
  BY <1>1, <1>2 DEF Risks

LEMMA CodePays ==
    ASSUME HealthTypeOK, NEW i \in Reviewed, CodeAdded(i), ranged' = ranged
    PROVE  Score(Inputs') >= Score(Inputs)
<1>1. /\ i \in Under /\ Under \in SUBSET Reviewed
      /\ login[i] \in LoginItem /\ login' = [login EXCEPT ![i].totp = TRUE]
  BY DEF CodeAdded, Under, HealthTypeOK
<1>2. /\ login'[i].password = login[i].password /\ login'[i].capable = login[i].capable
      /\ login'[i].totp
      /\ \A j \in Reviewed : j # i => login'[j] = login[j]
  BY <1>1 DEF HealthTypeOK, LoginItem
<1>3. login'[i] # NoLogin
  <2>1. login'[i].totp /\ ~NoLogin.totp
    BY <1>2 DEF NoLogin
  <2> QED
    BY <2>1
<1>4. Under' = Under /\ \A j \in Under : login'[j].password = login[j].password
  BY <1>1, <1>2, <1>3 DEF Under
<1>5. /\ {j \in Under : InCorpus(j)}' = {j \in Under : InCorpus(j)}
      /\ {j \in Under : Weak(j)}' = {j \in Under : Weak(j)}
      /\ {j \in Under : login[j].capable}' = {j \in Under : login[j].capable}
  BY <1>1, <1>2, <1>4 DEF InCorpus, Weak
<1>6. ReusedIds' = ReusedIds
  BY <1>4 DEF ReusedIds, Sharing
<1> DEFINE coded == {j \in Under : login[j].totp}
<1>7. coded \in SUBSET Reviewed /\ coded' \in SUBSET Reviewed /\ coded \in SUBSET coded'
  BY <1>1, <1>2, <1>4
<1>8. /\ Cardinality(coded) <= Cardinality(coded')
      /\ Cardinality(coded') \in Nat
  BY <1>7, CountsAreNaturals, FS_Subset
<1>9. /\ Inputs'.logins = Inputs.logins /\ Inputs'.capable = Inputs.capable
      /\ Inputs'.breached = Inputs.breached /\ Inputs'.weak = Inputs.weak
      /\ Inputs'.reused = Inputs.reused
      /\ Inputs.enabled = Cardinality(coded) /\ Inputs'.enabled = Cardinality(coded')
  BY <1>4, <1>5, <1>6 DEF Inputs
<1> HIDE DEF coded
<1>10. Inputs.logins # 0 /\ Inputs \in HealthInputs
  BY <1>1, ReviewedHasSome, InputsAreCounts
<1>11. Inputs' \in HealthInputs
  BY <1>8, <1>9, <1>10 DEF Inputs, HealthInputs
<1>12. /\ Inputs'.breached <= Inputs.breached /\ Inputs'.weak <= Inputs.weak
       /\ Inputs'.reused <= Inputs.reused /\ Inputs.enabled <= Inputs'.enabled
  BY <1>8, <1>9, <1>10 DEF HealthInputs
<1>13. Score(Inputs) <= Score(Inputs')
  BY <1>9, <1>10, <1>11, <1>12, ScoreGrows
<1> QED
  BY <1>13

(* assess_all and health: following the report's advice never costs        *)
(* points, with the two-factor weight redistributed or not; a login mended *)
(* leaves the list but for its second factor, and the reuse count falls by *)
(* two when the group had two.  It is arithmetic over any number of        *)
(* logins, with the one rounding of the code at its end.                   *)
THEOREM AdviceNeverCosts == HealthSpec => FixingNeverHurts
<1>1. ASSUME HealthTypeOK, [HealthNext]_healthVars, NEW i \in Reviewed, Mended(i) \/ CodeAdded(i)
      PROVE  ranged' = ranged
  <2>1. login' # login
    <3>1. CASE Mended(i)
      <4>1. PICK p \in Secrets : login' = [login EXCEPT ![i].password = p] /\ p # login[i].password
        BY <3>1 DEF Mended
      <4>2. login[i] \in LoginItem
        BY <1>1, <3>1 DEF Mended, Under, HealthTypeOK
      <4>3. login'[i].password = p
        BY <1>1, <4>1, <4>2 DEF HealthTypeOK, LoginItem
      <4> QED
        BY <4>1, <4>3
    <3>2. CASE CodeAdded(i)
      <4>1. login' = [login EXCEPT ![i].totp = TRUE] /\ ~login[i].totp /\ login[i] \in LoginItem
        BY <1>1, <3>2 DEF CodeAdded, Under, HealthTypeOK
      <4>2. login'[i].totp
        BY <1>1, <4>1 DEF HealthTypeOK, LoginItem
      <4> QED
        BY <4>1, <4>2
    <3> QED
      BY <1>1, <3>1, <3>2
  <2> QED
    BY <1>1, <2>1 DEF HealthNext, SaveLogin, DropLogin, Learn, healthVars
<1> DEFINE Advised == \A i \in Reviewed :
        /\ Mended(i) =>
              /\ Score(Inputs') >= Score(Inputs)
              /\ Inputs.reused - Inputs'.reused =
                    CASE Cardinality(Sharing(i)) = 1 -> 0
                      [] Cardinality(Sharing(i)) = 2 -> 2
                      [] OTHER -> 1
              /\ \A r \in Risks' : r.item = i => r.kind = "MissingTwoFactor"
        /\ CodeAdded(i) => Score(Inputs') >= Score(Inputs)
<1>2. HealthTypeOK /\ [HealthNext]_healthVars => Advised
  <2> SUFFICES ASSUME HealthTypeOK, [HealthNext]_healthVars, NEW i \in Reviewed
               PROVE  /\ Mended(i) =>
                            /\ Score(Inputs') >= Score(Inputs)
                            /\ Inputs.reused - Inputs'.reused =
                                  CASE Cardinality(Sharing(i)) = 1 -> 0
                                    [] Cardinality(Sharing(i)) = 2 -> 2
                                    [] OTHER -> 1
                            /\ \A r \in Risks' : r.item = i => r.kind = "MissingTwoFactor"
                      /\ CodeAdded(i) => Score(Inputs') >= Score(Inputs)
    OBVIOUS
  <2>1. ASSUME Mended(i)
        PROVE  /\ Score(Inputs') >= Score(Inputs)
               /\ Inputs.reused - Inputs'.reused =
                     CASE Cardinality(Sharing(i)) = 1 -> 0
                       [] Cardinality(Sharing(i)) = 2 -> 2
                       [] OTHER -> 1
               /\ \A r \in Risks' : r.item = i => r.kind = "MissingTwoFactor"
    <3>1. ranged' = ranged
      BY <1>1, <2>1
    <3>2. Inputs.reused = Cardinality(ReusedIds) /\ Inputs'.reused = Cardinality(ReusedIds')
      BY DEF Inputs
    <3>3. Cardinality(ReusedIds) - Cardinality(ReusedIds') =
                 CASE Cardinality(Sharing(i)) = 1 -> 0
                   [] Cardinality(Sharing(i)) = 2 -> 2
                   [] OTHER -> 1
      BY <2>1, <3>1, MendedGroups
    <3>4. \A r \in Risks' : r.item = i => r.kind = "MissingTwoFactor"
      BY <2>1, <3>1, MendedIsSafe
    <3>5. Score(Inputs') >= Score(Inputs)
      BY <2>1, <3>1, MendingPays
    <3> QED
      BY <3>2, <3>3, <3>4, <3>5
  <2>2. ASSUME CodeAdded(i) PROVE Score(Inputs') >= Score(Inputs)
    BY <1>1, <2>2, CodePays
  <2> QED
    BY <2>1, <2>2, Zenon
<1>3. []HealthTypeOK /\ [][HealthNext]_healthVars => FixingNeverHurts
  BY <1>2, PTL DEF FixingNeverHurts
<1> QED
  BY <1>3, HealthTypesAlways, PTL DEF HealthSpec

-----------------------------------------------------------------------------
(* The types of the two checks.                                            *)

\* Bodies of ranges are bodies.
LEMMA TheseAreBodies ==
    Missing \in Bodies /\ Garbage \in Bodies /\ \A x \in Ranges : corpus \cap x \in Bodies
  BY DEF Bodies, Passwords

BreachTyped ==
    /\ BreachTypeOK
    /\ check # NoCheck => check.new \in [Ranges -> Bodies] /\ check.now \in 0..MaxHours

LEMMA BreachTypedStep ==
    ASSUME AllFounded, BreachTyped, [BreachNext]_breachVars
    PROVE  BreachTyped'
<1> USE DEF outside, breachGhosts
<1>a. NoCheck.phase = "none"
  BY DEF NoCheck
<1>1. CASE BreachCheckBegin
  <2> DEFINE first == IF Wanted = {} THEN "store" ELSE "fetch"
             new == IF Wanted = {} THEN cache ELSE [x \in Ranges |-> Missing]
  <2>1. /\ check' = [phase |-> first, left |-> Wanted, fetched |-> FALSE, now |-> hour, new |-> new]
        /\ UNCHANGED <<outside, cache, stamp, breachCuts>>
    BY <1>1 DEF BreachCheckBegin
  <2>2. new \in [Ranges -> Bodies]
    BY TheseAreBodies DEF BreachTyped, BreachTypeOK
  <2> HIDE DEF new
  <2>3. check'.phase = first /\ check'.left = Wanted /\ check'.new = new /\ check'.now = hour
    BY <2>1
  <2> QED
    BY <2>1, <2>2, <2>3 DEF BreachTyped, BreachTypeOK
<1>2. ASSUME NEW x \in Ranges, FetchRange(x) \/ FetchFails(x) PROVE BreachTyped'
  <2>1. PICK body \in Bodies, ok \in BOOLEAN : Refreshed(x, body, ok)
    <3>1. cache[x] \in Bodies /\ corpus \cap x \in Bodies /\ Garbage \in Bodies
      BY TheseAreBodies DEF BreachTyped, BreachTypeOK
    <3>2. \/ Refreshed(x, corpus \cap x, TRUE) \/ Refreshed(x, Garbage, TRUE)
          \/ Refreshed(x, cache[x], FALSE)
      BY <1>2, Zenon DEF FetchRange, FetchFails
    <3> QED
      BY <3>1, <3>2, Zenon
  <2>2. /\ check.phase = "fetch" /\ x \in check.left
        /\ UNCHANGED <<outside, cache, stamp, breachCuts>>
    BY <1>2 DEF FetchRange, FetchFails
  <2>3. check # NoCheck /\ check = [p \in DOMAIN check |-> check[p]]
    BY <1>a, <2>2 DEF AllFounded, InProgress
  <2>4. check' = [phase |-> IF check.left = {x} THEN "store" ELSE "fetch",
                  left |-> check.left \ {x}, fetched |-> check.fetched \/ ok,
                  now |-> check.now, new |-> [check.new EXCEPT ![x] = body]]
    BY <2>1, <2>2, <2>3 DEF Refreshed, AllFounded, InProgress
  <2>5. /\ check'.phase = IF check.left = {x} THEN "store" ELSE "fetch"
        /\ check'.left = check.left \ {x} /\ check'.now = check.now
        /\ check'.new = [check.new EXCEPT ![x] = body]
    BY <2>4
  <2>6. check'.new \in [Ranges -> Bodies] /\ check'.now \in 0..MaxHours
    BY <2>3, <2>5 DEF BreachTyped
  <2> QED
    BY <2>2, <2>5, <2>6 DEF BreachTyped, BreachTypeOK
<1>3. CASE StoreCache
  <2>1. /\ check.phase = "store" /\ check # NoCheck /\ cache' = check.new
        /\ UNCHANGED <<outside, stamp, breachCuts>>
    BY <1>3, <1>a DEF StoreCache
  <2>2. \/ check' = NoCheck
        \/ check' # NoCheck /\ check'.phase = "stamp" /\ check'.new = check.new /\ check'.now = check.now
    BY <1>3, <1>a, <2>1 DEF StoreCache, AllFounded, InProgress
  <2> QED
    BY <1>a, <2>1, <2>2 DEF BreachTyped, BreachTypeOK
<1>4. CASE Stamp
  <2>1. /\ check # NoCheck /\ check' = NoCheck /\ stamp' = check.now
        /\ UNCHANGED <<outside, cache, breachCuts>>
    BY <1>4, <1>a DEF Stamp
  <2>2. stamp' \in NoStamp..MaxHours
    BY <2>1, BreachAssumption DEF BreachTyped, NoStamp
  <2> QED
    BY <1>a, <2>1, <2>2 DEF BreachTyped, BreachTypeOK
<1>5. CASE BreachCut
  <2>1. /\ check' = NoCheck /\ breachCuts' \in 0..MaxBreachCuts
        /\ UNCHANGED <<outside, cache, stamp>>
    BY <1>5, BreachAssumption DEF BreachCut, BreachTyped, BreachTypeOK
  <2> QED
    BY <1>a, <2>1 DEF BreachTyped, BreachTypeOK
<1>6. ASSUME NEW i \in Logins, NEW p \in Passwords \cup {Blank}, ChangePassword(i, p)
      PROVE  BreachTyped'
  BY <1>6 DEF ChangePassword, BreachTyped, BreachTypeOK
<1>7. ASSUME NEW p \in Passwords, Leaks(p) PROVE BreachTyped'
  BY <1>7 DEF Leaks, BreachTyped, BreachTypeOK
<1>8. CASE HourPasses
  <2>1. hour' \in 0..MaxHours /\ UNCHANGED <<password, corpus, cache, stamp, check, breachCuts>>
    BY <1>8, BreachAssumption DEF HourPasses, BreachTyped, BreachTypeOK
  <2> QED
    BY <2>1 DEF BreachTyped, BreachTypeOK
<1>9. CASE UNCHANGED breachVars
  BY <1>9 DEF breachVars, BreachTyped, BreachTypeOK
<1> QED
  BY <1>1, <1>2, <1>3, <1>4, <1>5, <1>6, <1>7, <1>8, <1>9 DEF BreachNext

LEMMA BreachTypedInit == BreachInit => BreachTyped
<1> SUFFICES ASSUME BreachInit PROVE BreachTyped
  OBVIOUS
<1>1. check = NoCheck /\ check.phase = "none"
  BY DEF BreachInit, NoCheck
<1>2. stamp \in NoStamp..MaxHours /\ hour \in 0..MaxHours /\ breachCuts \in 0..MaxBreachCuts
  BY BreachAssumption DEF BreachInit, NoStamp
<1>3. /\ password \in [Logins -> Passwords \cup {Blank}] /\ corpus = {}
      /\ cache \in [Ranges -> Bodies]
  BY TheseAreBodies DEF BreachInit
<1> QED
  BY <1>1, <1>2, <1>3 DEF BreachTyped, BreachTypeOK

\* The cache holds bodies of ranges and marks, and no date lies ahead of the clock's,
\* at whatever step of a check it is cut; what waits to be fetched is something.
LEMMA BreachTypes == BreachSpec => []BreachTypeOK
<1>1. BreachInit => AllFounded /\ BreachTyped
  BY FoundedInit, BreachTypedInit
<1>2. (AllFounded /\ BreachTyped) /\ [BreachNext]_breachVars => (AllFounded /\ BreachTyped)'
  BY FoundedStep, BreachTypedStep
<1>3. AllFounded /\ BreachTyped => BreachTypeOK
  BY DEF BreachTyped
<1> QED
  BY <1>1, <1>2, <1>3, PTL DEF BreachSpec

UpdateTyped ==
    /\ UpdateTypeOK
    /\ call = [c \in Calls |-> call[c]]
    /\ \A c \in Calls : Checking(c) => call[c].now \in Unchecked..MaxClock

LEMMA UncheckedIsPast == Unchecked \in Int /\ Unchecked <= -1
  BY UpdateAssumption DEF Unchecked

\* One call after a step, among others that stay.
LEMMA OneCallTyped ==
    ASSUME UpdateTyped, NEW c \in Calls, NEW now, call' = [call EXCEPT ![c] = now],
           now.waits \in {"no", "candidate", "download"} \/
               (now.waits \in {"manifest", "stamp"} /\ now.now \in Unchecked..MaxClock)
    PROVE  /\ call' = [d \in Calls |-> call'[d]]
           /\ \A d \in Calls : call'[d].waits \in {"no", "manifest", "stamp", "candidate", "download"}
           /\ \A d \in Calls : Checking(d)' => call'[d].now \in Unchecked..MaxClock
<1>1. /\ call' = [d \in Calls |-> call'[d]] /\ call'[c] = now
      /\ \A d \in Calls \ {c} : call'[d] = call[d]
  BY DEF UpdateTyped
<1> QED
  BY <1>1 DEF UpdateTyped, UpdateTypeOK, Waiting, Checking

LEMMA UpdateTypedStep ==
    ASSUME Forward, UpdateTyped, [UpdateNext]_updateVars
    PROVE  UpdateTyped'
<1> USE DEF preferences, releases, clock, updateGhosts
<1>a. NoCall.waits = "no"
  BY DEF NoCall
<1>1. ASSUME NEW c \in Calls, CheckBegin(c) PROVE UpdateTyped'
  <2> DEFINE now == [waits |-> "manifest", now |-> Reads, at |-> time]
  <2>1. call' = [call EXCEPT ![c] = now] /\ UNCHANGED <<preferences, releases, clock>>
    BY <1>1 DEF CheckBegin
  <2>2. now.waits = "manifest" /\ now.now = Reads
    OBVIOUS
  <2>3. Reads \in Unchecked..MaxClock
    BY UncheckedIsPast, UpdateAssumption DEF UpdateTyped, UpdateTypeOK, Reads
  <2> HIDE DEF now
  <2> QED
    BY <2>1, <2>2, <2>3, OneCallTyped DEF UpdateTyped, UpdateTypeOK
<1>11. ASSUME NEW c \in Calls, CheckAnswered(c) PROVE UpdateTyped'
  <2> DEFINE now == [call[c] EXCEPT !.waits = "stamp"]
  <2>1. /\ call' = [call EXCEPT ![c] = now] /\ UNCHANGED <<preferences, releases, clock>>
        /\ Waiting(c, "manifest")
    BY <1>11 DEF CheckAnswered
  <2>2. call[c].now \in Unchecked..MaxClock
    BY <2>1 DEF UpdateTyped, Checking
  <2>3. now.waits = "stamp" /\ now.now = call[c].now
    BY <2>1 DEF Waiting
  <2> HIDE DEF now
  <2> QED
    BY <2>1, <2>2, <2>3, OneCallTyped DEF UpdateTyped, UpdateTypeOK
<1>2. ASSUME NEW c \in Calls, StampCheck(c) \/ StampCheckFails(c) PROVE UpdateTyped'
  <2>1. /\ call' = [call EXCEPT ![c] = NoCall] /\ checked' \in {checked, call[c].now}
        /\ Waiting(c, "stamp")
        /\ UNCHANGED <<hasVault, enabled, releases, clock>>
    BY <1>2 DEF StampCheck, StampCheckFails
  <2>2. checked' \in Unchecked..MaxClock
    BY <2>1 DEF UpdateTyped, UpdateTypeOK, Checking
  <2> QED
    BY <1>a, <2>1, <2>2, OneCallTyped DEF UpdateTyped, UpdateTypeOK
<1>3. ASSUME NEW c \in Calls, CheckFailed(c) \/ InstallBegin(c) \/ InstallAnswered(c) \/ InstallFailed(c)
      PROVE  UpdateTyped'
  <2>1. PICK now : /\ call' = [call EXCEPT ![c] = now]
                   /\ now.waits \in {"no", "candidate", "download"}
    BY <1>3, <1>a DEF CheckFailed, InstallBegin, InstallAnswered, InstallFailed
  <2>2. UNCHANGED <<preferences, releases, clock>>
    BY <1>3 DEF CheckFailed, InstallBegin, InstallAnswered, InstallFailed
  <2> QED
    BY <2>1, <2>2, OneCallTyped DEF UpdateTyped, UpdateTypeOK
<1>4. ASSUME NEW c \in Calls, InstallDone(c) PROVE UpdateTyped'
  <2>1. /\ call' = [call EXCEPT ![c] = NoCall] /\ installed' \in Builds
        /\ UNCHANGED <<preferences, served, current, clock>>
    BY <1>4 DEF InstallDone, Forward
  <2> QED
    BY <1>a, <2>1, OneCallTyped DEF UpdateTyped, UpdateTypeOK
<1>5. ASSUME NEW value \in BOOLEAN, SetEnabled(value) PROVE UpdateTyped'
  BY <1>5 DEF SetEnabled, UpdateTyped, UpdateTypeOK, Waiting, Checking
<1>6. ASSUME NEW b \in Builds \cup {Odd}, Serve(b) PROVE UpdateTyped'
  BY <1>6 DEF Serve, UpdateTyped, UpdateTypeOK, Waiting, Checking
<1>7. CASE NewVault
  <2>1. /\ hasVault' \in BOOLEAN /\ enabled' \in BOOLEAN /\ checked' = Unchecked
        /\ UNCHANGED <<call, releases, clock>>
    BY <1>7 DEF NewVault
  <2>2. checked' \in Unchecked..MaxClock
    BY <2>1, UncheckedIsPast, UpdateAssumption
  <2> QED
    BY <2>1, <2>2 DEF UpdateTyped, UpdateTypeOK, Waiting, Checking
<1>8. CASE Relaunch
  <2>1. /\ current' = installed /\ call' = [c \in Calls |-> NoCall]
        /\ UNCHANGED <<preferences, served, installed, clock>>
    BY <1>8 DEF Relaunch
  <2> QED
    BY <1>a, <2>1 DEF UpdateTyped, UpdateTypeOK, Waiting, Checking
<1>9. CASE ClockTicks \/ ClockTurnedBack
  <2>1. time' \in 0..MaxClock /\ slow' \in 0..1 /\ UNCHANGED <<preferences, call, releases>>
    BY <1>9, UpdateAssumption DEF ClockTicks, ClockTurnedBack, UpdateTyped, UpdateTypeOK
  <2> QED
    BY <2>1 DEF UpdateTyped, UpdateTypeOK, Waiting, Checking
<1>10. CASE UNCHANGED updateVars
  BY <1>10 DEF updateVars, UpdateTyped, UpdateTypeOK, Waiting, Checking
<1> QED
  BY <1>1, <1>2, <1>3, <1>4, <1>5, <1>6, <1>7, <1>8, <1>9, <1>10, <1>11 DEF UpdateNext

LEMMA UpdateTypedInit == UpdateInit => UpdateTyped
<1> SUFFICES ASSUME UpdateInit PROVE UpdateTyped
  OBVIOUS
<1>1. /\ checked \in Unchecked..MaxClock /\ time \in 0..MaxClock /\ slow \in 0..1
  BY UncheckedIsPast, UpdateAssumption DEF UpdateInit
<1>2. /\ call = [c \in Calls |-> NoCall] /\ NoCall.waits = "no"
  BY DEF UpdateInit, NoCall
<1>3. /\ hasVault \in BOOLEAN /\ enabled \in BOOLEAN
      /\ served \in Builds \cup {Odd} /\ current \in Builds /\ installed \in Builds
  BY DEF UpdateInit
<1> QED
  BY <1>1, <1>2, <1>3 DEF UpdateTyped, UpdateTypeOK, Waiting, Checking

\* However many checks and installs are in flight, what is installed, served or runs
\* was released, and no stamp lies ahead of the time.
LEMMA UpdateTypes == UpdateSpec => []UpdateTypeOK
<1>1. UpdateInit => Forward /\ UpdateTyped
  BY ForwardInit, UpdateTypedInit
<1>2. (Forward /\ UpdateTyped) /\ [UpdateNext]_updateVars => (Forward /\ UpdateTyped)'
  BY ForwardStep, UpdateTypedStep
<1>3. Forward /\ UpdateTyped => UpdateTypeOK
  BY DEF UpdateTyped
<1> QED
  BY <1>1, <1>2, <1>3, PTL DEF UpdateSpec
=============================================================================
