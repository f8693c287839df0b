---------------------------- MODULE HealthReport ----------------------------
(***************************************************************************)
(* The security report: which logins are at risk and the score over them.  *)
(*                                                                         *)
(* report::assess_all, report::health and security_report_run, over a      *)
(* vault whose logins are edited and a cache of breach answers that        *)
(* changes.  The report is a function of that state: it keeps none.        *)
(*                                                                         *)
(* A password is a value with what zxcvbn and a breach corpus say of it;   *)
(* weights are in hundredths, the arithmetic is exact, and f64 rounding    *)
(* error is left out.                                                      *)
(***************************************************************************)
EXTENDS Integers, FiniteSets

CONSTANTS
    Reviewed,    \* ids of the items that may be logins
    Secrets,     \* passwords
    Common,      \* those zxcvbn calls weak for any item
    Telling      \* items whose title or subtitle makes any password weak

ASSUME HealthAssumption ==
    /\ IsFiniteSet(Reviewed) /\ Common \subseteq Secrets /\ Telling \subseteq Reviewed
    /\ {"blank", "none"} \cap Secrets = {}

VARIABLES
    login,       \* id -> what the report reads of it, or NoLogin
    ranged       \* password -> what the cached range says of it

healthVars == <<login, ranged>>

NoLogin == [password |-> "none", totp |-> FALSE, capable |-> FALSE]
LoginItem == [password: Secrets \cup {"blank"}, totp: BOOLEAN, capable: BOOLEAN]
BreachStatuses == {"notChecked", "notBreached", "breached"}

HealthTypeOK ==
    /\ login \in [Reviewed -> LoginItem \cup {NoLogin}]
    /\ ranged \in [Secrets -> BreachStatuses]

-----------------------------------------------------------------------------
(* The items under review.                                                 *)

\* Live logins with a password: a blank one is unfinished, not weak.
Under == {i \in Reviewed : login[i] # NoLogin /\ login[i].password # "blank"}

Sharing(i) == {j \in Under : login[j].password = login[i].password}

\* reuse_groups, flattened: the members of any group of two or more.
ReusedIds == {i \in Under : Cardinality(Sharing(i)) > 1}

Weak(i) == login[i].password \in Common \/ i \in Telling
InCorpus(i) == ranged[login[i].password] = "breached"

-----------------------------------------------------------------------------
(* assess_all and health.                                                  *)

\* The risk list, without its order.
Risks ==
    {[item |-> i, kind |-> "MissingTwoFactor"] :
        i \in {j \in Under : login[j].capable /\ ~login[j].totp}}
    \cup {[item |-> i, kind |-> "Breached"] : i \in {j \in Under : InCorpus(j)}}
    \cup {[item |-> i, kind |-> "Weak"] : i \in {j \in Under : Weak(j)}}
    \cup {[item |-> i, kind |-> "Reused"] : i \in ReusedIds}

\* HealthInputs.  two_factor_enabled counts every item that has a code.
Inputs ==
    [logins |-> Cardinality(Under),
     breached |-> Cardinality({i \in Under : InCorpus(i)}),
     weak |-> Cardinality({i \in Under : Weak(i)}),
     reused |-> Cardinality(ReusedIds),
     capable |-> Cardinality({i \in Under : login[i].capable}),
     enabled |-> Cardinality({i \in Under : login[i].totp})]

\* Hundredths of a point, when a service under review takes a code and not.
Weights(has_capable) ==
    IF has_capable THEN [breached |-> 3500, weak |-> 2500, reused |-> 2000, two_factor |-> 2000]
    ELSE [breached |-> 4375, weak |-> 3125, reused |-> 2500, two_factor |-> 0]

\* Mutant: the weights wait for the first code instead of the first service.
HasCapableOnceEnabled(n) == n.capable > 0 /\ n.enabled > 0

HasCapable(n) == n.capable > 0

AtMost(a, b) == IF a < b THEN a ELSE b

\* complement(bad, n.logins) of each of the first three terms, as a sum over
\* n.logins; the two-factor term over n.capable.
HygienePoints(n, w) ==
    w.breached * (n.logins - n.breached) + w.weak * (n.logins - n.weak)
      + w.reused * (n.logins - n.reused)

TwoFactorPoints(n, w) == w.two_factor * AtMost(n.enabled, n.capable)

\* health: rounded once, half up.  NotEnoughData is -1.
Score(n) ==
    LET w == Weights(HasCapable(n))
        c == IF HasCapable(n) THEN n.capable ELSE 1
        points == HygienePoints(n, w) * c + TwoFactorPoints(n, w) * n.logins
        whole == 100 * n.logins * c
    IN  IF n.logins = 0 THEN -1 ELSE (2 * points + whole) \div (2 * whole)

-----------------------------------------------------------------------------
(* What changes between two reports.                                       *)

\* A login is created, or saved, with this password, code and address.
SaveLogin(i, fields) ==
    /\ login' = [login EXCEPT ![i] = fields]
    /\ UNCHANGED ranged

\* item_delete, and a save as another kind.
DropLogin(i) ==
    /\ login[i] # NoLogin
    /\ login' = [login EXCEPT ![i] = NoLogin]
    /\ UNCHANGED ranged

\* A breach check stores ranges, or drops one.
Learn(p, status) ==
    /\ ranged' = [ranged EXCEPT ![p] = status]
    /\ UNCHANGED login

HealthInit ==
    /\ login = [i \in Reviewed |-> NoLogin]
    /\ ranged = [p \in Secrets |-> "notChecked"]

HealthNext ==
    \/ \E i \in Reviewed, fields \in LoginItem : SaveLogin(i, fields)
    \/ \E i \in Reviewed : DropLogin(i)
    \/ \E p \in Secrets, status \in BreachStatuses : Learn(p, status)

HealthSpec == HealthInit /\ [][HealthNext]_healthVars

-----------------------------------------------------------------------------
(* Properties.                                                             *)

\* i's password is replaced by one that is not weak for it, not in a breach
\* and held by no other login.
Mended(i) ==
    /\ i \in Under
    /\ login'[i] \in LoginItem
    /\ \E p \in Secrets :
          /\ login' = [login EXCEPT ![i].password = p]
          /\ p # login[i].password /\ p \notin Common /\ i \notin Telling
          /\ ranged[p] # "breached"
          /\ \A j \in Under : login[j].password # p

\* i gets a code, at a service that takes one.
CodeAdded(i) ==
    /\ i \in Under
    /\ login[i].capable /\ ~login[i].totp
    /\ login' = [login EXCEPT ![i].totp = TRUE]

\* Following the report's advice never costs points.  A login given a good
\* password of its own leaves the risk list but for its second factor, and the
\* last one that shared the old one goes with it; a code added where the service
\* takes one is never worth less than none.  The redistribution of the
\* two-factor weight (health) and the counting of every member of a reuse group
\* (reused_item_count) both decide this.
FixingNeverHurts ==
    [][\A i \in Reviewed :
        /\ Mended(i) =>
              /\ Score(Inputs') >= Score(Inputs)
              /\ Inputs.reused - Inputs'.reused =
                    CASE Cardinality(Sharing(i)) = 1 -> 0
                      [] Cardinality(Sharing(i)) = 2 -> 2
                      [] OTHER -> 1
              /\ \A r \in Risks' : r.item = i => r.kind = "MissingTwoFactor"
        /\ CodeAdded(i) => Score(Inputs') >= Score(Inputs)]_healthVars

\* Not kept.  services/report.rs says of two_factor_enabled "Capable items that
\* have a TOTP configured."  All the points of the two-factor term are then
\* never given while an item is listed as missing its second factor; they are,
\* because a code at a service outside the directory is counted as well.
FullMarksMissNothing ==
    HasCapable(Inputs) /\ Inputs.enabled >= Inputs.capable
        => \A r \in Risks : r.kind # "MissingTwoFactor"
=============================================================================
