---------------------------- MODULE DesktopSync ----------------------------
(***************************************************************************)
(* The background synchronisation of the desktop application (sync.rs): a  *)
(* single task copies accounts, rules and alerts from the remote database  *)
(* into the local one, row by row, each kind from one SELECT.              *)
(*   full_sync      StartFull, then the stages accounts, rules, alerts     *)
(*   poll_alerts    StartPoll: alerts that are new and active only         *)
(* Meanwhile accounts are opened on either side, changed and deleted on    *)
(* the remote one, rules change and alerts move along the lifecycle on     *)
(* both, and the local engine writes its own tables.                       *)
(*                                                                         *)
(* A failing statement ends the whole pass; the next one starts over.  The *)
(* accounts come first, and their table has three unique columns: a        *)
(* profile that one side gave to another id stops every pass there.        *)
(*                                                                         *)
(* Abstractions.  An account is its id, email and username: nothing else   *)
(* that is copied has a constraint.  A rule is the number of its content,  *)
(* an alert its status and its rule.  An alert's age is new (5 minutes),   *)
(* day (24 hours) or old.  The link is down from the moment a statement    *)
(* fails for a reason of its own, or the application is closed, until      *)
(* statements get through again; a task started while the remote database  *)
(* cannot be reached is in "http" mode and has no link until the next      *)
(* start (it asks the engine for /api/v1/rules, which the engine does not  *)
(* serve).  Analytics, copied after the alerts without any constraint that *)
(* could fail, are left out, and so is the queue of readings to push:      *)
(* nothing in the repository writes to sync_queue.                         *)
(***************************************************************************)
EXTENDS Naturals

CONSTANTS
    Rules, Alerts,
    Profiles,       \* the emails and usernames an account may have, as records
    RemoteIds,      \* the ids the remote database gives to accounts, each one once
    LocalIds,       \* the ids the desktop's own database gives
    None,           \* an account that is not there, an alert without a rule
    Gone,           \* a remote account that was deleted
    MaxVersion,     \* bound: contents of a rule
    MaxLocal        \* bound: changes of rules and alerts made on the desktop

ASSUME RowsAssumption ==
    /\ None \notin Rules
    /\ RemoteIds \cap LocalIds = {}
    /\ {None, Gone} \cap Profiles = {} /\ None # Gone
    /\ \A u \in Profiles : DOMAIN u = {"email", "username"}
ASSUME BoundsAssumption == MaxVersion \in Nat \ {0} /\ MaxLocal \in Nat

VARIABLES
    remoteAccount,  \* the profile of each account in the remote database
    localAccount,   \* and of each one in the desktop's
    referred,       \* local accounts that sessions or audit rows refer to
    remoteRule, localRule,
    remoteStatus, localStatus,
    ruleOf,         \* rule_id of an alert in the remote database
    age,
    pc,             \* the stage of the pass under way
    link,           \* whether the task's statements get through, "up" or "down"
    accountRows, ruleRows, alertRows, rowRule,     \* rows that were read and not written yet
    handledHere,    \* alerts an operator of the desktop has handled
    local           \* their number, for the bound

Remote == INSTANCE AlertLifecycle WITH status <- remoteStatus
Local  == INSTANCE AlertLifecycle WITH status <- localStatus

Ids == RemoteIds \cup LocalIds
Contents == 1..MaxVersion
Absent == 0
Deleted == MaxVersion + 1
NoRows == [a \in Alerts |-> "absent"]
NoAccounts == [p \in RemoteIds |-> None]

accounts == <<remoteAccount, localAccount, referred>>
remote == <<remoteRule, remoteStatus, ruleOf, age>>
replica == <<localRule, localStatus, handledHere, local>>
rows == <<accountRows, ruleRows, alertRows, rowRule>>
task == <<pc, link, rows>>
vars == <<accounts, remote, replica, task>>

TypeOK ==
    /\ remoteAccount \in [RemoteIds -> Profiles \cup {None, Gone}]
    /\ localAccount \in [Ids -> Profiles \cup {None}]
    /\ referred \subseteq Ids
    /\ remoteRule \in [Rules -> {Absent, Deleted} \cup Contents]
    /\ localRule \in [Rules -> {Absent} \cup Contents]
    /\ remoteStatus \in [Alerts -> Remote!Status]
    /\ localStatus \in [Alerts -> Remote!Status]
    /\ ruleOf \in [Alerts -> Rules \cup {None}]
    /\ age \in [Alerts -> {"new", "day", "old"}]
    /\ pc \in {"idle", "accounts", "rules", "alerts", "recent"}
    /\ link \in {"up", "down"}
    /\ accountRows \in [RemoteIds -> Profiles \cup {None}]
    /\ ruleRows \in [Rules -> {Absent} \cup Contents]
    /\ alertRows \in [Alerts -> Remote!Status]
    /\ rowRule \in [Alerts -> Rules \cup {None}]
    /\ handledHere \subseteq Alerts
    /\ local \in 0..MaxLocal

Init ==
    /\ remoteAccount = NoAccounts /\ localAccount = [i \in Ids |-> None] /\ referred = {}
    /\ remoteRule = [r \in Rules |-> Absent] /\ localRule = [r \in Rules |-> Absent]
    /\ Remote!Init /\ Local!Init
    /\ ruleOf = [a \in Alerts |-> None]
    /\ age = [a \in Alerts |-> "new"]
    /\ pc = "idle" /\ link \in {"up", "down"}
    /\ accountRows = NoAccounts /\ ruleRows = [r \in Rules |-> Absent]
    /\ alertRows = NoRows /\ rowRule = [a \in Alerts |-> None]
    /\ handledHere = {} /\ local = 0

-----------------------------------------------------------------------------
(* The remote side: its engine, its administrators and operators. *)

\* Two profiles that no table can hold for two accounts: email and username are unique.
Clash(u, v) == u.email = v.email \/ u.username = v.username

FreeRemotely(p, u) ==
    \A q \in RemoteIds \ {p} : remoteAccount[q] \in Profiles => ~Clash(u, remoteAccount[q])

RemoteSignUp(p, u) ==
    /\ remoteAccount[p] = None /\ FreeRemotely(p, u)
    /\ remoteAccount' = [remoteAccount EXCEPT ![p] = u]
    /\ UNCHANGED <<localAccount, referred, remote, replica, task>>

\* users.updateDetails and users.delete of the dashboard
UpdateDetails(p, u) ==
    /\ remoteAccount[p] \in Profiles /\ FreeRemotely(p, u)
    /\ remoteAccount' = [remoteAccount EXCEPT ![p] = u]
    /\ UNCHANGED <<localAccount, referred, remote, replica, task>>

DeleteAccount(p) ==
    /\ remoteAccount[p] \in Profiles
    /\ remoteAccount' = [remoteAccount EXCEPT ![p] = Gone]
    /\ UNCHANGED <<localAccount, referred, remote, replica, task>>

\* A rule is created with its first content, edited, or deleted; a deletion clears
\* the references of its alerts.
CreateRule(r) ==
    /\ remoteRule[r] = Absent
    /\ remoteRule' = [remoteRule EXCEPT ![r] = 1]
    /\ UNCHANGED <<accounts, remoteStatus, ruleOf, age, replica, task>>

EditRule(r) ==
    /\ remoteRule[r] \in 1..(MaxVersion - 1)
    /\ remoteRule' = [remoteRule EXCEPT ![r] = @ + 1]
    /\ UNCHANGED <<accounts, remoteStatus, ruleOf, age, replica, task>>

DeleteRule(r) ==
    /\ remoteRule[r] \in Contents
    /\ remoteRule' = [remoteRule EXCEPT ![r] = Deleted]
    /\ ruleOf' = [a \in Alerts |-> IF ruleOf[a] = r THEN None ELSE ruleOf[a]]
    /\ UNCHANGED <<accounts, remoteStatus, age, replica, task>>

RaiseAlert(a, r) ==
    /\ remoteRule[r] \in Contents
    /\ Remote!Raise(a)
    /\ ruleOf' = [ruleOf EXCEPT ![a] = r]
    /\ UNCHANGED <<accounts, remoteRule, age, replica, task>>

HandleAlert(a, next) ==
    /\ Remote!Transition({a}, next)
    /\ UNCHANGED <<accounts, remoteRule, ruleOf, age, replica, task>>

GrowOld(a) ==
    /\ remoteStatus[a] # "absent"
    /\ age[a] # "old"
    /\ age' = [age EXCEPT ![a] = IF @ = "new" THEN "day" ELSE "old"]
    /\ UNCHANGED <<accounts, remoteRule, remoteStatus, ruleOf, replica, task>>

-----------------------------------------------------------------------------
(* The desktop: its users and its own engine. *)

Known(i) == localAccount[i] # None

\* auth_signup and ensure_default_accounts: the account gets an id of the desktop's
\* own, if neither its email nor its username is taken there.
SignUp(i, u) ==
    /\ ~Known(i)
    /\ \A j \in Ids : Known(j) => ~Clash(u, localAccount[j])
    /\ localAccount' = [localAccount EXCEPT ![i] = u]
    /\ UNCHANGED <<remoteAccount, referred, remote, replica, task>>

\* A later statement of the signup, or a login with any account the desktop has,
\* inserts a session, and then an audit row, that refer to the account.
IssueSession(i) ==
    /\ Known(i) /\ i \notin referred
    /\ referred' = referred \cup {i}
    /\ UNCHANGED <<remoteAccount, localAccount, remote, replica, task>>

LocalChange == local < MaxLocal /\ local' = local + 1

LocalEditRule(r, content) ==
    /\ LocalChange
    /\ localRule[r] # Absent
    /\ localRule' = [localRule EXCEPT ![r] = content]
    /\ UNCHANGED <<accounts, remote, localStatus, handledHere, task>>

LocalDeleteRule(r) ==
    /\ LocalChange
    /\ localRule[r] # Absent
    /\ localRule' = [localRule EXCEPT ![r] = Absent]
    /\ UNCHANGED <<accounts, remote, localStatus, handledHere, task>>

LocalHandleAlert(a, next) ==
    /\ LocalChange
    /\ Local!Transition({a}, next)
    /\ handledHere' = handledHere \cup {a}
    /\ UNCHANGED <<accounts, remote, localRule, task>>

-----------------------------------------------------------------------------
(* The task *)

\* The pass ends, or is given up: what was read and not written is forgotten.
EndPass ==
    /\ pc' = "idle"
    /\ accountRows' = NoAccounts
    /\ ruleRows' = [r \in Rules |-> Absent]
    /\ alertRows' = NoRows
    /\ rowRule' = [a \in Alerts |-> None]

\* full_sync, on the timer or by hand: SELECT ... FROM accounts
StartFull ==
    /\ pc = "idle" /\ link = "up"
    /\ pc' = "accounts"
    /\ accountRows' = [p \in RemoteIds |-> IF remoteAccount[p] = Gone THEN None ELSE remoteAccount[p]]
    /\ UNCHANGED <<accounts, remote, replica, link, ruleRows, alertRows, rowRule>>

\* SELECT ... FROM alerts of a window
ReadAlerts(window) ==
    /\ alertRows' = [a \in Alerts |-> IF a \in window THEN remoteStatus[a] ELSE "absent"]
    /\ rowRule' = ruleOf

\* poll_alerts, every 30 seconds
StartPoll ==
    /\ pc = "idle" /\ link = "up"
    /\ pc' = "recent"
    /\ ReadAlerts({a \in Alerts : age[a] = "new" /\ remoteStatus[a] = "active"})
    /\ UNCHANGED <<accounts, remote, replica, link, accountRows, ruleRows>>

\* INSERT ... ON CONFLICT (email) DO UPDATE SET id, username.  The account that has
\* the email is given the id p: not if rows refer to the id it has.  Any other
\* account must have neither the id nor the username.
Conflicts(p, u) ==
    \E i \in Ids :
        /\ Known(i)
        /\ IF localAccount[i].email = u.email
             THEN i # p /\ i \in referred
             ELSE i = p \/ localAccount[i].username = u.username

PullAccount(p) ==
    /\ pc = "accounts" /\ accountRows[p] # None
    /\ LET u == accountRows[p] IN
       IF Conflicts(p, u)
         THEN EndPass /\ UNCHANGED localAccount
         ELSE /\ localAccount' = [i \in Ids |->
                   IF i = p THEN u
                   ELSE IF Known(i) /\ localAccount[i].email = u.email THEN None
                   ELSE localAccount[i]]
              /\ accountRows' = [accountRows EXCEPT ![p] = None]
              /\ UNCHANGED <<pc, ruleRows, alertRows, rowRule>>
    /\ UNCHANGED <<remoteAccount, referred, remote, replica, link>>

PullRule(r) ==
    /\ pc = "rules" /\ ruleRows[r] # Absent
    /\ localRule' = [localRule EXCEPT ![r] = ruleRows[r]]
    /\ ruleRows' = [ruleRows EXCEPT ![r] = Absent]
    /\ UNCHANGED <<accounts, remote, localStatus, handledHere, local, pc, link, accountRows,
                   alertRows, rowRule>>

\* The INSERT of a new alert needs its rule in the local table.
Insertable(a) == rowRule[a] = None \/ localRule[rowRule[a]] # Absent

\* INSERT ... ON CONFLICT (id) DO UPDATE SET status
Upserted_Reopens(a) == IF localStatus[a] = "absent" THEN alertRows[a] ELSE "active"
Upserted_Kept(a) == IF localStatus[a] = "absent" THEN alertRows[a] ELSE localStatus[a]
Upserted(a) == alertRows[a]
PullAlert(a) ==
    /\ pc \in {"alerts", "recent"} /\ alertRows[a] # "absent"
    /\ IF localStatus[a] = "absent" /\ ~Insertable(a)
         THEN EndPass /\ UNCHANGED localStatus
         ELSE /\ localStatus' = [localStatus EXCEPT ![a] = Upserted(a)]
              /\ alertRows' = [alertRows EXCEPT ![a] = "absent"]
              /\ UNCHANGED <<pc, accountRows, ruleRows, rowRule>>
    /\ UNCHANGED <<accounts, remote, localRule, handledHere, local, link>>

\* The stage that follows, in the order of full_sync.
Follows_AlertsFirst == [accounts |-> "alerts", alerts |-> "rules", rules |-> "idle", recent |-> "idle"]
Follows == [accounts |-> "rules", rules |-> "alerts", alerts |-> "idle", recent |-> "idle"]

\* All rows of a stage are written; the next stage reads its rows.
NextStage ==
    /\ pc # "idle"
    /\ accountRows = NoAccounts /\ ruleRows = [r \in Rules |-> Absent] /\ alertRows = NoRows
    /\ pc' = Follows[pc]
    /\ ruleRows' = [r \in Rules |-> IF pc' = "rules" /\ remoteRule[r] \in Contents
                                      THEN remoteRule[r] ELSE Absent]
    /\ IF pc' = "alerts"
         THEN ReadAlerts({a \in Alerts : age[a] # "old"})
         ELSE alertRows' = NoRows /\ rowRule' = [a \in Alerts |-> None]
    /\ UNCHANGED <<accounts, remote, replica, link, accountRows>>

\* The task is without the remote database: run could not connect, a connection is
\* lost or a statement fails for another reason, or the application is closed.
LoseLink ==
    /\ link = "up"
    /\ link' = "down"
    /\ EndPass
    /\ UNCHANGED <<accounts, remote, replica>>

RegainLink ==
    /\ link = "down"
    /\ link' = "up"
    /\ UNCHANGED <<accounts, remote, replica, pc, rows>>

-----------------------------------------------------------------------------
Write ==
    \/ \E p \in RemoteIds : PullAccount(p)
    \/ \E r \in Rules : PullRule(r)
    \/ \E a \in Alerts : PullAlert(a)

Next ==
    \/ \E p \in RemoteIds :
         \/ DeleteAccount(p)
         \/ \E u \in Profiles : RemoteSignUp(p, u) \/ UpdateDetails(p, u)
    \/ \E i \in LocalIds, u \in Profiles : SignUp(i, u)
    \/ \E i \in Ids : IssueSession(i)
    \/ \E r \in Rules :
         \/ CreateRule(r) \/ EditRule(r) \/ DeleteRule(r) \/ LocalDeleteRule(r)
         \/ \E content \in Contents : LocalEditRule(r, content)
         \/ \E a \in Alerts : RaiseAlert(a, r)
    \/ \E a \in Alerts :
         \/ GrowOld(a)
         \/ \E next \in Remote!Targets : HandleAlert(a, next) \/ LocalHandleAlert(a, next)
    \/ StartFull \/ StartPoll \/ Write \/ NextStage
    \/ LoseLink \/ RegainLink

Spec == Init /\ [][Next]_vars

\* The task is polled by the runtime: a pass that is under way goes on.  The timer
\* of the full pass is looked at after every poll, so that polls cannot crowd it
\* out (strong fairness).
FairSpec == Spec /\ WF_vars(Write) /\ WF_vars(NextStage) /\ SF_vars(StartFull)

-----------------------------------------------------------------------------
(* Properties *)

\* A remote account whose row cannot be written as the desktop's accounts are now:
\* its email has an account with another id that is referred to, or its username or
\* its id is that of an account with another email.
Diverged == \E p \in RemoteIds :
    remoteAccount[p] \in Profiles /\ Conflicts(p, remoteAccount[p])

\* The task is without the remote database, or cannot get past the accounts.
Cut == link = "down" \/ Diverged

\* Whatever passes were given up on the way, for an account or an alert's rule that
\* was in the way, a lost connection or a restart, and whatever the desktop did to its
\* own row, the content of a rule arrives there again and again, unless the task is cut
\* off again and again.
RulesArrive ==
    \A r \in Rules :
        []<>(remoteRule[r] \in Contents => localRule[r] = remoteRule[r] \/ Cut)

\* And so does the status of an alert that is young enough to be copied.
AlertsArrive ==
    \A a \in Alerts :
        []<>(remoteStatus[a] # "absent" /\ age[a] # "old"
               => localStatus[a] = remoteStatus[a] \/ Cut)

Handled(status) == status \in Remote!Targets

\* Polls and full passes both write statuses that were read a while before: none
\* of them opens again an alert that was closed remotely and is known to be.
NeverReopened ==
    [][ \A a \in Alerts \ handledHere :
          Handled(localStatus[a]) => Handled(localStatus'[a]) ]_vars

\* docs/architecture.md:332, "when SCEMAS_REMOTE_DB_URL is set, a background sync
\* service replicates data from the remote database": the contents of rules arrive
\* again and again, unless the link to it is down again and again.
RulesAreReplicated ==
    \A r \in Rules :
        []<>(remoteRule[r] \in Contents => localRule[r] = remoteRule[r] \/ link = "down")

=============================================================================
