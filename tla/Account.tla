------------------------------- MODULE Account -------------------------------
(***************************************************************************)
(* The local account, its sessions, the remembered session, the licence    *)
(* and the preferences (commands/auth.rs, auth.rs, license.rs,             *)
(* commands/prefs.rs), and what factory_reset (commands/system.rs) does to *)
(* them.                                                                   *)
(*                                                                         *)
(* A command takes the lock of the database, or that of the sessions, for  *)
(* one statement at a time; what it works out between two of them belongs  *)
(* to the step before.  A command that is refused before it changes        *)
(* anything, and one that only reads (has_account, get_account, verify_    *)
(* password, record_lock_event, get_pref, get_cache_root_info), is left    *)
(* out.                                                                    *)
(*                                                                         *)
(* accounts.id is an INTEGER PRIMARY KEY and the table has one row at      *)
(* most, so every account there ever was has id 1.  The program cannot     *)
(* tell them apart; here born can, which is the command that made it.      *)
(***************************************************************************)
EXTENDS Naturals, FiniteSets

CONSTANTS
    Tasks,      \* commands that may be in progress at the same time
    Names,      \* user names
    Passwords,  \* passwords that are long enough
    Tokens,     \* session tokens
    Keys,       \* licence keys that verify
    Roots,      \* directories the block cache may be in
    Default,    \* the one it is in without the preference
    Lifetime,   \* REMEMBER_ME_TTL_SECS
    MaxTime,    \* bound: the clock
    MaxCalls,   \* bound: commands that begin
    DbFails,    \* a statement whose result is ignored, or a removal, may fail
    Foreign,    \* a preference that those who read it do not understand
    None

ASSUME AccountAssumption ==
    /\ Lifetime \in Nat /\ MaxTime \in Nat /\ MaxCalls \in Nat
    /\ Default \in Roots /\ DbFails \in BOOLEAN

VARIABLES
    now,       \* the clock
    account,   \* the row of accounts
    record,    \* prefs: persisted_session_v1
    install,   \* prefs: install_at, when the trial began
    licence,   \* prefs: license_jwt
    root,      \* prefs: cache_root
    filled,    \* directories that hold blocks and listings
    sessions,  \* AppState.sessions
    spent,     \* tokens that were given out
    task,      \* the commands in progress
    begun,     \* how many commands have begun
    marks,     \* history: what the properties make an exception for
    clean      \* history: the last command was a reset, and nothing ran beside it

prefs == <<record, install, licence, root>>
live  == <<sessions, spent>>
vars  == <<now, account, prefs, filled, live, task, begun, marks, clean>>

-----------------------------------------------------------------------------
(* What is stored *)

Calls == 0..MaxCalls
Times == 0..MaxTime

Row     == [born : Calls, name : Names, pw : Passwords]
Session == [born : Calls, name : Names]

ASSUME NoRowAssumption == None \notin Row

\* The remembered session; doomed once a sign-out has begun.
Saved == [born : Calls, name : Names, expires : Nat, doomed : BOOLEAN]

\* "lapsed": a statement failed and the command went on; "reset": the tables were wiped
\* since the process started; "straddled": they were while another command was at work.
Mark == {"lapsed", "reset", "straddled"}

Pc == {"idle", "check", "mint", "persist", "clear", "forget", "change", "update",
       "prefer", "activate", "deactivate", "status", "began", "wipe", "sweep"}

\* A command: for whom it acts, what it was given, and whether it has been alone so far.
Task == [pc : Pc, who : Session \cup {None}, old : Passwords \cup {None},
         new : Passwords \cup {None}, remember : BOOLEAN,
         value : Keys \cup Times \cup {None}, alone : BOOLEAN]

Idle == [pc |-> "idle", who |-> None, old |-> None, new |-> None, remember |-> FALSE,
         value |-> None, alone |-> FALSE]

Init ==
    /\ now = 0
    /\ account = None
    /\ record = None /\ install = None /\ licence = None /\ root = None
    /\ filled = {}
    /\ sessions = [t \in Tokens |-> None] /\ spent = {}
    /\ task = [p \in Tasks |-> Idle]
    /\ begun = 0 /\ marks = {} /\ clean = FALSE

-----------------------------------------------------------------------------
(* Steps of a command *)

Busy == {p \in Tasks : task[p].pc # "idle"}

\* A command begins as t says; nobody is alone any more if others are at work.
Begin(p, t) ==
    /\ p \notin Busy /\ begun < MaxCalls
    /\ begun' = begun + 1 /\ clean' = FALSE
    /\ task' = [q \in Tasks |->
                  IF q = p THEN [t EXCEPT !.alone = (Busy = {})]
                  ELSE [task[q] EXCEPT !.alone = FALSE]]

At(p, pc)   == task[p].pc = pc
Goto(p, pc) == task' = [task EXCEPT ![p].pc = pc]
Return(p)   == task' = [task EXCEPT ![p] = Idle]

Quiet == UNCHANGED <<begun, clean>>

\* require_auth: the session of a token the caller holds.
Authenticated(t) == sessions[t] # None

\* Something takes effect, or fails and the command goes on.
Holds(done, same) ==
    \/ done /\ UNCHANGED marks
    \/ DbFails /\ same /\ marks' = marks \cup {"lapsed"}

-----------------------------------------------------------------------------
(* create_admin, sign_in, try_restore_session, sign_out *)

\* The table is counted and filled under one lock.
CreateAdmin(p) ==
    /\ account = None
    /\ p \notin Busy /\ begun < MaxCalls
    /\ begun' = begun + 1 /\ clean' = FALSE
    /\ \E n \in Names, w \in Passwords :
          account' = [born |-> begun + 1, name |-> n, pw |-> w]
    /\ task' = [q \in Tasks |-> [task[q] EXCEPT !.alone = FALSE]]
    /\ UNCHANGED <<now, prefs, filled, live, marks>>

\* The row of the name is read and the password verified.
SignIn(p) ==
    /\ account # None
    /\ \E b \in BOOLEAN :
          Begin(p, [Idle EXCEPT !.pc = "mint", !.remember = b,
                                !.who = [born |-> account.born, name |-> account.name]])
    /\ UNCHANGED <<now, account, prefs, filled, live, marks>>

\* The record is read, and unwrapped: one that is foreign or has expired is cleared.
Restore(p) ==
    /\ record # None
    /\ Begin(p, IF record = Foreign THEN [Idle EXCEPT !.pc = "clear"]
                ELSE IF record.expires <= now THEN [Idle EXCEPT !.pc = "clear"]
                ELSE [Idle EXCEPT !.pc = "check", !.remember = TRUE,
                                  !.who = [born |-> record.born, name |-> record.name]])
    /\ UNCHANGED <<now, account, prefs, filled, live, marks>>

\* The account of that id must still have that name.
Check(p) ==
    /\ At(p, "check")
    /\ Goto(p, IF account = None THEN "clear"
               ELSE IF account.name = task[p].who.name THEN "mint" ELSE "clear")
    /\ UNCHANGED <<now, account, prefs, filled, live, marks>> /\ Quiet

\* A token that never was; the caller has it when the command returns.
Mint(p) ==
    /\ At(p, "mint")
    /\ \E t \in Tokens \ spent :
          /\ sessions' = [sessions EXCEPT ![t] = task[p].who]
          /\ spent' = spent \cup {t}
    /\ IF task[p].remember THEN Goto(p, "persist") ELSE Return(p)
    /\ UNCHANGED <<now, account, prefs, filled, marks>> /\ Quiet

Persist(p) ==
    /\ At(p, "persist")
    /\ Holds(record' = [born |-> task[p].who.born, name |-> task[p].who.name,
                        expires |-> now + Lifetime, doomed |-> FALSE],
             record' = record)
    /\ Return(p)
    /\ UNCHANGED <<now, account, install, licence, root, filled, live>> /\ Quiet

\* Mutant of SignOut: a token the map does not know is not worth a statement.
SignOutKnown(p) ==
    \E t \in spent :
        /\ Begin(p, IF Authenticated(t) THEN [Idle EXCEPT !.pc = "forget"] ELSE Idle)
        /\ sessions' = [sessions EXCEPT ![t] = None]
        /\ record' = IF record \in {None, Foreign} THEN record
                     ELSE [record EXCEPT !.doomed = TRUE]
        /\ UNCHANGED <<now, account, install, licence, root, filled, spent, marks>>

\* The token leaves the map, if it is in it; the record is cleared after that.
SignOut(p) ==
    \E t \in spent :
        /\ Begin(p, [Idle EXCEPT !.pc = "forget"])
        /\ sessions' = [sessions EXCEPT ![t] = None]
        /\ record' = IF record \in {None, Foreign} THEN record
                     ELSE [record EXCEPT !.doomed = TRUE]
        /\ UNCHANGED <<now, account, install, licence, root, filled, spent, marks>>

\* clear_persisted_session, from a restore that came to nothing or from a sign-out.
Clear(p) ==
    /\ At(p, "clear") \/ At(p, "forget")
    /\ Holds(record' = None, record' = record)
    /\ Return(p)
    /\ UNCHANGED <<now, account, install, licence, root, filled, live>> /\ Quiet

-----------------------------------------------------------------------------
(* change_password *)

ChangePassword(p) ==
    /\ \E t \in Tokens, o, n \in Passwords :
          Authenticated(t) /\ Begin(p, [Idle EXCEPT !.pc = "change", !.old = o, !.new = n])
    /\ UNCHANGED <<now, account, prefs, filled, live, marks>>

\* The row of id 1 is read, and the old password verified.
ChangeVerifies(p) ==
    /\ At(p, "change")
    /\ IF account = None THEN Return(p)
       ELSE IF account.pw # task[p].old THEN Return(p)
       ELSE task' = [task EXCEPT ![p].pc = "update",
                                 ![p].who = [born |-> account.born, name |-> account.name]]
    /\ UNCHANGED <<now, account, prefs, filled, live, marks>> /\ Quiet

Update(p) ==
    /\ At(p, "update")
    /\ account' = IF account = None THEN None ELSE [account EXCEPT !.pw = task[p].new]
    /\ Return(p)
    /\ UNCHANGED <<now, prefs, filled, live, marks>> /\ Quiet

-----------------------------------------------------------------------------
(* set_pref and clear_pref; the drives that use the directory of the cache *)

SetPref(p) ==
    /\ \E t \in Tokens : Authenticated(t) /\ Begin(p, [Idle EXCEPT !.pc = "prefer"])
    /\ UNCHANGED <<now, account, prefs, filled, live, marks>>

\* Any key is taken, with any value, those that the program keeps for itself included.
Prefer(p) ==
    /\ At(p, "prefer")
    /\ \/ root' \in Roots \cup {None} /\ UNCHANGED <<record, install, licence>>
       \/ install' \in Times \cup {Foreign, None} /\ UNCHANGED <<record, licence, root>>
       \/ licence' \in Keys \cup {Foreign, None} /\ UNCHANGED <<record, install, root>>
       \/ record' \in {Foreign, None} /\ UNCHANGED <<install, licence, root>>
    /\ Return(p)
    /\ UNCHANGED <<now, account, filled, live, marks>> /\ Quiet

\* get_cache_root
CacheRoot == IF root = None THEN Default ELSE root

\* A mounted drive caches blocks; a reset unmounts all of them before it wipes (that step is
\* in MountLifecycle).
Fills ==
    /\ account # None
    /\ \A p \in Tasks : task[p].pc \notin {"wipe", "sweep"}
    /\ filled' = filled \cup {CacheRoot}
    /\ UNCHANGED <<now, account, prefs, live, task, begun, marks, clean>>

-----------------------------------------------------------------------------
(* activate_license, deactivate_license, and compute_status at the end of both, in *)
(* get_license_status and in require_pro                                           *)

\* The key is verified before anything is stored.
Activate(p) ==
    /\ \E t \in Tokens, k \in Keys :
          Authenticated(t) /\ Begin(p, [Idle EXCEPT !.pc = "activate", !.value = k])
    /\ UNCHANGED <<now, account, prefs, filled, live, marks>>

Deactivate(p) ==
    /\ \E t \in Tokens : Authenticated(t) /\ Begin(p, [Idle EXCEPT !.pc = "deactivate"])
    /\ UNCHANGED <<now, account, prefs, filled, live, marks>>

StoreKey(p) ==
    /\ At(p, "activate") \/ At(p, "deactivate")
    /\ licence' = IF At(p, "activate") THEN task[p].value ELSE None
    /\ Goto(p, "status")
    /\ UNCHANGED <<now, account, record, install, root, filled, live, marks>> /\ Quiet

Status(p) ==
    /\ \E t \in Tokens : Authenticated(t) /\ Begin(p, [Idle EXCEPT !.pc = "status"])
    /\ UNCHANGED <<now, account, prefs, filled, live, marks>>

\* Without an install_at that is a number, the trial begins now.
ReadInstall(p) ==
    /\ At(p, "status")
    /\ IF install \in Times THEN Return(p)
       ELSE task' = [task EXCEPT ![p].pc = "began", ![p].value = now]
    /\ UNCHANGED <<now, account, prefs, filled, live, marks>> /\ Quiet

\* Mutant of BeginTrial: INSERT OR REPLACE.
BeginTrialAgain(p) ==
    /\ At(p, "began")
    /\ install' = task[p].value
    /\ Return(p)
    /\ UNCHANGED <<now, account, record, licence, root, filled, live, marks>> /\ Quiet

\* INSERT OR IGNORE, with its error ignored.
BeginTrial(p) ==
    /\ At(p, "began")
    /\ \/ install' = IF install = None THEN task[p].value ELSE install
       \/ DbFails /\ install' = install
    /\ Return(p)
    /\ UNCHANGED <<now, account, record, licence, root, filled, live, marks>> /\ Quiet

-----------------------------------------------------------------------------
(* factory_reset, after the drives are unmounted *)

Reset(p) ==
    /\ \E t \in Tokens : Authenticated(t) /\ Begin(p, [Idle EXCEPT !.pc = "wipe"])
    /\ UNCHANGED <<now, account, prefs, filled, live, marks>>

\* What is remembered of a wipe that another command is at work beside.
Beside(p) == IF Busy = {p} THEN {} ELSE {"straddled"}

\* Mutant of Wipe: the preferences are forgotten.
WipeAccountOnly(p) ==
    /\ At(p, "wipe")
    /\ account' = None
    /\ marks' = marks \cup {"reset"} \cup Beside(p)
    /\ Goto(p, "sweep")
    /\ UNCHANGED <<now, prefs, filled, live>> /\ Quiet

\* The tables in one batch, accounts first and prefs last: one statement that fails is the
\* end of it, and the command goes on.  The sessions in memory stay.
Wipe(p) ==
    /\ At(p, "wipe")
    /\ \/ /\ account' = None
          /\ record' = None /\ install' = None /\ licence' = None /\ root' = None
          /\ marks' = marks \cup {"reset"} \cup Beside(p)
       \/ /\ DbFails /\ marks' = marks \cup {"lapsed"} \cup Beside(p)
          /\ account' \in {account, None}
          /\ UNCHANGED prefs
    /\ Goto(p, "sweep")
    /\ UNCHANGED <<now, filled, live>> /\ Quiet

\* Mutant of Sweep: the directory is left to the next mount.
SweepNothing(p) ==
    /\ At(p, "sweep")
    /\ Return(p) /\ clean' = task[p].alone
    /\ UNCHANGED <<now, account, prefs, filled, live, begun, marks>>

\* The directory is asked of the preferences that have just been wiped.
Sweep(p) ==
    /\ At(p, "sweep")
    /\ Holds(filled' = filled \ {CacheRoot}, filled' = filled)
    /\ Return(p) /\ clean' = task[p].alone
    /\ UNCHANGED <<now, account, prefs, live, begun>>

-----------------------------------------------------------------------------
(* Time, the machine, the process *)

Tick ==
    /\ now < MaxTime /\ now' = now + 1
    /\ UNCHANGED <<account, prefs, filled, live, task, begun, marks, clean>>

\* The profile is copied to another machine or user, whose DPAPI cannot unwrap it.
Copied ==
    /\ record \notin {None, Foreign} /\ record' = Foreign
    /\ UNCHANGED <<now, account, install, licence, root, filled, live, task, begun, marks,
                   clean>>

\* The process ends, whatever it was doing, and starts again.
Restart ==
    /\ sessions' = [t \in Tokens |-> None]
    /\ task' = [p \in Tasks |-> Idle]
    /\ record' = IF record \in {None, Foreign} THEN record
                 ELSE [record EXCEPT !.doomed = FALSE]
    /\ marks' = marks \ {"reset"} /\ clean' = FALSE
    /\ UNCHANGED <<now, account, install, licence, root, filled, spent, begun>>

Command(p) ==
    \/ CreateAdmin(p) \/ SignIn(p) \/ Restore(p) \/ SignOut(p) \/ ChangePassword(p)
    \/ SetPref(p) \/ Activate(p) \/ Deactivate(p) \/ Status(p) \/ Reset(p)

TaskStep(p) ==
    \/ Check(p) \/ Mint(p) \/ Persist(p) \/ Clear(p) \/ ChangeVerifies(p) \/ Update(p)
    \/ Prefer(p) \/ StoreKey(p) \/ ReadInstall(p) \/ BeginTrial(p) \/ Wipe(p) \/ Sweep(p)

Next ==
    \/ \E p \in Tasks : Command(p) \/ TaskStep(p)
    \/ Fills \/ Tick \/ Copied \/ Restart

Spec == Init /\ [][Next]_vars

-----------------------------------------------------------------------------
(* Properties *)

TypeOK ==
    /\ now \in Times
    /\ account \in Row \cup {None}
    /\ record \in Saved \cup {None, Foreign}
    /\ install \in Times \cup {Foreign, None}
    /\ licence \in Keys \cup {Foreign, None}
    /\ root \in Roots \cup {None} /\ filled \subseteq Roots
    /\ sessions \in [Tokens -> Session \cup {None}] /\ spent \subseteq Tokens
    /\ task \in [Tasks -> Task]
    /\ begun \in Calls /\ marks \subseteq Mark /\ clean \in BOOLEAN

Owns(s) == account # None /\ s.born = account.born /\ s.name = account.name

(***************************************************************************)
(* Every session, in memory, remembered, or about to be, is of the account *)
(* that is in the table, although all accounts have the same id: across    *)
(* sign-outs, restores, password changes, restarts and resets, until a     *)
(* reset is carried out beside another command, or fails; and, for the     *)
(* sessions in memory, which a reset leaves alone, until the next start    *)
(* after a reset (auth.rs sign_in, try_restore_session; system.rs          *)
(* factory_reset).                                                         *)
(***************************************************************************)
SessionsOfAccount ==
    marks \cap {"straddled", "lapsed"} = {} =>
        /\ record \notin {None, Foreign} => Owns(record)
        /\ \A p \in Tasks : task[p].pc \in {"check", "mint", "persist"} => Owns(task[p].who)
        /\ "reset" \notin marks => \A t \in Tokens : sessions[t] # None => Owns(sessions[t])

(***************************************************************************)
(* "An explicit sign-out always clears the persisted record": what was     *)
(* remembered when a sign-out began is gone when it has returned, whatever *)
(* overlapped with it, and whether or not the token was still known        *)
(* (auth.rs sign_out).                                                     *)
(***************************************************************************)
SignOutForgets ==
    "lapsed" \notin marks /\ record \notin {None, Foreign} /\ record.doomed =>
        \E p \in Tasks : task[p].pc = "forget"

(***************************************************************************)
(* What outlives the process is changed by nobody else: a password by a    *)
(* command that has verified the old one against the same account, unless  *)
(* a reset came between; the start of the trial by a reset, or by whoever  *)
(* sets that preference, but by no look at the licence, however these      *)
(* overlap (auth.rs change_password, license.rs compute_status, prefs.rs   *)
(* set_pref, clear_pref).                                                  *)
(***************************************************************************)
LastingIsKept ==
    [][/\ account # None /\ account' # None /\ account'.pw # account.pw
            /\ "straddled" \notin marks
          => \E p \in Tasks : At(p, "update") /\ Owns(task[p].who)
       /\ install # None /\ install' # install
          => \/ install' = None /\ account' = None
             \/ \E p \in Tasks : At(p, "prefer") /\ task'[p] = Idle]_vars

(***************************************************************************)
(* After a reset beside which nothing ran, and before the next command,    *)
(* there is no account, no preference, and nothing in the directory of the *)
(* cache unless another one was chosen (system.rs factory_reset).          *)
(***************************************************************************)
ResetLeavesNothing ==
    clean /\ "lapsed" \notin marks =>
        /\ account = None /\ record = None /\ install = None /\ licence = None /\ root = None
        /\ Default \notin filled
=============================================================================
