------------------------------ MODULE Sessions ------------------------------
(***************************************************************************)
(* Browser sessions and the one password (web/auth.go, shared/session):    *)
(* signing in, signing out, setting, changing and removing the password.   *)
(*                                                                         *)
(* A handler is split where it lets others in: checking and hashing a      *)
(* password is slow, the config is saved under its own lock and the        *)
(* session store has another.  A save of the password makes the next       *)
(* version of it; the password a browser types is right or wrong for the   *)
(* version the handler reads, and a wrong one changes nothing.             *)
(***************************************************************************)
EXTENDS Naturals, FiniteSets

CONSTANTS
    Browsers,
    MaxVersions,    \* bound: saves of the password
    MaxSessions     \* bound: sessions ever created

Anon == 0

VARIABLES
    on,         \* config: a password is set and asked for (Auth.EnablePassword, PasswordHash)
    version,    \* how often the password was saved
    live,       \* the session store: ids not expired
    created,    \* the last session id given out
    jar,        \* the session cookie of each browser
    busy,       \* the handler each browser has under way
    born,       \* ghost: the version each session was created or kept under
    setter      \* ghost: the browser whose change came last and undisturbed

vars == <<on, version, live, created, jar, busy, born, setter>>

Idle == [at |-> "idle", sid |-> Anon, wasOn |-> FALSE, ver |-> 0]
NoSetter == [who |-> "none", ver |-> 0]
Sids == 1..MaxSessions

Init ==
    /\ on = FALSE
    /\ version = 0 /\ live = {} /\ created = 0
    /\ jar = [b \in Browsers |-> Anon]
    /\ busy = [b \in Browsers |-> Idle]
    /\ born = [i \in Sids |-> 0]
    /\ setter = NoSetter

At(b, where) == busy' = [busy EXCEPT ![b].at = where]

\* Gate: the session a page request carries, when it is let in.
Admitted(b) == on => jar[b] \in live
Carried(b) == IF on THEN jar[b] ELSE Anon

\* loginPost: the password is checked against the hash of the moment.
LoginCheck(b) ==
    /\ busy[b] = Idle
    /\ on
    /\ At(b, "login")
    /\ UNCHANGED <<on, version, live, created, jar, born, setter>>

\* Store.Create: a new id, which the cookie carries.
Opened(b) ==
    /\ created < MaxSessions
    /\ created' = created + 1
    /\ live' = live \cup {created + 1}
    /\ jar' = [jar EXCEPT ![b] = created + 1]
    /\ born' = [born EXCEPT ![created + 1] = version]

LoginDone(b) ==
    /\ busy[b].at = "login"
    /\ Opened(b)
    /\ busy' = [busy EXCEPT ![b] = Idle]
    /\ UNCHANGED <<on, version, setter>>

Logout(b) ==
    /\ busy[b] = Idle /\ jar[b] # Anon /\ Admitted(b)
    /\ live' = live \ {jar[b]}
    /\ jar' = [jar EXCEPT ![b] = Anon]
    /\ setter' = IF setter.who = b THEN NoSetter ELSE setter
    /\ UNCHANGED <<on, version, created, busy, born>>

\* Valid and SweepExpired drop what has expired.
Expire(i) ==
    /\ i \in live
    /\ live' = live \ {i}
    /\ setter' = IF setter.who # "none" /\ jar[setter.who] = i THEN NoSetter ELSE setter
    /\ UNCHANGED <<on, version, created, jar, busy, born>>

-----------------------------------------------------------------------------
(* the password *)

\* settingsPasswordPost: the current password, if there is one, is right.
ChangeCheck(b) ==
    /\ busy[b] = Idle
    /\ Admitted(b)
    /\ busy' = [busy EXCEPT ![b] = [Idle EXCEPT !.at = "hash", !.sid = Carried(b), !.ver = version]]
    /\ UNCHANGED <<on, version, live, created, jar, born, setter>>

\* The new one is hashed, and whether a login applied is read.
ChangeHash(b) ==
    /\ busy[b].at = "hash"
    /\ busy' = [busy EXCEPT ![b].at = "save", ![b].wasOn = on]
    /\ UNCHANGED <<on, version, live, created, jar, born, setter>>

\* A save that fails ends the handler.
Abandon(b) ==
    /\ busy[b].at \in {"save", "unset"}
    /\ busy' = [busy EXCEPT ![b] = Idle]
    /\ UNCHANGED <<on, version, live, created, jar, born, setter>>

ChangeSave(b) ==
    /\ busy[b].at = "save"
    /\ version < MaxVersions
    /\ on' = TRUE
    /\ version' = version + 1
    /\ At(b, IF busy[b].wasOn THEN "clear" ELSE "open")
    /\ UNCHANGED <<live, created, jar, born, setter>>

\* mutant: the setter keeps the session its request carries, always
OpenNone(b) == UNCHANGED <<live, created, jar, born>> /\ At(b, "clear")

\* With no login the setter had no session, and gets one.
Open(b) == Opened(b) /\ busy' = [busy EXCEPT ![b].at = "clear", ![b].sid = created + 1]

ChangeOpen(b) ==
    /\ busy[b].at = "open"
    /\ Open(b)
    /\ UNCHANGED <<on, version, setter>>

\* mutant: only the setter's other sessions end
ClearedOwn(keep, b) == live \ ({jar[b]} \ {keep})

\* Store.ClearExcept
Cleared(keep, b) == live \cap {keep}

ChangeClear(b) ==
    /\ busy[b].at = "clear"
    /\ live' = Cleared(busy[b].sid, b)
    /\ born' = IF busy[b].sid = Anon THEN born ELSE [born EXCEPT ![busy[b].sid] = version]
    /\ setter' = IF version = busy[b].ver + 1 /\ (\A c \in Browsers \ {b} : busy[c].at \notin {"open", "clear", "cleared"})
                    /\ jar[b] = busy[b].sid /\ busy[b].sid \in live \cup {Anon}
                 THEN [who |-> b, ver |-> version] ELSE NoSetter
    /\ busy' = [busy EXCEPT ![b] = Idle]
    /\ UNCHANGED <<on, version, created, jar>>

\* settingsRemovePasswordPost
RemoveCheck(b) ==
    /\ busy[b] = Idle
    /\ Admitted(b)
    /\ At(b, "unset")
    /\ UNCHANGED <<on, version, live, created, jar, born, setter>>

RemoveSave(b) ==
    /\ busy[b].at = "unset"
    /\ version < MaxVersions
    /\ on' = FALSE
    /\ version' = version + 1
    /\ At(b, "cleared")
    /\ UNCHANGED <<live, created, jar, born, setter>>

RemoveClear(b) ==
    /\ busy[b].at = "cleared"
    /\ live' = {}
    /\ busy' = [busy EXCEPT ![b] = Idle]
    /\ setter' = NoSetter
    /\ UNCHANGED <<on, version, created, jar, born>>

\* Nothing outlives the process but the password.
Restart ==
    /\ live # {}
    /\ live' = {}
    /\ busy' = [b \in Browsers |-> Idle]
    /\ setter' = NoSetter
    /\ UNCHANGED <<on, version, created, jar, born>>

Next ==
    \/ \E b \in Browsers : \/ LoginCheck(b) \/ LoginDone(b) \/ Logout(b)
                           \/ ChangeCheck(b) \/ ChangeHash(b) \/ ChangeSave(b) \/ ChangeOpen(b) \/ ChangeClear(b)
                           \/ RemoveCheck(b) \/ RemoveSave(b) \/ RemoveClear(b)
                           \/ Abandon(b)
    \/ \E i \in Sids : Expire(i)
    \/ Restart

Spec == Init /\ [][Next]_vars

-----------------------------------------------------------------------------
(* Properties *)

\* "every other browser signs in again" (auth.go:154): once no change is under
\* way, no session is left that existed when the password was last saved, but
\* the one of the browser that saved it; and that browser, when no other
\* change ran beside its own, is still signed in with the cookie it holds.
ChangeSignsOut ==
    (\A b \in Browsers : busy[b].at \notin {"open", "clear", "cleared"}) =>
        /\ \A i \in live : born[i] = version
        /\ setter.ver = version /\ version > 0 => jar[setter.who] \in live
=============================================================================
