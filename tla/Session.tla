------------------------------ MODULE Session ------------------------------
(***************************************************************************)
(* The session of a page of the web interface                              *)
(* (src/web/src/session/SessionProvider.tsx, LoginPage.tsx, api/client.ts) *)
(* and the directory at the server that the page shows.  Other pages of    *)
(* the browser share its cookie, and other programs change the directory.  *)
(* A name that is written gets a version it never had, the number of the   *)
(* change.                                                                 *)
(***************************************************************************)
EXTENDS Naturals, FiniteSets

CONSTANTS
    Name,        \* names in the directory
    NoName,
    MaxClock,    \* bound on the changes of the directory
    MaxSession   \* bound on the logins

ASSUME SessionAssumption ==
    /\ IsFiniteSet(Name) /\ NoName \notin Name
    /\ MaxClock \in Nat \ {0} /\ MaxSession \in Nat

VARIABLES
    disk,      \* the version of each name in the directory, 0 if it is not there
    clock,     \* the changes of the directory so far
    cookie,    \* the session the browser's cookie stands for at the server, or 0
    logins,    \* sessions opened so far
    view,      \* "loading" the session, "in" the workspace, or "out" at the login page
    session,   \* the session the page shows
    csrf       \* the session whose token the page sends

files == <<disk, clock>>
site == <<disk, clock, cookie, logins>>
who == <<view, session, csrf>>

Version == 0..MaxClock
Sessions == 0..MaxSession
Versions == [Name -> Version]
NoVersions == [n \in Name |-> 0]

SessionInit ==
    /\ disk \in [Name -> {0, 1}] /\ clock = 1 /\ cookie = 0 /\ logins = 0
    /\ view = "out" /\ session = 0 /\ csrf = 0

-----------------------------------------------------------------------------
\* setSession shows a session and takes its token, setCSRFToken; 0 is null and ''.
SetSession(s) == session' = s /\ csrf' = s

\* unauthenticatedHandler, which every answer 401 calls, and LoginRedirect.
Unauthenticated == view' = "out" /\ SetSession(0) /\ UNCHANGED site

\* A page that is loaded anew asks for its session before it shows anything.
LoadPage == view' = "loading" /\ SetSession(0)

GetSession == view = "loading" /\ cookie # 0 /\ view' = "in" /\ SetSession(cookie) /\ UNCHANGED site
GetSessionFails == view = "loading" /\ Unauthenticated

\* The login page: onSubmit; the server sends a browser with a session on at once.
Login ==
    /\ view = "out" /\ LoadPage
    /\ \/ cookie # 0 /\ UNCHANGED <<cookie, logins>>
       \/ cookie = 0 /\ logins < MaxSession /\ logins' = logins + 1 /\ cookie' = logins + 1
    /\ UNCHANGED files

\* logout ends the session only with its own token.
Authorized == cookie # 0 /\ csrf = cookie
Logout == view = "in" /\ Authorized /\ cookie' = 0 /\ LoadPage /\ UNCHANGED <<files, logins>>

\* Another page of the browser logs in or out, or the session expires.
OtherLogin ==
    /\ \/ cookie' = 0 /\ cookie # 0 /\ UNCHANGED logins
       \/ logins < MaxSession /\ logins' = logins + 1 /\ cookie' = logins + 1
    /\ UNCHANGED <<files, who>>

\* Another page or program writes or removes a name.
Writes(n) == clock < MaxClock /\ clock' = clock + 1 /\ disk' = [disk EXCEPT ![n] = clock + 1]
Removes(n) == clock < MaxClock /\ disk[n] # 0 /\ clock' = clock + 1 /\ disk' = [disk EXCEPT ![n] = 0]
OtherChange(n) == (Writes(n) \/ Removes(n)) /\ UNCHANGED <<cookie, logins, who>>

SessionTypeOK ==
    /\ disk \in Versions /\ clock \in 1..MaxClock /\ cookie \in Sessions /\ logins \in Sessions
    /\ view \in {"loading", "in", "out"} /\ session \in Sessions /\ csrf \in Sessions
=============================================================================
