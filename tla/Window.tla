------------------------------- MODULE Window --------------------------------
(***************************************************************************)
(* The window around Swagger UI from its first moment on: placeholders     *)
(* until the description and the faces are in (console/shell.js), what is  *)
(* dressed in each frame and dropped by React (index.js, failure.js,       *)
(* lifecycle.js, schemas.js, map.js), and the server's light (statusbar.js).*)
(*                                                                         *)
(* Everything is painted in frames, which a hidden tab does not get.       *)
(***************************************************************************)
EXTENDS Naturals, FiniteSets

CONSTANTS
    Checks,         \* health checks that may be on their way together
    MaxDisturbed    \* bound on what happens around the page

ASSUME WindowAssumption == IsFiniteSet(Checks) /\ Checks # {} /\ MaxDisturbed \in Nat

VARIABLES
    visible,        \* the tab is in view
    loadingStatus,  \* Swagger's: "loading", "success" or "failed"
    spec,           \* runtime.spec has been read
    info,           \* Swagger has rendered the description's head, .info
    faces,          \* facesReady
    ceilings,       \* timers of watchLoading still to fire
    loadingExpired, \* the last of them has
    window,         \* "loading", "revealing" or "shown"
    dressed,        \* what the console has put into the page
    queued,         \* a frame is queued
    server,         \* what the server is: "up", "unwell" or "down"
    checks,         \* each health check: none, asked, or the answer on its way
    light,          \* the server's light, "none" before the first
    disturbed       \* bound

windowVars == <<visible, loadingStatus, spec, info, faces, ceilings, loadingExpired, window,
                dressed, queued, server, checks, light, disturbed>>
loading == <<loadingStatus, spec, info, faces, ceilings, loadingExpired, window>>
health == <<server, checks, light>>

Pieces == {"map", "figure", "schemas", "card", "status"}
\* Nodes inside React's tree: a render may drop them.
InReact == {"figure", "schemas"}

-----------------------------------------------------------------------------
\* boot: the shell with its placeholders, and a first paint of nothing.  A page may
\* be opened in a tab behind.
WindowInit ==
    /\ visible \in BOOLEAN /\ loadingStatus = "loading" /\ spec = FALSE
    /\ info = FALSE /\ faces = FALSE /\ ceilings = {"faces", "loading"} /\ loadingExpired = FALSE
    /\ window = "loading" /\ dressed = {} /\ queued = TRUE
    /\ server \in {"up", "unwell", "down"}
    /\ checks = [c \in Checks |-> "none"] /\ light = "none"
    /\ disturbed = 0

\* A health check is asked only by a page in view that has its description.
Ask == \E c \in Checks : checks[c] = "none" /\ checks' = [checks EXCEPT ![c] = "asked"]
Full == \A c \in Checks : checks[c] # "none"

checkHealthUnseen(has, seen) == IF has /\ ~seen /\ ~Full THEN Ask ELSE checks' = checks

checkHealth(has, seen) == IF has /\ seen /\ ~Full THEN Ask ELSE checks' = checks

-----------------------------------------------------------------------------
(* What arrives, late or never.                                             *)

\* Swagger has the description, or has not; React renders either way.
SwaggerSettles(how) ==
    /\ loadingStatus = "loading" /\ loadingStatus' = how
    /\ queued' = TRUE
    /\ UNCHANGED <<visible, spec, info, faces, ceilings, loadingExpired, window, dressed, health,
                   disturbed>>

\* Its head comes with a later render, which the observer sees.
InfoRendered ==
    /\ loadingStatus = "success" /\ ~info /\ info' = TRUE /\ queued' = TRUE
    /\ UNCHANGED <<visible, loadingStatus, spec, faces, ceilings, loadingExpired, window, dressed,
                   health, disturbed>>

\* The faces are in or refused.
FacesSettle ==
    /\ ~faces /\ faces' = TRUE /\ queued' = TRUE
    /\ UNCHANGED <<visible, loadingStatus, spec, info, ceilings, loadingExpired, window, dressed,
                   health, disturbed>>

\* watchLoading: 2.5 seconds for the faces, 8 for everything.
Ceiling(which) ==
    /\ which \in ceilings /\ ceilings' = ceilings \ {which}
    /\ which = "loading" => "faces" \notin ceilings
    /\ faces' = (faces \/ which = "faces")
    /\ loadingExpired' = (which = "loading")
    /\ queued' = TRUE
    /\ UNCHANGED <<visible, loadingStatus, spec, info, window, dressed, health, disturbed>>

-----------------------------------------------------------------------------
(* A frame.                                                                 *)

readSpec == spec' = (spec \/ loadingStatus = "success")
specFailed == loadingStatus = "failed"

\* paintFailure, paintMap, paintLifecycle, paintSchemas, paintStatusbar: each is
\* drawn where it is missing.
Dressing ==
    LET drawn == IF spec' THEN {"map", "figure", "schemas", "status"} ELSE {}
        failed == IF specFailed THEN {"card", "status"} ELSE {}
    IN  (IF specFailed THEN dressed ELSE dressed \ {"card"}) \cup drawn \cup failed

Drawn == spec' /\ faces /\ "map" \in dressed' /\ info

\* Whatever is late or never comes, the placeholders go.
settleLoadingWhenDrawn == window' = IF window = "loading" /\ Drawn THEN "revealing" ELSE window

settleLoading ==
    window' = IF window = "loading" /\ (Drawn \/ specFailed \/ loadingExpired)
              THEN "revealing" ELSE window

WindowFrame ==
    /\ queued /\ visible
    /\ queued' = FALSE
    /\ readSpec
    /\ dressed' = Dressing
    /\ settleLoading
    \* paintStatusbar asks for the first check
    /\ IF "status" \notin dressed THEN checkHealth(spec', visible) ELSE UNCHANGED checks
    /\ UNCHANGED <<visible, loadingStatus, info, faces, ceilings, loadingExpired, server, light,
                   disturbed>>

Revealed == /\ window = "revealing" /\ window' = "shown"
            /\ UNCHANGED <<visible, loadingStatus, spec, info, faces, ceilings, loadingExpired,
                           dressed, queued, health, disturbed>>

-----------------------------------------------------------------------------
(* Health, and what disturbs.                                               *)

\* setInterval, every fifteen seconds.
HealthEvery == /\ checkHealth(spec, visible)
               /\ UNCHANGED <<visible, loading, dressed, queued, server, light, disturbed>>

\* The server answers as it is then; four seconds without answer is no answer.
Served(c) ==
    /\ checks[c] = "asked"
    /\ checks' = [checks EXCEPT ![c] = server]
    /\ UNCHANGED <<visible, loading, dressed, queued, server, light, disturbed>>

\* paintHealth, when the answer is in.
paintHealth(c) ==
    /\ checks[c] \in {"up", "unwell", "down"}
    /\ light' = checks[c]
    /\ checks' = [checks EXCEPT ![c] = "none"]
    /\ UNCHANGED <<visible, loading, dressed, queued, server, disturbed>>

Disturbs == disturbed < MaxDisturbed /\ disturbed' = disturbed + 1

ServerBecomes(s) == /\ Disturbs /\ s # server /\ server' = s
                    /\ UNCHANGED <<visible, loading, dressed, queued, checks, light>>

\* Coming back into view repaints and checks.
VisibilityChange ==
    /\ Disturbs /\ visible' = ~visible
    /\ queued' = (queued \/ visible')
    /\ checkHealth(spec, visible')
    /\ UNCHANGED <<loadingStatus, spec, info, faces, ceilings, loadingExpired, window, dressed,
                   server, light>>

\* A call that got no answer checks at once (responses.captureResponses).
NoAnswer == /\ Disturbs /\ checkHealth(spec, visible)
            /\ UNCHANGED <<visible, loading, dressed, queued, server, light>>

\* React renders a part anew, and the observer sees it.
ReactRenders == /\ Disturbs /\ dressed' = dressed \ InReact /\ queued' = TRUE
                /\ UNCHANGED <<visible, loading, health>>

LoadingGoesOn == (\E which \in ceilings : Ceiling(which)) \/ WindowFrame \/ Revealed
HealthGoesOn == HealthEvery \/ \E c \in Checks : Served(c) \/ paintHealth(c)

WindowNext ==
    \/ LoadingGoesOn \/ HealthGoesOn
    \/ \E how \in {"success", "failed"} : SwaggerSettles(how)
    \/ InfoRendered \/ FacesSettle \/ VisibilityChange \/ NoAnswer \/ ReactRenders
    \/ \E s \in {"up", "unwell", "down"} : ServerBecomes(s)

\* Timers fire, fetches settle, and a tab in view gets its frames.
WindowFair == WF_windowVars(LoadingGoesOn) /\ WF_windowVars(HealthGoesOn)
WindowSpec == WindowInit /\ [][WindowNext]_windowVars /\ WindowFair

-----------------------------------------------------------------------------
\* Types; and where no frame is due the page wears all of its description's
\* pieces, however often React dropped them, and the failure's card only then.
WindowOK ==
    /\ dressed \subseteq Pieces /\ ceilings \subseteq {"faces", "loading"}
    /\ window \in {"loading", "revealing", "shown"} /\ light \in {"none", "up", "unwell", "down"}
    /\ ~queued => /\ spec = (loadingStatus = "success")
                  /\ spec => Pieces \ {"card"} \subseteq dressed
                  /\ "card" \in dressed <=> specFailed

\* "Whatever else is late or never comes, the placeholders never outstay this"
\* (shell.js:190): a page that stays in view is shown, with no description, no
\* faces, neither.
PlaceholdersEnd == <>[]visible => <>[](window = "shown")

\* A light that went wrong heals by itself: while the page is in view and the
\* server stays what it is, the light comes to say so, whatever older answers
\* were still on their way (statusbar.checkHealth).
LightHeals == \A s \in {"up", "unwell", "down"} :
    <>[](visible /\ spec /\ server = s) => <>[](light = s)

WindowSettles == PlaceholdersEnd /\ LightHeals
=============================================================================
