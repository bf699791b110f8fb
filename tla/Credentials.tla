----------------------------- MODULE Credentials -----------------------------
(***************************************************************************)
(* What the page knows of the credentials it sends (console/auth.js) and   *)
(* where it says so: the tag in the topbar and the credentials dialog.     *)
(*                                                                         *)
(* Swagger's store holds at most one credential per scheme.  A change of   *)
(* the store redraws the page; the passing of time does not, so one timer, *)
(* aimed at the nearest expiry, asks for a frame.                          *)
(***************************************************************************)
EXTENDS Integers, FiniteSets, FiniteSetsExt

CONSTANTS
    Schemes,        \* the security schemes
    Credentials,    \* credentials, each with its scheme and expiry
    Nothing,        \* no credential, no expiry, no timer
    Issued,         \* Issued[v]: the scheme credential v belongs to
    Expiry,         \* Expiry[v]: the exp of a token, Nothing for an API key
    Minute,         \* steps of the clock in a minute
    MaxTimer,       \* MAX_TIMER_MS, 24.8 days in the code
    MaxClock,       \* bound on the clock
    MaxBehind,      \* bound on the changes a frame may be behind
    MaxChanges      \* bound on what the reader does in Authorize

ASSUME ClockAssumption == /\ {Minute, MaxTimer, MaxClock, MaxBehind, MaxChanges} \subseteq Nat \ {0}
                          /\ \A v \in Credentials : Expiry[v] \in Nat \cup {Nothing}
                          /\ \A v \in Credentials : Issued[v] \in Schemes
                          /\ Nothing \notin Nat /\ Nothing \notin Credentials

VARIABLES
    now,            \* the clock
    held,           \* what Swagger's store holds for each scheme
    expiryTarget,   \* the expiry the timer is aimed at
    expiryTimer,    \* when the timer fires
    behind,         \* changes since the last frame: one is queued unless 0
    tag,            \* the credential tag the last frame painted
    dialog,         \* the cards of the credentials dialog, Nothing while it is closed
    changes         \* what the reader did in Authorize so far

shown == <<tag, dialog>>
timers == <<expiryTarget, expiryTimer>>

-----------------------------------------------------------------------------
isExpired(v) == v # Nothing /\ Expiry[v] # Nothing /\ Expiry[v] <= now

\* What the page says of a credential, wherever it says it.
StateOf(v) == IF v = Nothing THEN "missing" ELSE IF isExpired(v) THEN "expired" ELSE "held"

authorizedScopes == {s \in Schemes : held[s] # Nothing}

\* The nearest expiry ahead.
NextExpiry == LET ahead == {Expiry[held[s]] : s \in authorizedScopes} \ {Nothing}
                  coming == {e \in ahead : e > now}
              IN  IF coming = {} THEN Nothing ELSE Min(coming)

\* armExpiry: re-aimed only when the target changes.
armExpiryOnce ==
    /\ expiryTarget' = IF expiryTimer = Nothing THEN NextExpiry ELSE expiryTarget
    /\ expiryTimer' = IF expiryTimer = Nothing THEN NextExpiry ELSE expiryTimer

armExpiry ==
    /\ expiryTarget' = NextExpiry
    /\ expiryTimer' = IF NextExpiry = expiryTarget THEN expiryTimer
                      ELSE IF NextExpiry = Nothing THEN Nothing
                      ELSE Min({NextExpiry, now + MaxTimer})

TagNow == [s \in Schemes |-> StateOf(held[s])]

\* The minutes to an expiry, rounded as Math.round does.
Minutes(v) == IF v = Nothing \/ Expiry[v] = Nothing THEN Nothing
              ELSE (2 * (Expiry[v] - now) + Minute) \div (2 * Minute)

credentialsSignature == [s \in Schemes |-> <<held[s], Minutes(held[s])>>]

\* A card says a state and is redrawn when the value or the minutes changed.
credentialCards == [s \in Schemes |-> [signed |-> credentialsSignature[s], says |-> StateOf(held[s])]]

PaintedDialog ==
    IF dialog = Nothing \/ \A s \in Schemes : dialog[s].signed = credentialsSignature[s]
    THEN dialog ELSE credentialCards

\* schedule: one frame however many changes ask for it.
schedule == behind < MaxBehind /\ behind' = behind + 1

CredentialsInit ==
    /\ now = 0 /\ held = [s \in Schemes |-> Nothing]
    /\ expiryTarget = Nothing /\ expiryTimer = Nothing
    /\ behind = 0 /\ changes = 0
    /\ tag = TagNow
    /\ dialog = Nothing

-----------------------------------------------------------------------------
\* Time passes; a timer that is due may be late.
Tick == /\ now < MaxClock
        /\ now' = now + 1
        /\ UNCHANGED <<held, timers, behind, shown, changes>>

\* The expiry timer asks for a frame.  It stays aimed where it was.
ExpiryFires == /\ expiryTimer # Nothing /\ expiryTimer <= now
               /\ expiryTimer' = Nothing
               /\ schedule
               /\ UNCHANGED <<now, held, expiryTarget, shown, changes>>

\* authorizeScheme, and logout: the store changes and React redraws the page.
Holds(s, v) == held' = [held EXCEPT ![s] = v] /\ schedule

\* The dialog draws a field to paste into only where nothing is held.
Authorize == \E v \in Credentials :
    /\ dialog # Nothing /\ changes < MaxChanges
    /\ dialog[Issued[v]].signed[1] = Nothing
    /\ Holds(Issued[v], v)
    /\ changes' = changes + 1
    /\ UNCHANGED <<now, timers, shown>>

LogOut == \E s \in Schemes :
    /\ dialog # Nothing /\ changes < MaxChanges
    /\ dialog[s].signed[1] # Nothing
    /\ Holds(s, Nothing)
    /\ changes' = changes + 1
    /\ UNCHANGED <<now, timers, shown>>

\* From the palette, from a bar's Authorize, or from the tag unless all that is
\* held has expired: then the tag leads to the login instead.
openCredentials == /\ dialog' = credentialCards
                   /\ UNCHANGED <<now, held, timers, behind, tag, changes>>

closeCredentials == /\ dialog' = Nothing
                    /\ UNCHANGED <<now, held, timers, behind, tag, changes>>

\* The interval that counts the minutes down paints the dialog and nothing else.
DialogTick == /\ dialog' = PaintedDialog
              /\ UNCHANGED <<now, held, timers, behind, tag, changes>>

\* paintTopbar and paintCredentials, in a frame.
paintTopbar == tag' = TagNow /\ armExpiry
paintCredentials == dialog' = PaintedDialog

CredentialsNext == Tick \/ ExpiryFires \/ Authorize \/ LogOut \/ openCredentials
                   \/ closeCredentials \/ DialogTick

-----------------------------------------------------------------------------
CredentialsOK ==
    /\ now \in 0 .. MaxClock
    /\ held \in [Schemes -> Credentials \cup {Nothing}]
    /\ \A s \in authorizedScopes : Issued[held[s]] = s
    /\ {expiryTarget, expiryTimer} \subseteq Nat \cup {Nothing}
    /\ behind \in 0 .. MaxBehind

\* Nothing is about to repaint the page.
Quiet == behind = 0 /\ ~(expiryTimer # Nothing /\ expiryTimer <= now)
=============================================================================
