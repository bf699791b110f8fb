------------------------------- MODULE Controls -------------------------------
(***************************************************************************)
(* What the reader works the page with: the palette (console/palette.js),  *)
(* the shortcuts (keyboard.js), the rail, the drawer a phone has in its    *)
(* place, the density, the legend and the panel of recent calls.           *)
(*                                                                         *)
(* Two choices are kept in this browser.  Escape and Ctrl reach several    *)
(* listeners, depending on where the focus is.                             *)
(***************************************************************************)
EXTENDS Integers, Sequences, FiniteSets, SequencesExt, Filtering

CONSTANTS
    Rows,           \* operations of the page, 1 .. Rows in its order
    Queries,        \* what may be typed: for each, the entries it matches
    MaxHandled      \* bound on what the reader does

ASSUME ControlsAssumption == Rows \in Nat \ {0} /\ MaxHandled \in Nat

VARIABLES
    screen,         \* PHONE and SHORT_SCREEN, and whether localStorage works
    kept,           \* emit.rail and emit.density in it, "none" when absent
    rail, density,  \* the window's attributes
    drawer,         \* the drawer is open
    statusHome,     \* the statusbar's parent: "rail" or "win"
    legendShown,    \* the legend
    historyPanel,   \* the operation whose recent calls are listed, 0 for none
    dialogOpen,     \* the credentials dialog
    palette,        \* shown, its entries, those that match, and the marked one
    focus,          \* where: "palette", "dialog", "field", "row" or "elsewhere"
    behindIt,       \* history: the page changed under the open palette
    handled         \* bound

controlsVars == <<screen, kept, rail, density, drawer, statusHome, legendShown, historyPanel,
                  dialogOpen, palette, focus, behindIt, handled>>
folds == <<kept, rail, density>>
overlays == <<legendShown, historyPanel, dialogOpen>>

Other(value) == CASE value = "compact" -> "comfortable" [] value = "comfortable" -> "compact"
                  [] value = "closed" -> "open" [] value = "open" -> "closed"
On(where) == [where |-> where, row |-> 0]
Handled == handled < MaxHandled /\ handled' = handled + 1

-----------------------------------------------------------------------------
\* applyDensity: the reader's choice, or else what the screen asks for.
DensityOf(choice, s) == IF choice # "none" THEN choice
                        ELSE IF s.short THEN "compact" ELSE "comfortable"
RestoredRail(choice) == IF choice = "closed" THEN "closed" ELSE "open"

toggleDensity ==
    LET chosen == IF screen.storage THEN Other(density) ELSE kept.density
    IN  /\ kept' = [kept EXCEPT !.density = chosen]
        /\ density' = DensityOf(chosen, screen)
        /\ UNCHANGED rail

toggleRail == /\ rail' = Other(rail)
              /\ kept' = IF screen.storage THEN [kept EXCEPT !.rail = rail'] ELSE kept
              /\ UNCHANGED density

setDrawer(open) == drawer' = open

\* openPalette: the entries are read afresh each time.
Entries ==
    <<[does |-> "credentials", to |-> "open"], [does |-> "density", to |-> Other(density)]>>
    \o (IF screen.phone THEN <<>> ELSE <<[does |-> "rail", to |-> Other(rail)]>>)
    \o <<[does |-> "legend", to |-> "open"], [does |-> "operation", to |-> "open"]>>

Matching(entries, query) == Those(entries, {e \in Range(entries) : e.does \in query})

\* Read once, when the palette is built.
OpenedOnce == LET entries == IF palette.entries = <<>> THEN Entries ELSE palette.entries
              IN  [up |-> TRUE, entries |-> entries, matches |-> entries, selected |-> 0]
Opened == [up |-> TRUE, entries |-> Entries, matches |-> Entries, selected |-> 0]

openPalette == palette' = Opened /\ focus' = On("palette") /\ behindIt' = FALSE
closePalette == palette' = [palette EXCEPT !.up = FALSE]
\* renderPalette clamps the marked entry to what matches; counted from 0.
Marked(entries, n) == Min({n, Max({0, Len(entries) - 1})})

ControlsInit ==
    /\ screen \in [phone : BOOLEAN, short : BOOLEAN, storage : BOOLEAN]
    /\ kept = [rail |-> "none", density |-> "none"]
    /\ rail = "open" /\ density = DensityOf("none", screen)
    /\ drawer = FALSE
    /\ statusHome = IF screen.phone THEN "rail" ELSE "win"
    /\ legendShown = FALSE /\ historyPanel = 0 /\ dialogOpen = FALSE
    /\ palette = [up |-> FALSE, entries |-> <<>>, matches |-> <<>>, selected |-> 0]
    /\ focus = On("elsewhere") /\ behindIt = FALSE /\ handled = 0

-----------------------------------------------------------------------------
\* The palette's field: typing marks the first match, the arrows move the mark.
TypeQuery == \E query \in Queries :
    /\ palette.up /\ focus.where = "palette"
    /\ palette' = [palette EXCEPT !.matches = Matching(palette.entries, query), !.selected = 0]
    /\ UNCHANGED <<screen, folds, drawer, statusHome, overlays, focus, behindIt, handled>>

Arrow(by) ==
    /\ palette.up /\ focus.where = "palette"
    /\ LET n == palette.selected + by
           to == IF by > 0 THEN Min({n, Len(palette.matches) - 1}) ELSE Max({n, 0})
       IN  palette' = [palette EXCEPT !.selected = Marked(palette.matches, to)]
    /\ UNCHANGED <<screen, folds, drawer, statusHome, overlays, focus, behindIt, handled>>

\* choose: closes, then runs.  A click goes on to the document, whose listeners
\* close the panel of recent calls and the legend the entry has just opened.
Choose(entry, clicked) ==
    /\ Handled /\ closePalette
    /\ CASE entry.does = "density" -> toggleDensity
         [] entry.does = "rail" -> toggleRail
         [] OTHER -> UNCHANGED folds
    /\ legendShown' = (IF entry.does = "legend" THEN ~legendShown ELSE legendShown) /\ ~clicked
    /\ dialogOpen' = (dialogOpen \/ entry.does = "credentials")
    /\ focus' = On(IF entry.does = "credentials" THEN "dialog" ELSE "elsewhere")
    /\ historyPanel' = IF clicked \/ entry.does = "legend" THEN 0 ELSE historyPanel
    /\ UNCHANGED <<screen, drawer, statusHome, behindIt>>

EnterChooses == /\ palette.up /\ focus.where = "palette"
                /\ palette.selected + 1 \in DOMAIN palette.matches
                /\ Choose(palette.matches[palette.selected + 1], FALSE)
ClickChooses == \E i \in DOMAIN palette.matches : palette.up /\ Choose(palette.matches[i], TRUE)

-----------------------------------------------------------------------------
(* Keys anywhere.                                                           *)

modal == palette.up \/ dialogOpen
typing == focus.where \in {"palette", "field"}

\* J and K: from the row that has the focus, or else the first in view.
stepOperation(by) == \E firstInView \in 1 .. Rows :
    LET from == IF focus.where = "row" THEN focus.row ELSE IF by > 0 THEN firstInView - 1 ELSE firstInView
    IN  /\ Handled /\ ~typing /\ ~modal
        /\ focus' = [where |-> "row", row |-> Max({1, Min({Rows, from + by})})]
        /\ UNCHANGED <<screen, folds, drawer, statusHome, overlays, palette, behindIt>>

\* Ctrl+K, or the topbar's Jump.
CtrlK == /\ Handled /\ openPalette
         /\ UNCHANGED <<screen, folds, drawer, statusHome, overlays>>

CtrlB == /\ Handled /\ toggleRail
         /\ behindIt' = (behindIt \/ palette.up)
         /\ UNCHANGED <<screen, drawer, statusHome, overlays, palette, focus>>

\* The palette and the dialog hear the key where the focus is, the document always.
Escape ==
    /\ Handled
    /\ palette' = IF focus.where = "palette" THEN [palette EXCEPT !.up = FALSE] ELSE palette
    /\ dialogOpen' = (dialogOpen /\ focus.where # "dialog")
    /\ focus' = IF focus.where \in {"palette", "dialog"} THEN On("elsewhere") ELSE focus
    /\ IF drawer THEN setDrawer(FALSE) ELSE UNCHANGED drawer
    /\ historyPanel' = 0
    /\ UNCHANGED <<screen, folds, statusHome, legendShown, behindIt>>

-----------------------------------------------------------------------------
(* The mouse, the screen and a reload.                                      *)

\* A click outside of a panel closes it; this one does nothing else.
ClickElsewhere == /\ Handled
                  /\ legendShown' = FALSE /\ historyPanel' = 0
                  /\ IF palette.up THEN UNCHANGED dialogOpen ELSE dialogOpen' \in {dialogOpen, FALSE}
                  /\ UNCHANGED palette \/ closePalette
                  /\ focus' \in {On("elsewhere"), On("field")} /\ (modal => focus' = On("elsewhere"))
                  /\ UNCHANGED <<screen, folds, drawer, statusHome, behindIt>>

Scrolls == /\ historyPanel # 0 /\ historyPanel' = 0
           /\ UNCHANGED <<screen, folds, drawer, statusHome, legendShown, dialogOpen, palette, focus,
                          behindIt, handled>>

Menu == /\ Handled /\ screen.phone /\ setDrawer(~drawer)
        /\ legendShown' = FALSE /\ historyPanel' = 0
        /\ UNCHANGED <<screen, folds, statusHome, dialogOpen, palette, focus, behindIt>>
\* Choosing where to go, or the scrim.
DrawerCloses == /\ drawer /\ setDrawer(FALSE)
                /\ legendShown' = FALSE /\ historyPanel' = 0
                /\ UNCHANGED <<screen, folds, statusHome, dialogOpen, palette, focus, behindIt, handled>>

\* The buttons of the topbar and the statusbar, where no overlay covers them.
FoldButton == /\ Handled /\ ~modal /\ ~screen.phone /\ toggleRail /\ legendShown' = FALSE /\ historyPanel' = 0
              /\ UNCHANGED <<screen, drawer, statusHome, dialogOpen, palette, focus, behindIt>>
DensityButton == /\ Handled /\ ~modal /\ toggleDensity /\ legendShown' = FALSE /\ historyPanel' = 0
                 /\ UNCHANGED <<screen, drawer, statusHome, dialogOpen, palette, focus, behindIt>>
LegendButton == /\ Handled /\ ~modal /\ legendShown' = ~legendShown /\ historyPanel' = 0
                /\ UNCHANGED <<screen, folds, drawer, statusHome, dialogOpen, palette, focus, behindIt>>

\* One panel of recent calls at a time; its click stops where it is.
toggleHistory(op) == /\ Handled /\ ~modal
                     /\ historyPanel' = IF historyPanel = op THEN 0 ELSE op
                     /\ UNCHANGED <<screen, folds, drawer, statusHome, legendShown, dialogOpen,
                                    palette, focus, behindIt>>

\* A window resized, a phone turned: placeStatusbar and applyDensity.
ScreenChange == \E s \in [phone : BOOLEAN, short : BOOLEAN, storage : {screen.storage}] :
    /\ Handled /\ screen' = s
    /\ density' = DensityOf(kept.density, s)
    /\ statusHome' = IF s.phone THEN "rail" ELSE "win"
    /\ IF screen.phone /\ ~s.phone THEN setDrawer(FALSE) ELSE UNCHANGED drawer
    /\ behindIt' = (behindIt \/ palette.up)
    /\ UNCHANGED <<kept, rail, overlays, palette, focus>>

\* boot, over what the browser kept.
Boot == /\ Handled
        /\ rail' = RestoredRail(kept.rail) /\ density' = DensityOf(kept.density, screen)
        /\ setDrawer(FALSE) /\ legendShown' = FALSE /\ historyPanel' = 0 /\ dialogOpen' = FALSE
        /\ palette' = [up |-> FALSE, entries |-> <<>>, matches |-> <<>>, selected |-> 0]
        /\ focus' = On("elsewhere") /\ behindIt' = FALSE
        /\ UNCHANGED <<screen, kept, statusHome>>

ControlsNext ==
    \/ TypeQuery \/ (\E by \in {-1, 1} : Arrow(by) \/ stepOperation(by))
    \/ EnterChooses \/ ClickChooses \/ CtrlK \/ CtrlB \/ Escape \/ ClickElsewhere
    \/ Scrolls \/ Menu \/ DrawerCloses \/ FoldButton \/ DensityButton \/ LegendButton
    \/ \E op \in 1 .. Rows : toggleHistory(op)
    \/ ScreenChange \/ Boot

ControlsSpec == ControlsInit /\ [][ControlsNext]_controlsVars

-----------------------------------------------------------------------------
\* What is kept is what is shown, so a reload brings the same page back; a drawer
\* is open on a phone only; of what matches one entry is marked; and an entry says
\* what it would do now, unless the page changed under the open palette, which
\* Ctrl+B can do (palette.openPalette, statusbar.applyDensity, shell.restoreRail).
ControlsOK ==
    /\ screen.storage => rail = RestoredRail(kept.rail)
    /\ density = DensityOf(kept.density, screen)
    /\ drawer => screen.phone
    /\ statusHome = IF screen.phone THEN "rail" ELSE "win"
    /\ palette.matches # <<>> => palette.selected + 1 \in DOMAIN palette.matches
    /\ palette.up /\ ~behindIt =>
          \A i \in DOMAIN palette.entries :
              LET e == palette.entries[i] IN
              /\ e.does = "rail" => ~screen.phone /\ e.to = Other(rail)
              /\ e.does = "density" => e.to = Other(density)
=============================================================================
