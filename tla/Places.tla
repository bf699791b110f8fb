------------------------------- MODULE Places --------------------------------
(***************************************************************************)
(* Where the page is (console/operations.js, map.js): opening an operation,*)
(* bringing it into view, and the map that says where the reader is.       *)
(*                                                                         *)
(* A smooth scroll aims at where a block is when it starts.  A listener    *)
(* waits for the end of it and corrects what content that landed meanwhile *)
(* left short, at most twice, until the reader scrolls.                    *)
(***************************************************************************)
EXTENDS Naturals, Sequences, FiniteSets, SequencesExt

CONSTANTS
    Blocks,         \* operations
    TagOfBlock,     \* the tag of each
    Finds,          \* frames openOperation looks for a block (12)
    Corrections,    \* corrections of one scroll (2)
    MaxAsked,       \* bound on what is asked of the page
    MaxLanded       \* bound on content landing once a block was brought into view

ASSUME PlacesAssumption == /\ Finds \in Nat /\ Corrections \in Nat
                           /\ MaxAsked \in Nat /\ MaxLanded \in Nat
                           /\ {"overview", "reader"} \cap Blocks = {}

VARIABLES
    tagsOpen,       \* tags open in Swagger's layout
    blocksOpen,     \* operations open in it
    rendered,       \* tags whose operations React has in the page
    finding,        \* openOperation's loops: block, whether it scrolls, tries left
    listening,      \* bringIntoView's listeners, in the order they were added
    at,             \* the place at the top: a block, "overview" or "reader"
    short,          \* content landed: the place is not quite at the top
    scrolling,      \* a scroll has not ended
    camera,         \* of a run of all steps: "none", "follow" or "free"
    place,          \* map.dataset.current and the crumb
    tools,          \* tags whose button says Close all
    asked,          \* history: the last block brought into view, or who took the page
    fought,         \* history: an older listener was waiting then, or a key ended its corrections
    landed,         \* history: content that landed since
    asks            \* bound

placesVars == <<tagsOpen, blocksOpen, rendered, finding, listening, at, short, scrolling,
                camera, place, tools, asked, fought, landed, asks>>
layout == <<tagsOpen, blocksOpen, rendered, tools>>
pane == <<listening, at, short, scrolling, asked, fought, landed>>

TagsOfPage == {TagOfBlock[b] : b \in Blocks}
OperationsOf(tag) == {b \in Blocks : TagOfBlock[b] = tag}
\* An operation is shown or not in the layout, whether its tag is open or not.
allShown(tag) == OperationsOf(tag) \subseteq blocksOpen
AllShownTags == {t \in TagsOfPage : allShown(t)}

PlacesInit ==
    /\ tagsOpen \in SUBSET TagsOfPage /\ rendered = tagsOpen /\ blocksOpen = {}
    /\ finding = <<>> /\ listening = <<>>
    /\ at = "overview" /\ short = FALSE /\ scrolling = FALSE /\ camera = "none"
    /\ place = "overview" /\ tools = {}
    /\ asked = "overview" /\ fought = FALSE /\ landed = 0 /\ asks = 0

-----------------------------------------------------------------------------
\* bringIntoView: a smooth scroll, and a listener for its end.  A block that is
\* at the top already makes no scroll, and its listener waits for another's.
bringIntoView(b) ==
    /\ at' = b
    /\ scrolling' = (at # b \/ short \/ scrolling)
    /\ short' = FALSE
    /\ listening' = Append(listening, [block |-> b, corrections |-> 0])
    /\ asked' = b /\ fought' = (listening # <<>>) /\ landed' = 0

\* find: opens the block once it is there, and scrolls to it if asked to.
Found(b, scroll) ==
    /\ blocksOpen' = blocksOpen \cup {b}
    /\ IF scroll THEN bringIntoView(b) ELSE UNCHANGED pane

\* openOperation: opens the tag, whose operations React renders later.
openOperation(b, scroll) ==
    /\ tagsOpen' = tagsOpen \cup {TagOfBlock[b]}
    /\ IF TagOfBlock[b] \in rendered
       THEN Found(b, scroll) /\ UNCHANGED finding
       ELSE /\ finding' = Append(finding, [block |-> b, scroll |-> scroll, tries |-> Finds])
            /\ UNCHANGED <<blocksOpen, pane>>
    /\ UNCHANGED <<rendered, tools>>

Asks == asks < MaxAsked /\ asks' = asks + 1

\* A link of the map, the palette, a note, a model; or a step of a run, which
\* scrolls while the camera is its own.
OpenOperation(b) == /\ Asks /\ openOperation(b, TRUE)
                    /\ UNCHANGED <<camera, place>>
RunOpens(b) == /\ Asks /\ camera # "none" /\ openOperation(b, camera = "follow")
               /\ UNCHANGED <<camera, place>>

FindFrame ==
    \E i \in DOMAIN finding :
        LET f == finding[i]
        IN  /\ IF TagOfBlock[f.block] \in rendered
               THEN /\ Found(f.block, f.scroll)
                    /\ finding' = RemoveAt(finding, i)
               ELSE /\ finding' = IF f.tries = 0 THEN RemoveAt(finding, i)
                                  ELSE [finding EXCEPT ![i].tries = @ - 1]
                    /\ UNCHANGED <<blocksOpen, pane>>
            /\ UNCHANGED <<tagsOpen, rendered, camera, place, tools, asks>>

\* React renders, and the frame after it paints the tags' buttons and spies.
ReactRendersTags ==
    /\ rendered' = tagsOpen /\ tools' = AllShownTags /\ place' = at
    /\ UNCHANGED <<tagsOpen, blocksOpen, finding, pane, camera, asks>>

\* A tag's heading; and its button, which does what is not so yet.
FoldTag(t) == /\ Asks
              /\ tagsOpen' = IF t \in tagsOpen THEN tagsOpen \ {t} ELSE tagsOpen \cup {t}
              /\ UNCHANGED <<blocksOpen, rendered, tools, finding, pane, camera, place>>
showAllOf(t) == /\ Asks /\ t \in rendered
                /\ tagsOpen' = tagsOpen \cup {t}
                /\ blocksOpen' = IF allShown(t) THEN blocksOpen \ OperationsOf(t)
                                 ELSE blocksOpen \cup OperationsOf(t)
                /\ UNCHANGED <<rendered, tools, finding, pane, camera, place>>

-----------------------------------------------------------------------------
(* Scrolling.                                                               *)

\* Content lands above while the page moves.
Lands == /\ scrolling /\ at \in Blocks /\ landed < MaxLanded /\ landed' = landed + 1
         /\ short' = TRUE
         /\ UNCHANGED <<layout, finding, listening, at, scrolling, camera, place, asked, fought, asks>>

\* The listeners of one scrollend, in order: one whose block is not at the top
\* scrolls to it at once, unless its corrections are spent; else it is gone.
Settle(view, l) ==
    LET off == view.at # l.block \/ view.short
    IN  IF off /\ l.corrections < Corrections
        THEN [at |-> l.block, short |-> FALSE, moved |-> TRUE,
              left |-> Append(view.left, [l EXCEPT !.corrections = @ + 1])]
        ELSE view

settled[n \in 0 .. Len(listening)] ==
    IF n = 0 THEN [at |-> at, short |-> short, moved |-> FALSE, left |-> <<>>]
    ELSE Settle(settled[n - 1], listening[n])
settle == settled[Len(listening)]

ScrollEnd ==
    /\ scrolling
    /\ at' = settle.at /\ short' = settle.short /\ scrolling' = settle.moved
    /\ listening' = settle.left
    /\ place' = settle.at
    /\ UNCHANGED <<layout, finding, camera, asked, fought, asks, landed>>

\* The wheel, a touch or a key: the page is the reader's, and so is the camera.
stopNewest == listening' = Front(listening)
stop == listening' = <<>>
ReaderScrolls ==
    /\ Asks /\ (listening # <<>> \/ camera = "follow")
    /\ stop
    /\ at' = "reader" /\ short' = FALSE /\ scrolling' = TRUE
    /\ asked' = "reader" /\ fought' = FALSE
    /\ camera' = IF camera = "follow" THEN "free" ELSE camera
    /\ UNCHANGED <<layout, finding, place, landed>>

\* A key that does not scroll ends the corrections too.
AnyKey == /\ Asks /\ listening # <<>> /\ stop
          /\ fought' = TRUE
          /\ UNCHANGED <<layout, finding, at, short, scrolling, asked, camera, place, landed>>

\* Overview, in the map or the palette, scrolls without a listener of its own.
Overview == /\ Asks
            /\ at' = "overview" /\ short' = FALSE /\ scrolling' = (scrolling \/ at # "overview")
            /\ asked' = "overview" /\ fought' = FALSE
            /\ UNCHANGED <<layout, finding, listening, camera, place, landed>>

\* Run all steps begins or ends; Follow hands the camera back at its step.
RunStarts == Asks /\ camera = "none" /\ camera' = "follow" /\ UNCHANGED <<layout, finding, pane, place>>
RunEnds == camera # "none" /\ camera' = "none" /\ UNCHANGED <<layout, finding, pane, place, asks>>
toggleCamera == /\ Asks /\ camera # "none"
                /\ IF camera = "follow" THEN camera' = "free" /\ UNCHANGED pane
                   ELSE camera' = "follow" /\ \E b \in blocksOpen : TagOfBlock[b] \in rendered /\ bringIntoView(b)
                /\ UNCHANGED <<layout, finding, place>>

PlacesNext ==
    \/ \E b \in Blocks : OpenOperation(b) \/ RunOpens(b)
    \/ \E t \in TagsOfPage : FoldTag(t) \/ showAllOf(t)
    \/ FindFrame \/ ReactRendersTags \/ Lands \/ ScrollEnd \/ ReaderScrolls \/ AnyKey \/ Overview
    \/ RunStarts \/ RunEnds \/ toggleCamera

PlacesSpec == PlacesInit /\ [][PlacesNext]_placesVars

-----------------------------------------------------------------------------
PlacesOK == /\ tagsOpen \cup rendered \subseteq TagsOfPage /\ blocksOpen \subseteq Blocks
            /\ at \in Blocks \cup {"overview", "reader"} /\ camera \in {"none", "follow", "free"}
            /\ \A i \in DOMAIN listening : listening[i].corrections <= Corrections

\* A page that rests is where it was last asked to be: at the block brought into
\* view last, whichever scrolls were on their way before it, and no correction
\* survives the reader's own scroll (operations.bringIntoView).  Content that
\* landed is made up for unless a key or an older listener takes its corrections,
\* or more of it landed than one scroll may correct; where the last wish was the
\* overview, which has no listener, nothing is said.
LandsWhereAsked ==
    ~scrolling /\ asked # "overview" => at = asked /\ (short => fought \/ landed > Corrections)
=============================================================================
