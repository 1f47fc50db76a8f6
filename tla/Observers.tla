------------------------------ MODULE Observers ------------------------------
(***************************************************************************)
(* The observers of a screen and its mask: AsyncObservable (utils.py), the *)
(* CIWPositionLogger, which logs the shape of the image between the two,   *)
(* and the geometry of that image (ciw_helper.py, image_def.py).           *)
(*                                                                         *)
(* The message tracker and the notifiers' tasks tell the observers of a    *)
(* cover, several at a time; observers come and go meanwhile.  A cover     *)
(* that has moved tells them only when the task of its notifier has been   *)
(* replaced, for which it waits.  An action is what one coroutine does     *)
(* between two suspensions: the update() of a CIWPositionLogger never      *)
(* suspends, that of a watcher always does.                                *)
(*                                                                         *)
(* Lengths are whole numbers, aspect ratios count tenths (and a quotient   *)
(* of such numbers is compared by multiplication).                         *)
(***************************************************************************)
EXTENDS Integers, FiniteSets

CONSTANTS
    Notifiers,  \* the coroutines that call moved() and set_idle()
    Loggers,    \* the CIWPositionLoggers
    Watchers,   \* the other observers
    FullyUp,    \* the number of positions below the highest
    ScreenUnit, \* what the screen drops from a position to the next ...
    MaskUnit,   \* ... and the mask
    ImageDefs,  \* the image definitions: [border, height, aspect]
    Ratios,     \* the aspect ratios that are asked for
    MaxMoves,   \* bound: movements and set_idle()
    MaxChanges  \* bound: attach() and detach()

Covers == {"screen", "mask"}
Observers == Loggers \cup Watchers

ASSUME ObserversAssumption ==
    /\ Loggers \cap Watchers = {} /\ IsFiniteSet(Observers)
    /\ FullyUp \in Nat /\ ScreenUnit \in Nat \ {0} /\ MaskUnit \in Nat \ {0}
    /\ ImageDefs \subseteq [border : Nat, height : Nat \ {0}, aspect : Nat \ {0}]
    /\ Ratios \subseteq Nat \ {0}
    /\ MaxMoves \in Nat /\ MaxChanges \in Nat

VARIABLES
    imageDef,   \* CIWHelper.image_def
    pos,        \* the covers' positions
    observers,  \* the covers' observers
    telling,    \* each notifier in moved() of a cover, or iterating over its observers
    failed,     \* the covers whose notifier's task has raised
    line,       \* what each logger has logged last: the positions it came from
    logging,    \* the loggers between start_logging() and stop_logging()
    knows,      \* history: who was told since a cover moved last
    due,        \* history: who was to be told, and has stayed since
    moves, changes

observersVars == <<imageDef, pos, observers, telling, failed, line, logging, knows, due, moves, changes>>

\* A notifier that has nothing to tell; others are "arriving" at the iteration, or
\* in that of moved() or of set_idle()
Silent == [cover |-> "none", stage |-> "away", told |-> {}, size |-> 0, changed |-> FALSE]

Telling(n) == telling[n].stage \in {"moved", "idle"}

ObserversInit ==
    /\ imageDef \in ImageDefs
    /\ pos \in [Covers -> 0..FullyUp]
    /\ \E ws \in SUBSET Watchers : observers = [c \in Covers |-> ws]
    /\ telling = [n \in Notifiers |-> Silent]
    /\ failed = {}
    /\ line = [l \in Loggers |-> [c \in Covers |-> FullyUp]]
    /\ logging = {}
    /\ knows = {}
    /\ due = [c \in Covers |-> {}]
    /\ moves = 0 /\ changes = 0

-----------------------------------------------------------------------------
(* AsyncObservable *)

\* The observers os are told of cover c: a logger looks at both covers
Update(c, os) ==
    /\ line' = [l \in Loggers |-> IF l \in os THEN pos ELSE line[l]]
    /\ knows' = knows \cup (os \X {c})

\* Notifier n goes on with the iteration it, those in owed being the ones it was to
\* tell: to the next update() that suspends, or to the end.  When as many observers
\* have come as have gone, the iterator may be anywhere in the set.
GoOn(n, it, owed) ==
    LET left == IF it.changed THEN observers[it.cover] ELSE observers[it.cover] \ it.told
    IN  \E ls \in SUBSET (left \cap Loggers) :
          \/ \E w \in left \cap Watchers :
                /\ Update(it.cover, ls \cup {w})
                /\ telling' = [telling EXCEPT ![n] = [it EXCEPT !.told = @ \cup ls \cup {w}]]
                /\ due' = [due EXCEPT ![it.cover] = owed]
          \/ /\ it.changed \/ left \ ls = {}
             /\ Update(it.cover, ls)
             /\ telling' = [telling EXCEPT ![n] = Silent]
             /\ due' = [due EXCEPT ![it.cover] =
                          IF it.changed THEN owed \cap (it.told \cup ls) ELSE owed]

\* Mutant: nobody is told while another notifier tells the observers of the cover
NotifyObservers_Once(n, c, stage) ==
    /\ IF \E m \in Notifiers \ {n} : Telling(m) /\ telling[m].cover = c
       THEN telling' = [telling EXCEPT ![n] = Silent] /\ UNCHANGED <<line, knows, due>>
       ELSE GoOn(n, [Silent EXCEPT !.cover = c, !.stage = stage, !.size = Cardinality(observers[c])],
                 observers[c] \cup logging)
    /\ UNCHANGED <<imageDef, pos, observers, failed, logging, changes>>

\* notify_observers(), of moved() or of set_idle()
NotifyObservers(n, c, stage) ==
    /\ GoOn(n, [Silent EXCEPT !.cover = c, !.stage = stage, !.size = Cardinality(observers[c])],
            observers[c] \cup logging)
    /\ UNCHANGED <<imageDef, pos, observers, failed, logging, changes>>

\* What notifier n tells ends here: who has not been told yet will not be, and waits
\* for the next time
CutShort(n) ==
    /\ telling' = [telling EXCEPT ![n] = Silent]
    /\ due' = [due EXCEPT ![telling[n].cover] = @ \cap telling[n].told]

\* An exception leaves notify_observers(), for the caller of moved(), or as the result
\* of the notifier's task
Raises(n) ==
    /\ CutShort(n)
    /\ failed' = IF telling[n].stage = "idle" THEN failed \cup {telling[n].cover} ELSE failed
    /\ UNCHANGED <<line, knows>>

\* An update() returns: "RuntimeError: Set changed size during iteration", or the
\* iteration goes on
UpdateReturns(n) ==
    LET it == telling[n]
    IN  /\ Telling(n)
        /\ IF Cardinality(observers[it.cover]) # it.size
           THEN Raises(n)
           ELSE GoOn(n, it, due[it.cover]) /\ UNCHANGED failed
        /\ UNCHANGED <<imageDef, pos, observers, logging, moves, changes>>

\* An update() raises
UpdateRaises(n) ==
    /\ Telling(n)
    /\ Raises(n)
    /\ UNCHANGED <<imageDef, pos, observers, logging, moves, changes>>

-----------------------------------------------------------------------------
(* Cover, and the task of its notifier *)

SettingIdle(c) == {n \in Notifiers : telling[n].cover = c /\ telling[n].stage = "idle"}

\* set_pos(), or moved() of a cover that is at p already: up to the notifier
Move(n, c, p) ==
    /\ telling[n] = Silent
    /\ moves < MaxMoves /\ moves' = moves + 1
    /\ pos' = [pos EXCEPT ![c] = p]
    /\ knows' = IF p = pos[c] THEN knows ELSE knows \ (Observers \X {c})
    /\ telling' = [telling EXCEPT ![n] = [Silent EXCEPT !.cover = c, !.stage = "arriving"]]
    /\ UNCHANGED <<imageDef, observers, failed, line, logging, due, changes>>

\* The notifier is cancelled: the task, by stop_notifier(), while it tells the observers;
\* or who has called moved(), which may wait for the task still
Cancelled(n) ==
    /\ telling[n] # Silent
    /\ CutShort(n)
    /\ UNCHANGED <<imageDef, pos, observers, failed, line, logging, knows, moves, changes>>

\* moved() has cancelled the task while it tells the observers, and will tell them all
IdleCancelled(n) ==
    /\ telling[n].stage = "idle"
    /\ \E m \in Notifiers : telling[m].cover = telling[n].cover /\ telling[m].stage = "arriving"
    /\ telling' = [telling EXCEPT ![n] = Silent]
    /\ UNCHANGED <<imageDef, pos, observers, failed, line, logging, knows, due, moves, changes>>

\* There is no such task any more: moved() tells the observers ...
Moved(n) ==
    LET c == telling[n].cover
    IN  /\ telling[n].stage = "arriving"
        /\ c \notin failed /\ SettingIdle(c) = {}
        /\ NotifyObservers(n, c, "moved")
        /\ UNCHANGED moves

\* ... or the task has failed, and raises once more in moved()
MovedRaises(n) ==
    /\ telling[n].stage = "arriving"
    /\ telling[n].cover \in failed
    /\ CutShort(n)
    /\ UNCHANGED <<imageDef, pos, observers, failed, line, logging, knows, moves, changes>>

\* The task has slept: set_idle()
SetCoverIdle(n, c) ==
    /\ telling[n] = Silent
    /\ c \notin failed /\ SettingIdle(c) = {}
    /\ moves < MaxMoves /\ moves' = moves + 1
    /\ NotifyObservers(n, c, "idle")

-----------------------------------------------------------------------------
(* attach() and detach() *)

\* The sets of observers become os
Change(os) ==
    /\ os # observers
    /\ changes < MaxChanges /\ changes' = changes + 1
    /\ observers' = os
    /\ telling' = [n \in Notifiers |->
          LET c == telling[n].cover
          IN  IF Telling(n) /\ os[c] # observers[c]
              THEN [telling[n] EXCEPT !.changed = TRUE] ELSE telling[n]]
    /\ due' = [c \in Covers |-> due[c] \ (observers[c] \ os[c])]
    /\ UNCHANGED <<imageDef, pos, failed, line, knows, moves>>

Attach(w, c) ==
    /\ Change([observers EXCEPT ![c] = @ \cup {w}])
    /\ UNCHANGED logging

Detach(w, c) ==
    /\ w \in observers[c]
    /\ Change([observers EXCEPT ![c] = @ \ {w}])
    /\ UNCHANGED logging

-----------------------------------------------------------------------------
(* CIWPositionLogger *)

\* Mutant: only the screen is observed
Observed_Screen == {"screen"}

\* The covers of the helper that a logger observes
Observed == Covers

StartLogging(l) ==
    /\ l \notin logging
    /\ logging' = logging \cup {l}
    /\ Change([c \in Covers |-> observers[c] \cup (IF c \in Observed THEN {l} ELSE {})])

StopLogging(l) ==
    /\ l \in logging
    /\ logging' = logging \ {l}
    /\ Change([c \in Covers |-> observers[c] \ {l}])

-----------------------------------------------------------------------------
(* CIWHelper and ImageDef *)

Drop(p, c) == (FullyUp - p[c]) * (IF c = "screen" THEN ScreenUnit ELSE MaskUnit)

Least(a, b) == IF a < b THEN a ELSE b

\* What is left for the image between the mask and the screen's border
Gap(p) == Drop(p, "screen") - imageDef.border - Drop(p, "mask")

\* Mutant: the image may be higher than it is defined to be
ImageHeight_Uncapped(p) == IF 10 * Gap(p) > imageDef.height THEN Gap(p) ELSE 0

\* calculate_image_height(), 0 standing for None
ImageHeight(p) ==
    LET h == Least(Gap(p), imageDef.height)
    IN  IF 10 * h > imageDef.height THEN h ELSE 0

\* A quotient in tenths, as numerator and denominator
AspectRatio(p) == <<imageDef.height * imageDef.aspect, ImageHeight(p)>>

\* check_aspect_ratio()
Sensible(t) == 3 <= t /\ t <= 35

\* implied_image_height(), as numerator and denominator
ImpliedImageHeight(t) ==
    IF imageDef.aspect > t THEN <<imageDef.height, 1>>
    ELSE <<imageDef.height * imageDef.aspect, t>>

-----------------------------------------------------------------------------
\* All movements and changes have been made, and told
AllTold ==
    /\ moves = MaxMoves /\ changes = MaxChanges
    /\ \A n \in Notifiers : telling[n] = Silent
    /\ UNCHANGED observersVars

ObserversNext ==
    \/ \E n \in Notifiers :
          \/ UpdateReturns(n) \/ UpdateRaises(n)
          \/ Cancelled(n) \/ IdleCancelled(n) \/ Moved(n) \/ MovedRaises(n)
          \/ \E c \in Covers : SetCoverIdle(n, c) \/ \E p \in 0..FullyUp : Move(n, c, p)
    \/ \E w \in Watchers, c \in Covers : Attach(w, c) \/ Detach(w, c)
    \/ \E l \in Loggers : StartLogging(l) \/ StopLogging(l)
    \/ AllTold

ObserversSpec == ObserversInit /\ [][ObserversNext]_observersVars

-----------------------------------------------------------------------------
(* Properties *)

\* Every variable has the type its declaration gives it.
ObserversTypeOK ==
    /\ imageDef \in ImageDefs
    /\ pos \in [Covers -> 0..FullyUp]
    /\ observers \in [Covers -> SUBSET Observers]
    /\ telling \in [Notifiers -> [cover : Covers \cup {"none"},
                                  stage : {"away", "arriving", "moved", "idle"},
                                  told : SUBSET Observers, size : Nat, changed : BOOLEAN]]
    /\ failed \subseteq Covers
    /\ line \in [Loggers -> [Covers -> 0..FullyUp]]
    /\ logging \subseteq Loggers
    /\ knows \subseteq Observers \X Covers
    /\ due \in [Covers -> SUBSET Observers]
    /\ moves \in 0..MaxMoves /\ changes \in 0..MaxChanges

Quiet(c) == \A n \in Notifiers : telling[n].cover # c

\* An observer that is attached when the observers of a cover are told, and stays,
\* knows where the cover is when nobody is telling any more: several notifications
\* of one cover may overlap, and none leaves an observer with an old position.  The
\* exceptions are the observers that have not been told yet when a notification is
\* cut short, until they are told again: one of them has raised in its update(), their
\* set has changed, stop_notifier() has cancelled the task that told them, the caller
\* of moved() has been cancelled, or moved() itself has raised what that task raised.
ToldOfLast ==
    \A c \in Covers : Quiet(c) => \A o \in due[c] : <<o, c>> \in knows

ObserverInv == ObserversTypeOK /\ ToldOfLast

\* The last line of a position logger is true of both covers, although each line is
\* about one of them: when nobody is telling, the aspect ratio and both drops in it are
\* those of the image (of a logger that no cut notification has left out of either cover).
LogIsCurrent ==
    \A l \in logging \cap due["screen"] \cap due["mask"] :
        Quiet("screen") /\ Quiet("mask") =>
            /\ AspectRatio(line[l]) = AspectRatio(pos)
            /\ \A c \in Covers : Drop(line[l], c) = Drop(pos, c)

\* A mask that leaves exactly the height that a sensible aspect ratio implies shows an
\* image of that ratio: or of the definition's own, if that is wider, and none if it
\* would be no more than a tenth of the definition's height.
ImpliedIsShown ==
    \A t \in Ratios :
        LET implied == ImpliedImageHeight(t)
            shown == AspectRatio(pos)
            asked == IF imageDef.aspect > t THEN imageDef.aspect ELSE t
        IN  Sensible(t) /\ Gap(pos) * implied[2] >= implied[1]
              /\ (asked = t => Gap(pos) * implied[2] = implied[1]) =>
                IF t < 10 * imageDef.aspect THEN shown[1] = asked * shown[2]
                ELSE ImageHeight(pos) = 0
=============================================================================
