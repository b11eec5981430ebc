------------------------------- MODULE Windows -------------------------------
(***************************************************************************)
(* platform's windows and input (platform/eventprocessor.go,               *)
(* windowmanager.go, inputstate.go): the request that jobs edit, and the   *)
(* run of processEvents that applies it, pumps, folds the changes into the *)
(* window and input state and publishes them.                              *)
(*                                                                         *)
(* A run holds its three resources alone, so no job edits the request      *)
(* during one; its parts are steps only to choose the changes one by one.  *)
(* The operating system is external: its windows, its focus and the        *)
(* changes it reports, which all happen before the first is folded: what   *)
(* WindowsSocket.Pump reports, then what InputSourceSocket.AppendChanges   *)
(* does, of windows that still exist.  It may fail an Open, a Change, a    *)
(* SetCursor or a SetCursorPosition, which is logged and never tried       *)
(* again, and may lack a cursor mode; a Close that fails is taken to close *)
(* all the same.  An entry is a version, a cursor request its mode, a      *)
(* position is on a line.  Sizes, close requests, text, scroll, labels,    *)
(* modifiers and repeats are left out.                                     *)
(***************************************************************************)
EXTENDS Integers, Sequences, FiniteSets, SequencesExt, Functions

CONSTANTS
  Keys,
  Positions,   \* of the pointer in a window
  MaxWindows,  \* bound: windows opened
  MaxChanges,  \* bound: changes reported in one run, by the windows opened so far
  MaxEdits     \* bound: edits of the request, by the windows opened so far

ASSUME WindowsAssumption ==
  /\ Positions \subseteq Nat /\ 0 \in Positions
  /\ MaxWindows \in Nat
  /\ MaxChanges \in [1..MaxWindows -> Nat] /\ MaxEdits \in [1..MaxWindows -> Nat]

VARIABLES
  lastID,
  entries,  \* the request: window, entry, mode and pending position
  states,   \* the window state: window, open, focused, mode
  applied,  \* the windows as last applied: window, entry, mode
  input,    \* held, pressed, released, and the pointer of each window
  os,       \* external: its windows, and the one with the focus; of a window, its
            \* entry and the mode in force, and as a history whether its last Change
            \* was made and its last SetCursor granted since it has the focus
  run,      \* the phase of processEvents, its changes and its events
  reader,   \* history: what a reader of the events knows
  motion,   \* history: how far the pointer moved in each window this run
  orphaned, \* history: a focused window closed without losing the focus
  edits

manager == <<lastID, entries, states>>
history == <<reader, motion, orphaned>>
vars == <<manager, applied, input, os, run, history, edits>>

Ids == 1..MaxWindows
NoWindow == 0
Nowhere == -1
Modes == {"Normal", "Locked"}
unplaced == [position |-> 0, placed |-> FALSE, inside |-> FALSE]

windowsOf(q) == {q[i].window : i \in DOMAIN q}
find(q, w) == CHOOSE i \in DOMAIN q : q[i].window = w
without(q, W) ==
  FoldLeft(LAMBDA rest, e : IF e.window \in W THEN rest ELSE Append(rest, e), <<>>, q)
\* q with e in the place of what it has of w, if anything.
edited(q, w, e) == [i \in DOMAIN q |-> IF q[i].window = w THEN e ELSE q[i]]
requested(w) == entries[find(entries, w)]
state(w) == states[find(states, w)]

Init ==
  /\ lastID = 0 /\ entries = <<>> /\ states = <<>> /\ applied = <<>>
  /\ input = [held |-> {}, pressed |-> {}, released |-> {}, pointers |-> <<>>]
  /\ os = [windows |-> <<>>, focus |-> NoWindow]
  /\ run = [phase |-> "idle", changes |-> <<>>, events |-> <<>>]
  /\ reader = [held |-> {}, pressed |-> {}, released |-> {}, open |-> {}, closed |-> {},
               inside |-> {}, right |-> TRUE]
  /\ motion = [w \in Ids |-> 0]
  /\ orphaned = FALSE
  /\ edits = 0

----------------------------------------------------------------------------
(* The request, edited by jobs between runs.                               *)

editing(w) ==
  /\ run.phase = "idle" /\ w \in windowsOf(entries)
  /\ edits < MaxEdits[lastID] /\ edits' = edits + 1
onlyEntries == UNCHANGED <<states, applied, input, os, run, history>>

Open ==
  /\ run.phase = "idle" /\ lastID < MaxWindows
  /\ lastID' = lastID + 1
  /\ entries' = Append(entries, [window |-> lastID', entry |-> 0, mode |-> "Normal",
                                 pending |-> Nowhere])
  /\ onlyEntries /\ UNCHANGED edits

\* Change and the setters of an entry.
Change(w) ==
  /\ editing(w)
  /\ entries' = edited(entries, w, [requested(w) EXCEPT !.entry = 1 - @])
  /\ onlyEntries /\ UNCHANGED lastID

SetCursorMode(w) ==
  /\ editing(w)
  /\ entries' = edited(entries, w,
                         [requested(w) EXCEPT !.mode = IF @ = "Normal" THEN "Locked" ELSE "Normal"])
  /\ onlyEntries /\ UNCHANGED lastID

SetCursorPosition(w, p) ==
  /\ editing(w)
  /\ entries' = edited(entries, w, [requested(w) EXCEPT !.pending = p])
  /\ onlyEntries /\ UNCHANGED lastID

Close(w) ==
  /\ run.phase = "idle" /\ w \in windowsOf(entries)
  /\ entries' = without(entries, {w})
  /\ onlyEntries /\ UNCHANGED <<lastID, edits>>

----------------------------------------------------------------------------
(* processEvents: apply.                                                   *)

\* External: the modes SetCursor may leave in force: what is, when it fails, and
\* the mode asked for, unless the window lacks the focus or the platform the mode.
inForce(focus, w, before, mode) ==
  {before, "Normal"} \cup (IF focus = w THEN {mode} ELSE {})
\* The window once its cursor was set and left in mode m.
cursored(shown, focus, w, mode, m) ==
  [shown EXCEPT !.effective = m, !.granted = (focus # w \/ m = mode)]

gone == windowsOf(applied) \ windowsOf(entries)
new == windowsOf(entries) \ windowsOf(applied)
opening == without(entries, windowsOf(applied))
as(w) == [window |-> w, entry |-> requested(w).entry, mode |-> requested(w).mode]

\* The windows applied before whose entry, or cursor, is not as last applied.
lastApplied(w) == applied[find(applied, w)]
toChange ==
  {w \in windowsOf(entries) \cap windowsOf(applied) : requested(w).entry # lastApplied(w).entry}
toSetCursor ==
  {w \in windowsOf(entries) \cap windowsOf(applied) : requested(w).mode # lastApplied(w).mode}

\* Which windows' pointers are put where the cursor was moved: not in a locked
\* window, and not where the operating system refuses.
moved(refused) ==
  {w \in windowsOf(entries) \ refused :
     requested(w).pending # Nowhere /\ requested(w).mode # "Locked"}

\* Each window as the operating system has it once the request is applied, but for
\* the changes it failed to make and with the modes it left in force.
shownNext(w, focus, unchanged, modes) ==
  IF w \in new
  THEN [entry |-> requested(w).entry, changed |-> TRUE, effective |-> "Normal", granted |-> TRUE]
  ELSE LET shown == IF w \in toChange
                    THEN [os.windows[w] EXCEPT
                            !.entry = IF w \in unchanged THEN @ ELSE requested(w).entry,
                            !.changed = w \notin unchanged]
                    ELSE os.windows[w]
       IN  IF w \in toSetCursor THEN cursored(shown, focus, w, requested(w).mode, modes[w])
           ELSE shown

Apply ==
  /\ run.phase = "idle"
  /\ \E failed \in SUBSET new, refused \in SUBSET windowsOf(entries),
        unchanged \in SUBSET toChange, modes \in [toSetCursor -> Modes] :
       LET focus == IF os.focus \in gone THEN NoWindow ELSE os.focus
           there == (DOMAIN os.windows \ gone) \cup (new \ failed)
           pointer(w) == IF w \in new THEN unplaced ELSE input.pointers[w]
           tell(kind, q) == [i \in DOMAIN q |-> [kind |-> kind, window |-> q[i].window]]
       IN  /\ failed \subseteq refused
           /\ \A w \in refused \ failed : requested(w).pending # Nowhere
           /\ \A w \in toSetCursor :
                IF w \in there
                THEN modes[w] \in inForce(focus, w, os.windows[w].effective, requested(w).mode)
                ELSE modes[w] = "Normal"
           /\ applied' = LET all == without(applied, gone) \o opening
                         IN  [i \in DOMAIN all |-> as(all[i].window)]
           /\ states' = without(states, gone)
                        \o [i \in DOMAIN opening |->
                              [window |-> opening[i].window,
                               open |-> FALSE, focused |-> FALSE, mode |-> "Normal"]]
           /\ input' = [input EXCEPT
                !.pointers = [w \in windowsOf(entries) |->
                   IF w \in moved(refused)
                   THEN [pointer(w) EXCEPT !.position = requested(w).pending, !.placed = TRUE]
                   ELSE pointer(w)]]
           /\ os' = [focus |-> focus,
                     windows |-> [w \in there |-> shownNext(w, focus, unchanged, modes)]]
           /\ run' = [phase |-> "pump",
                      changes |-> tell("Opened", without(opening, failed)),
                      events |-> tell("Closed", without(applied, windowsOf(entries)))]
           /\ orphaned' = (orphaned \/ os.focus \in gone)
  /\ entries' = [i \in DOMAIN entries |-> [entries[i] EXCEPT !.pending = Nowhere]]
  /\ UNCHANGED <<lastID, reader, motion, edits>>

----------------------------------------------------------------------------
(* processEvents: Pump and AppendChanges, external.                        *)

reports(c) == run' = [run EXCEPT !.changes = Append(@, c)]
Pump(w, c) ==
  /\ run.phase = "pump" /\ w \in DOMAIN os.windows
  /\ Len(run.changes) < MaxChanges[lastID]
  /\ reports(c)
  /\ UNCHANGED <<manager, applied, input, reader, motion, edits>>

OSFocus(w) ==
  /\ os.focus = NoWindow
  /\ os' = [os EXCEPT !.focus = w]
  /\ Pump(w, [kind |-> "Focus", window |-> w, focused |-> TRUE])
  /\ UNCHANGED orphaned
OSBlur(w) ==
  /\ os.focus = w
  /\ os' = [os EXCEPT !.focus = NoWindow,
                      !.windows[w] = [@ EXCEPT !.effective = "Normal", !.granted = TRUE]]
  /\ Pump(w, [kind |-> "Focus", window |-> w, focused |-> FALSE])
  /\ UNCHANGED orphaned
\* A window closes by itself.  Pump reports it, before any input of the run.
OSClose(w) ==
  /\ \A i \in DOMAIN run.changes : run.changes[i].kind \in {"Opened", "Closed"}
  /\ os' = [focus |-> IF os.focus = w THEN NoWindow ELSE os.focus,
            windows |-> Restrict(os.windows, DOMAIN os.windows \ {w})]
  /\ Pump(w, [kind |-> "Closed", window |-> w])
  /\ orphaned' = (orphaned \/ os.focus = w)
OSKey(w, key, pressed) ==
  /\ os.focus = w
  /\ Pump(w, [kind |-> "Key", window |-> w, key |-> key, pressed |-> pressed])
  /\ UNCHANGED <<os, orphaned>>
OSPointer(w, kind, p) ==
  /\ Pump(w, [kind |-> kind, window |-> w, position |-> p])
  /\ UNCHANGED <<os, orphaned>>

\* Once everything has been pumped, the modes in force are asked for and the
\* edges of the run before are forgotten.
Pumped ==
  /\ run.phase = "pump"
  /\ run' = [run EXCEPT !.phase = "fold"]
  /\ states' = [i \in DOMAIN states |->
       [states[i] EXCEPT !.mode =
          IF states[i].window \in DOMAIN os.windows
          THEN os.windows[states[i].window].effective ELSE "Normal"]]
  /\ input' = [input EXCEPT !.pressed = {}, !.released = {}]
  /\ UNCHANGED <<lastID, entries, applied, os, history, edits>>

----------------------------------------------------------------------------
(* processEvents: fold.                                                    *)

isKnown(w) == w \in windowsOf(states)
kept(in, key, pressed) ==
  IF pressed
  THEN [in EXCEPT !.held = @ \cup {key}, !.pressed = IF key \in in.held THEN @ ELSE @ \cup {key}]
  ELSE [in EXCEPT !.held = @ \ {key}, !.released = @ \cup {key}]

\* Fold takes the next change; events are those of the run with its own.
change == Head(run.changes)
published == Append(run.events, change)
Fold(kind, events) ==
  /\ run.phase = "fold" /\ run.changes # <<>> /\ change.kind = kind
  /\ run' = [run EXCEPT !.changes = Tail(@), !.events = events]
  /\ UNCHANGED <<lastID, reader, edits>>

FoldOpened ==
  /\ Fold("Opened", IF isKnown(change.window) THEN published ELSE run.events)
  /\ states' = edited(states, change.window, [state(change.window) EXCEPT !.open = TRUE])
  /\ UNCHANGED <<entries, applied, input, os, motion, orphaned>>

\* Mutant: a window that closed by itself stays applied.
FoldClosed_stillApplied ==
  /\ Fold("Closed", published)
  /\ states' = without(states, {change.window})
  /\ entries' = without(entries, {change.window})
  /\ input' = [input EXCEPT !.pointers = Restrict(@, DOMAIN @ \ {change.window})]
  /\ UNCHANGED <<applied, os, motion, orphaned>>
FoldClosed ==
  /\ Fold("Closed", published)
  /\ states' = without(states, {change.window})
  /\ entries' = without(entries, {change.window})
  /\ applied' = without(applied, {change.window})
  /\ input' = [input EXCEPT !.pointers = Restrict(@, DOMAIN @ \ {change.window})]
  /\ UNCHANGED <<os, motion, orphaned>>

\* The release of a key not held is dropped.
FoldKey ==
  LET dropped == ~change.pressed /\ change.key \notin input.held
  IN  /\ Fold("Key", IF dropped THEN run.events ELSE published)
      /\ input' = IF dropped THEN input ELSE kept(input, change.key, change.pressed)
      /\ UNCHANGED <<states, entries, applied, os, motion, orphaned>>

\* Focus gained applies the cursor again when its mode is not in force.
FoldFocus ==
  LET w == change.window
      mode == lastApplied(w).mode
      again == /\ w \in windowsOf(applied) /\ isKnown(w)
               /\ state(w).mode # mode
  IN  /\ Fold("Focus", published) /\ change.focused
      /\ IF again /\ w \in DOMAIN os.windows
         THEN \E m \in inForce(os.focus, w, os.windows[w].effective, mode) :
                os' = [os EXCEPT !.windows[w] = cursored(@, os.focus, w, mode, m)]
         ELSE UNCHANGED os
      /\ states' = edited(states, w,
           [state(w) EXCEPT !.focused = TRUE,
                            !.mode = IF ~again THEN @
                                     ELSE IF w \in DOMAIN os.windows
                                          THEN os'.windows[w].effective ELSE "Normal"])
      /\ UNCHANGED <<entries, applied, input, motion, orphaned>>
\* Mutant: only the window's own state learns that the focus is lost.
FoldBlur_keepsKeys ==
  /\ Fold("Focus", published) /\ ~change.focused
  /\ states' = edited(states, change.window, [state(change.window) EXCEPT !.focused = FALSE])
  /\ orphaned' = FALSE
  /\ UNCHANGED <<entries, applied, input, os, motion>>
\* Focus lost releases every key held, each with its event, before its own.
FoldBlur ==
  LET w == change.window
      releases == [i \in 1..Cardinality(input.held) |->
                     [kind |-> "Key", window |-> w, key |-> SetToSeq(input.held)[i],
                      pressed |-> FALSE]]
  IN  /\ Fold("Focus", Append(run.events \o releases, change)) /\ ~change.focused
      /\ states' = edited(states, w, [state(w) EXCEPT !.focused = FALSE])
      /\ input' = [input EXCEPT !.held = {}, !.released = @ \cup input.held]
      /\ orphaned' = FALSE
      /\ UNCHANGED <<entries, applied, os, motion>>

\* A move replaces the window's earlier move of the run, its motion added.
isMoveIn(e, w) == e.kind = "Move" /\ e.window = w
earlierMoves(w) == {i \in DOMAIN run.events : isMoveIn(run.events[i], w)}
\* Mutant: the motion of the earlier move is lost.
coalesced_lastMotion(w, far) ==
  LET earlier == Max(earlierMoves(w))
      move == [kind |-> "Move", window |-> w, motion |-> far]
  IN  Append(IF earlierMoves(w) = {} THEN run.events ELSE RemoveAt(run.events, earlier), move)
coalesced(w, far) ==
  LET earlier == Max(earlierMoves(w))
      move(all) == [kind |-> "Move", window |-> w, motion |-> all]
  IN  IF earlierMoves(w) = {} THEN Append(run.events, move(far))
      ELSE Append(RemoveAt(run.events, earlier), move(far + run.events[earlier].motion))
\* In a locked window a move keeps the position and goes by what the mouse
\* reports, here one.
FoldMove ==
  LET w == change.window
      locked == isKnown(w) /\ state(w).mode = "Locked"
      pointer == input.pointers[w]
      there == w \in DOMAIN input.pointers
      far == IF locked THEN 1
             ELSE IF there /\ pointer.placed THEN change.position - pointer.position ELSE 0
  IN  /\ Fold("Move", coalesced(w, far))
      /\ input' = IF locked \/ ~there THEN input
                  ELSE [input EXCEPT !.pointers[w] = [@ EXCEPT !.position = change.position,
                                                              !.placed = TRUE]]
      /\ motion' = [motion EXCEPT ![w] = @ + far]
      /\ UNCHANGED <<states, entries, applied, os, orphaned>>

FoldEnter ==
  /\ Fold("Enter", published)
  /\ input' = IF change.window \notin DOMAIN input.pointers THEN input
              ELSE [input EXCEPT !.pointers[change.window] =
                      [position |-> change.position, placed |-> TRUE, inside |-> TRUE]]
  /\ UNCHANGED <<states, entries, applied, os, motion, orphaned>>

FoldLeave ==
  /\ Fold("Leave", published)
  /\ input' = IF change.window \notin DOMAIN input.pointers THEN input
              ELSE [input EXCEPT !.pointers[change.window].inside = FALSE]
  /\ UNCHANGED <<states, entries, applied, os, motion, orphaned>>

----------------------------------------------------------------------------
(* processEvents: the events are published in order.                       *)

\* A reader that keeps the windows, the keys and the pointer by their events.
told(r, e) ==
  LET known == [r EXCEPT !.right = @ /\ e.window \in r.open]
  IN  CASE e.kind = "Opened" ->
             [r EXCEPT !.open = @ \cup {e.window},
                       !.right = @ /\ e.window \notin r.open \cup r.closed]
        [] e.kind = "Closed" ->
             [r EXCEPT !.open = @ \ {e.window}, !.closed = @ \cup {e.window},
                       !.inside = @ \ {e.window}, !.right = @ /\ e.window \notin r.closed]
        [] e.kind = "Key" /\ e.pressed ->
             [known EXCEPT !.held = @ \cup {e.key},
                           !.pressed = @ \cup ({e.key} \ r.held)]
        [] e.kind = "Key" /\ ~e.pressed ->
             [known EXCEPT !.held = @ \ {e.key}, !.released = @ \cup {e.key}]
        [] e.kind = "Enter" -> [known EXCEPT !.inside = @ \cup {e.window}]
        [] e.kind = "Leave" -> [known EXCEPT !.inside = @ \ {e.window}]
        [] OTHER -> known
Publish ==
  /\ run.phase = "fold" /\ run.changes = <<>>
  /\ reader' = FoldLeft(told, [reader EXCEPT !.pressed = {}, !.released = {}], run.events)
  /\ run' = [phase |-> "idle", changes |-> <<>>, events |-> <<>>]
  /\ motion' = [w \in Ids |-> 0]
  /\ UNCHANGED <<manager, applied, input, os, orphaned, edits>>

Next ==
  \/ Open \/ Apply \/ Pumped \/ Publish
  \/ \E w \in Ids : \/ Change(w) \/ SetCursorMode(w) \/ Close(w)
                    \/ OSFocus(w) \/ OSBlur(w) \/ OSClose(w)
                    \/ OSPointer(w, "Leave", 0)
  \/ \E w \in Ids, p \in Positions : \/ SetCursorPosition(w, p)
                                     \/ OSPointer(w, "Move", p) \/ OSPointer(w, "Enter", p)
  \/ \E w \in Ids, key \in Keys, pressed \in BOOLEAN : OSKey(w, key, pressed)
  \/ FoldOpened \/ FoldClosed \/ FoldKey \/ FoldFocus \/ FoldBlur \/ FoldMove
  \/ FoldEnter \/ FoldLeave

Spec == Init /\ [][Next]_vars

----------------------------------------------------------------------------
(* Properties.                                                             *)

names(q) == [i \in DOMAIN q |-> q[i].window]
folded == run.phase = "fold" /\ run.changes = <<>>

\* The four lists of windows the package keeps agree once a run has folded its
\* changes: entries, states, applied and pointers name the same windows in the
\* order they were opened, whatever was opened, closed, failed or closed by
\* itself; the state calls open just those that exist, which are as they were
\* last applied unless their last change failed, and the one focused that is; it
\* has the mode in force of each, which in the focused window is the one asked
\* for unless the system last refused it, and Normal in the others
\* (eventprocessor.go apply, fold and reapplyCursorMode).
ListsAgree ==
  folded =>
    /\ names(entries) = names(states) /\ names(applied) = names(states)
    /\ DOMAIN input.pointers = windowsOf(states)
    /\ \A i \in DOMAIN states :
         LET s == states[i] IN
         /\ s.open = (s.window \in DOMAIN os.windows)
         /\ s.focused = (os.focus = s.window)
         /\ s.open =>
              LET shown == os.windows[s.window] IN
              /\ shown.changed => shown.entry = applied[i].entry
              /\ shown.effective = s.mode
              /\ s.focused /\ shown.granted => s.mode = applied[i].mode
         /\ ~s.focused => s.mode = "Normal"

\* Who keeps the state by the events alone has what the package keeps: the keys
\* held and their edges, the open windows and the ones the pointer is in.  A
\* window opens and closes once, no event names one that is not open, and the
\* moves of a run reach the reader as one event with all their motion
\* (eventprocessor.go fold; the releases on focus loss are events too).
ReadersAgree ==
  /\ reader.right
  /\ run.phase = "idle" =>
       /\ reader.held = input.held
       /\ reader.pressed = input.pressed /\ reader.released = input.released
       /\ reader.open = {w \in windowsOf(states) : state(w).open}
       /\ reader.inside = {w \in DOMAIN input.pointers : input.pointers[w].inside}
  /\ folded => \A w \in Ids :
       /\ \A i, j \in earlierMoves(w) : i = j
       /\ \A i \in earlierMoves(w) : run.events[i].motion = motion[w]
       /\ earlierMoves(w) = {} => motion[w] = 0

\* No key stays held once no window has the focus: losing it releases them all,
\* unless the focused window closed, whose loss of the focus nothing reports
\* (eventprocessor.go fold of InputChangeFocus; events.go: "Losing focus
\* releases every held key").
KeysReleased ==
  run.phase = "idle" /\ os.focus = NoWindow /\ ~orphaned => input.held = {}
=============================================================================
