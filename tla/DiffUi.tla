-------------------------------- MODULE DiffUi --------------------------------
(***************************************************************************)
(* `dtu diff ui` (cli/src/diff/ui): seven tabs that list the differences   *)
(* between the device and a diff source, a cursor, items the user hides, a *)
(* search, and on five of the tabs a box of filters.  What is hidden is    *)
(* kept in a file from one session to the next.                            *)
(*                                                                         *)
(* A tab keeps its cursor twice: `sel`, an index into all of its items,    *)
(* which the keys act on, and `selectedId`, by which the highlighted entry *)
(* is found among the visible items.  Each tab is made anew when the user  *)
(* goes to it, from the database and the hidden sets of that moment.       *)
(*                                                                         *)
(* Left out: the popups, drawing, and what opening a file and the          *)
(* clipboard run, which change none of this.                               *)
(***************************************************************************)
EXTENDS Integers, Sequences, FiniteSets, SequencesExt, Functions

CONSTANTS Items,       \* tab -> the items it lists, in order
          Chars,       \* characters typed into the search
          BadRegex,    \* those of them that make the search no regex
          MaxSearch,   \* bound: length of the search
          MaxToggles,  \* bound: items hidden or shown again
          MaxSessions  \* bound: sessions

Tabs == <<"SystemServices", "SystemServiceMethods", "Apks", "Providers",
          "Receivers", "Services", "Activities">>
TabSet == Range(Tabs)
IpcTabs == {"Providers", "Receivers", "Services", "Activities"}

(* The check boxes of a tab's filter box; its combo box has the owners of  *)
(* the items, services or APKs, after an entry for none.                   *)
Checks(t) == IF t = "SystemServiceMethods" THEN <<"new", "modified", "binders">>
             ELSE IF t = "Services" THEN <<"no_perms", "normal_perms", "returns_binder">>
             ELSE IF t \in IpcTabs THEN <<"no_perms", "normal_perms">>
             ELSE <<>>
HasBox(t) == Checks(t) # <<>>
Owners(t) == {Items[t][i].owner : i \in DOMAIN Items[t]}

NoOwner == 0
Item == [id : Nat \ {0}, owner : Nat, chars : SUBSET Chars,
         exists : BOOLEAN, hash : {"true", "false", "unknown"},
         binder : {"true", "false", "unknown"}, perms : {"none", "normal", "other"}]

ASSUME DiffUiAssumption ==
  /\ DOMAIN Items = TabSet
  /\ \A t \in TabSet : /\ Items[t] \in Seq(Item)
                       /\ \A i, j \in DOMAIN Items[t] : Items[t][i].id = Items[t][j].id => i = j
  /\ BadRegex \subseteq Chars
  /\ MaxSearch \in Nat /\ MaxToggles \in Nat /\ MaxSessions \in Nat

VARIABLES
  mode,       \* "off", "on", "stuck" in an endless loop, "panicked"
  tab,        \* the active tab
  sel,        \* its index of the selected item, from 0
  selectedId, \* the id of the selected item, 0 before any
  hidden,     \* its hidden_set
  filter,     \* its search filter: characters an item must have
  owners,     \* the hidden owners its customizer was made with
  box,        \* its filter box: focus, whether expanded, owner, checks
  inBox,      \* whether the filter box has the keys
  showHidden, \* Applet::show_hidden
  editing,    \* Applet::editing_search_string
  search,     \* Applet::search_string, <<>> for none
  state,      \* State: tab -> the items hidden in it
  file,       \* state.json: "none", "written", or "broken"
  disk,       \* the State in it
  kept,       \* what was hidden at the end of the last session stored in full
  meant,      \* what the user has hidden: kept, and what this session changed
  toggles, sessions

tabVars == <<tab, sel, selectedId, hidden, filter, owners, box>>
uiVars == <<inBox, showHidden, editing, search>>
vars == <<mode, tab, sel, selectedId, hidden, filter, owners, box, inBox,
          showHidden, editing, search, state, file, disk, kept, meant, toggles, sessions>>

(* The boxes as new: the methods are those with a binder at first.         *)
NewBox(t) == [focus |-> 0, expanded |-> FALSE, owner |-> NoOwner,
              on |-> IF t = "SystemServiceMethods" THEN {"binders"} ELSE {}]

NothingHidden == [t \in TabSet |-> {}]

Init ==
  /\ mode = "off"
  /\ tab = Tabs[1] /\ sel = 0 /\ selectedId = 0 /\ hidden = {} /\ filter = {}
  /\ owners = {} /\ box = NewBox(Tabs[1])
  /\ inBox = FALSE /\ showHidden = TRUE /\ editing = FALSE /\ search = <<>>
  /\ state = NothingHidden /\ file = "none" /\ disk = NothingHidden
  /\ kept = NothingHidden /\ meant = NothingHidden
  /\ toggles = 0 /\ sessions = 0

------------------------------------------------------------------------------
(* What a tab shows. *)

(* One check box, applied to an item: whether the item is filtered out.    *)
FilteredBy(c, it) ==
  CASE c = "binders" -> it.binder # "true"
    [] c = "new" -> it.exists
    [] c = "modified" -> ~it.exists \/ it.hash = "true"
    [] c = "no_perms" -> it.perms # "none"
    [] c = "normal_perms" -> it.perms # "normal"
    [] c = "returns_binder" -> it.binder = "false"

(* TabContainer::ignore_item, with the hidden set h: the search, the       *)
(* customizer (methods of hidden services, components of hidden APKs), the *)
(* box, the hidden set.                                                    *)
Ignored(it, h) ==
  \/ ~(filter \subseteq it.chars)
  \/ HasBox(tab) /\ \/ it.owner \in owners
                    \/ box.owner # NoOwner /\ it.owner # box.owner
                    \/ \E c \in box.on : FilteredBy(c, it)
  \/ ~showHidden /\ it.id \in h

Count == Len(Items[tab])
At(i) == Items[tab][i + 1]
Visible(h) == {i \in 0..Count - 1 : ~Ignored(At(i), h)}
VisibleIdx == Visible(hidden)

(* TabContainer::get_selected_idx: the visible item with the selected id,  *)
(* or the first visible one.                                               *)
Highlighted ==
  LET ids == {i \in VisibleIdx : At(i).id = selectedId}
      from == IF ids = {} THEN VisibleIdx ELSE ids
  IN  CHOOSE i \in from : \A j \in from : i <= j

(* The first index of V met from sel on, forwards or back, around the end. *)
Nearest(d, V) ==
  LET Around(k) == (sel + d * k) % Count
      steps == {k \in 1..Count : Around(k) \in V}
  IN  Around(CHOOSE k \in steps : \A l \in steps : k <= l)

------------------------------------------------------------------------------
(* Sessions. *)

(* What the customizer of a tab goes by: the hidden services, or the       *)
(* hidden APKs, of a state.                                                *)
HiddenOwners(t, st) == IF t = "SystemServiceMethods" THEN st["SystemServices"]
                       ELSE IF t \in IpcTabs THEN st["Apks"] ELSE {}

(* Fault: the customizer is made with the hidden owners of before.         *)
NewTabStale(t, st) ==
  /\ tab' = t /\ sel' = 0 /\ selectedId' = 0 /\ filter' = {}
  /\ hidden' = st[t]
  /\ owners' = HiddenOwners(t, state)
  /\ box' = NewBox(t)

(* The tab made by system_services_tab, get_apks_tab or new_tab_container: *)
(* nothing is selected, the search of the applet is not handed on.         *)
NewTab(t, st) ==
  /\ tab' = t /\ sel' = 0 /\ selectedId' = 0 /\ filter' = {}
  /\ hidden' = st[t]
  /\ owners' = HiddenOwners(t, st)
  /\ box' = NewBox(t)

NewApplet(st) ==
  /\ state' = st
  /\ NewTab("SystemServices", st)
  /\ inBox' = FALSE /\ showHidden' = TRUE /\ editing' = FALSE /\ search' = <<>>

(* Applet::new and State::load: a file that is not JSON ends the command.  *)
Start ==
  /\ mode = "off" /\ sessions < MaxSessions /\ file # "broken"
  /\ mode' = "on" /\ sessions' = sessions + 1
  /\ NewApplet(disk) /\ meant' = kept
  /\ UNCHANGED <<file, disk, kept, toggles>>

(* Fault: the active tab's hidden set is not taken into the state.         *)
UpdatedStateNot == state

(* Applet::update_state.                                                   *)
UpdatedState == [state EXCEPT ![tab] = hidden]

(* Ctrl+C: State::store truncates the file before it writes, and when the  *)
(* write is cut off or fails all that was in the file is lost; an error is *)
(* logged and the command ends all the same.                               *)
Quit ==
  /\ mode = "on"
  /\ mode' = "off"
  /\ \/ file' = "written" /\ disk' = UpdatedState /\ kept' = meant
     \/ file' = "broken" /\ disk' = NothingHidden /\ UNCHANGED kept
     \/ UNCHANGED <<file, disk, kept>>
  /\ NewApplet(NothingHidden) /\ meant' = NothingHidden
  /\ UNCHANGED <<toggles, sessions>>

(* Reading an event or drawing fails, or the process is killed: nothing is *)
(* stored.                                                                 *)
Abort ==
  /\ mode \in {"on", "stuck"}
  /\ mode' = "off"
  /\ NewApplet(NothingHidden) /\ meant' = NothingHidden
  /\ UNCHANGED <<file, disk, kept, toggles, sessions>>

------------------------------------------------------------------------------
(* Keys of the list. *)

ListKeys == mode = "on" /\ ~inBox
NotEditing == ListKeys /\ ~editing
Else == UNCHANGED <<state, file, disk, kept, meant, toggles, sessions>>

(* Applet::next_tab (J, Tab) and prev_tab (K).  A tab that cannot be read  *)
(* from the database leaves the old one.                                   *)
GoTab(d) ==
  /\ ListKeys /\ (editing => d = 1)
  /\ state' = UpdatedState
  /\ LET n == CHOOSE n \in DOMAIN Tabs : Tabs[n] = tab
         t == Tabs[((n - 1 + d) % Len(Tabs)) + 1]
     IN  NewTab(t, state') \/ UNCHANGED tabVars
  /\ UNCHANGED <<mode, uiVars, file, disk, kept, meant, toggles, sessions>>

Select(i) == sel' = i /\ selectedId' = At(i).id

(* TabContainer::inc_selection and dec_selection (j, k, the wheel).        *)
Step(d, V) == IF V = {} THEN UNCHANGED <<sel, selectedId>> ELSE Select(Nearest(d, V))

MoveSelection(d) ==
  /\ ListKeys
  /\ Step(d, VisibleIdx)
  /\ UNCHANGED <<mode, tab, hidden, filter, owners, box, uiVars>> /\ Else

(* select_start (g): the first visible item; with none the loop has no     *)
(* end, and without items the length minus one underflows (a panic in a    *)
(* build with checks, else the loop).                                      *)
Start0 ==
  IF VisibleIdx = {}
  THEN /\ IF Count = 0 THEN mode' \in {"panicked", "stuck"} ELSE mode' = "stuck"
       /\ UNCHANGED <<sel, selectedId>>
  ELSE mode' = mode /\ Select(CHOOSE i \in VisibleIdx : \A j \in VisibleIdx : i <= j)

(* select_end (G): the last item; when it is not visible the loop looks at *)
(* it again for ever, as the index it computes is dropped.                 *)
End0 ==
  IF Count = 0
  THEN mode' \in {"panicked", "stuck"} /\ UNCHANGED <<sel, selectedId>>
  ELSE IF Count - 1 \in VisibleIdx
       THEN mode' = mode /\ Select(Count - 1)
       ELSE mode' = "stuck" /\ sel' = Count - 1 /\ UNCHANGED selectedId

SelectStart ==
  /\ NotEditing /\ Start0
  /\ UNCHANGED <<tab, hidden, filter, owners, box, uiVars>> /\ Else

SelectEnd ==
  /\ NotEditing /\ End0
  /\ UNCHANGED <<tab, hidden, filter, owners, box, uiVars>> /\ Else

Toggled(s, x) == IF x \in s THEN s \ {x} ELSE s \cup {x}

(* Fault: hiding goes on to the next item by its index only.               *)
ToggleHiddenStale ==
  /\ NotEditing /\ toggles < MaxToggles /\ sel < Count
  /\ hidden' = Toggled(hidden, At(sel).id)
  /\ meant' = [meant EXCEPT ![tab] = Toggled(@, At(sel).id)]
  /\ toggles' = toggles + 1
  /\ sel' = (sel + 1) % Count /\ UNCHANGED selectedId
  /\ UNCHANGED <<mode, tab, filter, owners, box, uiVars, state, file, disk, kept, sessions>>

(* TabContainer::toggle_selected_hidden (H), on the item at sel; the       *)
(* selection goes on to the next visible item when hidden ones are not     *)
(* shown.                                                                  *)
ToggleHidden ==
  /\ NotEditing /\ toggles < MaxToggles /\ sel < Count
  /\ hidden' = Toggled(hidden, At(sel).id)
  /\ meant' = [meant EXCEPT ![tab] = Toggled(@, At(sel).id)]
  /\ toggles' = toggles + 1
  /\ IF showHidden THEN UNCHANGED <<sel, selectedId>> ELSE Step(1, Visible(hidden'))
  /\ UNCHANGED <<mode, tab, filter, owners, box, uiVars, state, file, disk, kept, sessions>>

(* The dot: Applet::toggle_show_hidden.                                    *)
ToggleShowHidden ==
  /\ NotEditing
  /\ showHidden' = ~showHidden
  /\ UNCHANGED <<mode, tabVars, inBox, editing, search>> /\ Else

(* The search: `/` begins it, Enter ends it, every character is given to   *)
(* the active tab; what is no regex leaves the tab's filter as it was.     *)
EditSearch ==
  /\ ListKeys
  /\ editing' = ~editing
  /\ UNCHANGED <<mode, tabVars, inBox, showHidden, search>> /\ Else

SetSearch(s) ==
  /\ search' = s
  /\ filter' = IF Range(s) \cap BadRegex = {} THEN Range(s) ELSE filter

Type(c) ==
  /\ ListKeys /\ editing /\ Len(search) < MaxSearch
  /\ SetSearch(Append(search, c))
  /\ UNCHANGED <<mode, tab, sel, selectedId, hidden, owners, box, inBox, showHidden, editing>>
  /\ Else

Backspace ==
  /\ ListKeys /\ editing /\ search # <<>>
  /\ SetSearch(Front(search))
  /\ UNCHANGED <<mode, tab, sel, selectedId, hidden, owners, box, inBox, showHidden, editing>>
  /\ Else

------------------------------------------------------------------------------
(* Keys of the filter box. *)

BoxKeys == mode = "on" /\ inBox
BoxElse == UNCHANGED <<mode, tab, sel, selectedId, hidden, filter, owners, uiVars>> /\ Else

SwitchSection ==
  /\ mode = "on" /\ HasBox(tab)
  /\ inBox' = ~inBox
  /\ UNCHANGED <<mode, tabVars, showHidden, editing, search>> /\ Else

(* Focus::next and prev.  From the last check box of the methods it goes   *)
(* on to the first one, not to the combo box.                              *)
NextFocus(f) == IF f < Len(Checks(tab)) THEN f + 1
                ELSE IF tab = "SystemServiceMethods" THEN 1 ELSE 0
PrevFocus(f) == IF f = 0 THEN Len(Checks(tab)) ELSE f - 1

MoveFocus ==
  /\ BoxKeys /\ ~(box.focus = 0 /\ box.expanded)
  /\ \E f \in {NextFocus(box.focus), PrevFocus(box.focus)} : box' = [box EXCEPT !.focus = f]
  /\ BoxElse

(* Enter.                                                                  *)
Press ==
  /\ BoxKeys
  /\ box' = IF box.focus = 0 THEN [box EXCEPT !.expanded = ~@]
            ELSE [box EXCEPT !.on = Toggled(@, Checks(tab)[box.focus])]
  /\ BoxElse

(* The arrows, Ctrl+j and Ctrl+k go around the combo box; typing goes to   *)
(* the first entry that begins with what was typed.                        *)
ChooseOwner ==
  /\ BoxKeys /\ box.focus = 0 /\ box.expanded
  /\ \E o \in {NoOwner} \cup Owners(tab) : box' = [box EXCEPT !.owner = o]
  /\ BoxElse

------------------------------------------------------------------------------
Stopped == /\ \/ mode = "panicked"
              \/ mode = "off" /\ (sessions = MaxSessions \/ file = "broken")
           /\ UNCHANGED vars

Next ==
  \/ Start \/ Quit \/ Abort
  \/ \E d \in {1, -1} : GoTab(d) \/ MoveSelection(d)
  \/ SelectStart \/ SelectEnd \/ ToggleHidden \/ ToggleShowHidden
  \/ EditSearch \/ (\E c \in Chars : Type(c)) \/ Backspace
  \/ SwitchSection \/ MoveFocus \/ Press \/ ChooseOwner
  \/ Stopped

Spec == Init /\ [][Next]_vars

------------------------------------------------------------------------------
TypeOK ==
  /\ mode \in {"off", "on", "stuck", "panicked"}
  /\ tab \in TabSet /\ sel \in Nat /\ (Count > 0 => sel < Count)
  /\ selectedId \in Nat /\ hidden \subseteq Nat /\ filter \subseteq Chars
  /\ box \in [focus : 0..Len(Checks(tab)), expanded : BOOLEAN,
              owner : {NoOwner} \cup Owners(tab), on : SUBSET Range(Checks(tab))]
  /\ inBox \in BOOLEAN /\ (inBox => HasBox(tab))
  /\ showHidden \in BOOLEAN /\ editing \in BOOLEAN
  /\ search \in Seq(Chars) /\ Len(search) <= MaxSearch
  /\ state \in [TabSet -> SUBSET Nat] /\ owners \subseteq Nat
  /\ file \in {"none", "written", "broken"} /\ disk \in [TabSet -> SUBSET Nat]
  /\ kept \in [TabSet -> SUBSET Nat] /\ meant \in [TabSet -> SUBSET Nat]
  /\ toggles \in 0..MaxToggles /\ sessions \in 0..MaxSessions

(* When the item the keys act on is visible, it is the highlighted one:    *)
(* sel and selectedId never tell of two visible items, however the search, *)
(* the boxes and the hidden items changed since a key moved the selection. *)
SelectedIsHighlighted ==
  mode = "on" /\ sel \in VisibleIdx => Highlighted = sel

(* What the user hides stays hidden, as long as every store of the state   *)
(* is whole or not begun: over changes of tabs that succeed or fail the    *)
(* active tab has its own set and the state those of the others, which     *)
(* together are what the last stored session ended with and this session   *)
(* changed.  A store that is cut off loses all of it (state.rs:35); then   *)
(* no session runs, so none begins with nothing hidden and stores that.    *)
HiddenKept ==
  /\ mode = "on" => \A t \in TabSet : meant[t] = IF t = tab THEN hidden ELSE state[t]
  /\ file # "broken" => disk = kept
  /\ mode = "on" => file # "broken"

(* No item of a service or an APK that the user has hidden is visible: the *)
(* copy of the hidden owners that a tab was made with is never stale.      *)
HiddenOwnersGone ==
  mode = "on" /\ HasBox(tab) =>
    \A i \in VisibleIdx :
      At(i).owner \notin meant[IF tab = "SystemServiceMethods" THEN "SystemServices" ELSE "Apks"]
===============================================================================
