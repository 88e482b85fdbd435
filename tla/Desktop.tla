------------------------------ MODULE Desktop ------------------------------
(* The window manager of gfxwin.c: the window table, the start menu, the    *)
(* task bar, the dock and the main loop of gw_demo.  One record d holds its *)
(* statics.  A pixel position is a place: what the hit tests of the code    *)
(* tell apart.  Window contents are left out, except that the terminal      *)
(* runs commands and Settings changes the theme.                            *)
EXTENDS Integers, FiniteSets, FiniteSetsExt

CONSTANTS
  MaxWindows,  \* GW_MAX_WINDOWS
  Apps,        \* the applications of gw_app_names
  Icons,       \* the desktop icons: applications and "game"
  MaxDepth     \* bound: desktops started from the terminal of a desktop

ASSUME DesktopAssumption ==
  /\ MaxWindows \in Nat \ {0}
  /\ Icons \subseteq Apps \cup {"game"}
  /\ "none" \notin Apps /\ MaxDepth \in Nat

VARIABLE d

Slots == 0 .. MaxWindows - 1
None == -1

(* A free entry of gw_windows.  mm: the callback mousemove is set, which     *)
(* stays when the window is closed; the other fields are not read.          *)
Unused == [used |-> FALSE, hidden |-> FALSE, focused |-> FALSE, moving |-> FALSE,
           maxd |-> FALSE, app |-> "none", mm |-> FALSE]
Freed(w) == [Unused EXCEPT !.mm = w.mm]

(* Statics after boot; buttons are the left button.  bt: the button as      *)
(* gw_demo last read it, which at the next reading is its last_bt.  fresh:  *)
(* the last full redraw shows the present windows, focus, menu and theme,   *)
(* and no drag has painted over them since.                                 *)
(* gui: gw_gui_active.  launcher: g_gui_launch is set.  depth: desktops     *)
(* below this one.                                                          *)
Boot == [mode |-> "shell", pc |-> "key", win |-> [s \in Slots |-> Unused], foc |-> None,
         menu |-> FALSE, quit |-> FALSE, dirty |-> TRUE, gnome |-> FALSE,
         bt |-> FALSE, last_btn |-> FALSE, prev_btn |-> FALSE,
         tbtn_prev |-> FALSE, dock_prev |-> FALSE,
         fresh |-> FALSE, gui |-> FALSE, launcher |-> FALSE, depth |-> 0]

Used(e) == {s \in Slots : e.win[s].used}
Visible(e) == {s \in Used(e) : ~e.win[s].hidden}
Open(e, a) == {s \in Used(e) : e.win[s].app = a}
Dragged(e) == {s \in Used(e) : e.win[s].moving}

gw_bring_front(e, w) ==
  [e EXCEPT !.win = [s \in Slots |-> [e.win[s] EXCEPT !.focused = (s = w)]], !.foc = w]

gw_init(e) == [e EXCEPT !.win = [s \in Slots |-> Freed(e.win[s])], !.foc = None]

(* A window in entry w, in front.                                           *)
gw_create(e, w) == gw_bring_front([e EXCEPT !.win[w] = [Freed(@) EXCEPT !.used = TRUE]], w)

(* The first free entry becomes the application's window; none is made when *)
(* the table is full.  Paint is the application with a mousemove.           *)
gw_spawn_app(e, a) ==
  IF Used(e) = Slots THEN e
  ELSE LET w == Min(Slots \ Used(e))
       IN [gw_create(e, w) EXCEPT
             !.win[w] = [@ EXCEPT !.app = a, !.mm = e.win[w].mm \/ a = "paint"]]

UnfocusedKept(e, w) == e.foc
Unfocused(e, w) == IF e.foc = w THEN None ELSE e.foc

gw_close(e, w) == [e EXCEPT !.win[w] = Freed(@), !.foc = Unfocused(e, w)]

gw_minimize(e, w) ==
  [e EXCEPT !.win[w].hidden = TRUE,
            !.win[w].focused = @ /\ e.foc # w,
            !.foc = Unfocused(e, w)]

gw_restore(e, w) == gw_bring_front([e EXCEPT !.win[w].hidden = FALSE], w)

gw_toggle_max(e, w) ==
  gw_bring_front([e EXCEPT !.win[w].maxd = ~@, !.dirty = TRUE], w)

(* The windows gw_launch_app finds for an application; one that is          *)
(* minimized counts.                                                        *)
OpenedVisible(e, a) == Open(e, a) \cap Visible(e)
Opened(e, a) == Open(e, a)

gw_launch_app(e, a) ==
  IF a \notin Apps THEN e
  ELSE IF Opened(e, a) # {} THEN gw_restore(e, Min(Opened(e, a))) ELSE gw_spawn_app(e, a)

(* A game, or the menu of games, runs to its end inside the terminal        *)
(* window, which it then closes.                                            *)
gw_run_game(e) ==
  LET f == gw_launch_app(e, "terminal")
      T == Open(f, "terminal")
  IN IF T = {} THEN f ELSE gw_close(f, Min(T))

gw_launch_game(e) == gw_run_game([e EXCEPT !.dirty = TRUE])

gw_set_theme(e, gn) == [e EXCEPT !.gnome = gn, !.dirty = @ \/ e.gui]

-----------------------------------------------------------------------------
(* The start of gw_demo.  The menu and the button statics keep what the     *)
(* last session left.                                                       *)
gw_demo(e) ==
  [gw_init(e) EXCEPT !.mode = "desktop", !.pc = "key", !.quit = FALSE, !.dirty = TRUE,
                     !.bt = FALSE, !.fresh = FALSE, !.gui = TRUE, !.launcher = TRUE]

(* Alt+Tab: the next visible window after the focused one.                  *)
AltTab(e) ==
  LET start == IF e.foc = None THEN 0 ELSE e.foc
      After(s) == (s - start - 1) % MaxWindows
      next == CHOOSE s \in Visible(e) : \A t \in Visible(e) : After(s) <= After(t)
  IN IF Visible(e) = {} THEN e
     ELSE [(IF next = e.foc THEN e ELSE gw_bring_front(e, next)) EXCEPT !.dirty = TRUE]

Keys == {"alttab", "m", "q", "t", "b", "s", "other"}

(* Keys without a focused window; with one they are the window's.           *)
gw_handle_key(e, key) ==
  CASE key = "alttab" -> AltTab(e)
    [] key = "m" /\ e.foc = None -> [e EXCEPT !.menu = ~@]
    [] key = "q" /\ e.foc = None -> [e EXCEPT !.quit = TRUE]
    [] key = "t" /\ e.foc = None -> gw_launch_app(e, "terminal")
    [] key = "b" /\ e.foc = None -> gw_launch_app(e, "browser")
    [] key = "s" /\ e.foc = None -> gw_launch_game(e)
    [] OTHER -> e

InTerminal(e) == e.foc # None /\ e.win[e.foc].app = "terminal"

(* Commands of the terminal that reach the window manager and return: a     *)
(* game, games, theme.                                                      *)
Command(e) ==
  IF InTerminal(e) THEN {gw_run_game(e), gw_set_theme(e, TRUE), gw_set_theme(e, FALSE)} ELSE {}

AfterKey(e) ==
  {[gw_handle_key(e, key) EXCEPT !.dirty = TRUE] : key \in Keys}
    \cup {[e EXCEPT !.menu = FALSE, !.dirty = TRUE]}
    \cup {[f EXCEPT !.dirty = TRUE] : f \in Command(e)}

(* A press or a release asks for a full redraw.                             *)
EdgePressed(e, bt) == bt /\ ~e.bt
EdgeDirty(e, bt) == bt # e.bt

Looping(pc) == d.mode = "desktop" /\ d.pc = pc

(* What a full redraw would show.                                           *)
Seen(e) ==
  <<e.menu, e.gnome, e.foc, {<<s, e.win[s].app, e.win[s].maxd>> : s \in Visible(e)}>>
StillFresh(e) == d.fresh /\ Seen(e) = Seen(d)

(* The first half of an iteration of gw_demo: buttons and key are read.     *)
ReadInput ==
  /\ Looping("key")
  /\ \E bt \in BOOLEAN, e \in {d} \cup AfterKey(d) :
       d' = [e EXCEPT !.pc = "mouse", !.bt = bt, !.dirty = @ \/ EdgeDirty(d, bt),
                      !.fresh = StillFresh(e)]

(* The command `desktop` typed there: another gw_demo takes over, with the   *)
(* same window table.                                                       *)
Nested ==
  /\ Looping("key") /\ InTerminal(d) /\ d.depth < MaxDepth
  /\ d' = [gw_demo(d) EXCEPT !.depth = @ + 1]

(* The commands reboot and shutdown.                                        *)
PowerOff == Looping("key") /\ InTerminal(d) /\ d' = [Boot EXCEPT !.mode = "off"]

-----------------------------------------------------------------------------
(* Places the pointer can be at: rows of the open menu, the task bar, the   *)
(* dock, an icon that no window covers, and a spot of the desktop with the  *)
(* window hit there and the part of it.                                     *)
Place(zone, at, w) == [zone |-> zone, at |-> at, w |-> w]
MenuRows == Apps \cup {"return", "reboot", "shutdown", "none"}
Parts == {"close", "min", "title", "content"}

(* The window at a spot that the windows in S cover, with the dragged       *)
(* windows in near within reach of their title: a dragged window, else the  *)
(* focused one, else the last of the table.                                 *)
Hit(e, near, S) ==
  LET F == {s \in S : e.win[s].focused}
  IN IF near # {} THEN Min(near)
     ELSE IF F # {} THEN Min(F)
     ELSE IF S # {} THEN Max(S) ELSE None

Hits(e) == {Hit(e, near, S) : near \in SUBSET (Dragged(e) \cap Visible(e)), S \in SUBSET Visible(e)}

Places(e) ==
  (IF e.menu THEN {Place("menu", r, None) : r \in MenuRows} ELSE {})
    \cup {Place("start", "none", None), Place("bar", "none", None)}
    \cup {Place("task", "none", s) : s \in Used(e)}
    \cup (IF e.gnome THEN {Place("dock", a, None) : a \in Apps \cup {"none"}} ELSE {})
    \cup {Place("icon", i, None) : i \in Icons}
    \cup {Place("spot", q, h) : q \in Parts, h \in Hits(e) \ {None}}
    \cup {Place("spot", "none", None)}

(* A row of the menu, held or pressed.                                      *)
gw_start_menu_mouse(e, row) ==
  LET f == [e EXCEPT !.menu = FALSE]
  IN IF ~e.bt \/ row = "none" THEN e
     ELSE CASE row = "return" -> [f EXCEPT !.quit = TRUE]
            [] row \in {"reboot", "shutdown"} -> [f EXCEPT !.mode = "off"]
            [] OTHER -> gw_launch_app(f, row)

(* A task button: the focused window is minimized, another comes to front.  *)
TaskButton(e, w) ==
  IF e.win[w].focused /\ ~e.win[w].hidden THEN gw_minimize(e, w) ELSE gw_restore(e, w)

Taskbar(e, p) ==
  LET f == [e EXCEPT !.menu = @ /\ ~e.bt, !.prev_btn = FALSE]
  IN CASE p.zone = "start" ->
            [e EXCEPT !.menu = (@ # (e.bt /\ ~e.prev_btn)), !.prev_btn = e.bt]
       [] p.zone = "task" ->
            [(IF e.bt /\ ~e.tbtn_prev THEN TaskButton(f, p.w) ELSE f) EXCEPT !.tbtn_prev = e.bt]
       [] OTHER -> [f EXCEPT !.tbtn_prev = FALSE]

Dock(e, a) ==
  LET f == [e EXCEPT !.dock_prev = e.bt]
  IN IF e.bt /\ ~e.dock_prev /\ a # "none" THEN gw_launch_app(f, a) ELSE f

-----------------------------------------------------------------------------
Pressed(e) == e.bt /\ ~e.last_btn
Released(e) == ~e.bt /\ e.last_btn

(* Two presses of one icon within 400 ms start it; quick: this is the       *)
(* second.  Which icon, or title bar, was pressed first is not kept: any    *)
(* press may be the second.                                                 *)
IconMouse(e, i, quick) ==
  IF ~(Pressed(e) /\ quick) THEN e
  ELSE IF i = "game" THEN gw_launch_game(e) ELSE gw_launch_app(e, i)

(* A press on the blank desktop restores the first minimized window.        *)
BlankMouse(e) ==
  LET H == Used(e) \ Visible(e)
  IN IF Pressed(e) /\ H # {} THEN gw_restore(e, Min(H)) ELSE e

(* The title bar: two quick presses maximize, holding drags (a maximized    *)
(* window does not move), a release over the bar ends the drag.             *)
TitleMouse(e, w, quick) ==
  CASE Pressed(e) /\ quick -> gw_toggle_max(e, w)
    [] e.bt /\ ~(Pressed(e) /\ quick) -> [e EXCEPT !.win[w].moving = ~e.win[w].maxd]
    [] Released(e) /\ e.win[w].moving -> [e EXCEPT !.win[w].moving = FALSE, !.dirty = TRUE]
    [] OTHER -> e

TitleButton(e, w, part) ==
  IF ~Pressed(e) THEN e
  ELSE IF part = "close" THEN gw_close(e, w) ELSE gw_minimize(e, w)

(* The contents: a press brings the window to front, a release in Settings  *)
(* may choose a theme.                                                      *)
ContentMouse(e, w) ==
  IF Pressed(e) THEN {gw_bring_front(e, w)}
  ELSE IF Released(e) /\ e.win[w].app = "settings"
       THEN {e, gw_set_theme(e, TRUE), gw_set_theme(e, FALSE)}
       ELSE {e}

WindowMouse(e, p, quick) ==
  CASE p.at = "none" -> {BlankMouse(e)}
    [] p.at \in {"close", "min"} -> {TitleButton(e, p.w, p.at)}
    [] p.at = "title" -> {TitleMouse(e, p.w, quick)}
    [] OTHER -> ContentMouse(e, p.w)

(* gw_handle_mouse: the window layer.                                       *)
gw_handle_mouse(e, p, quick) ==
  LET f == [e EXCEPT !.menu = @ /\ ~Pressed(e)]
      after == CASE p.zone = "menu" -> {gw_start_menu_mouse(e, p.at)}
                 [] p.zone = "icon" -> {IconMouse(f, p.at, quick)}
                 [] OTHER -> WindowMouse(f, p, quick)
  IN {[g EXCEPT !.last_btn = e.bt] : g \in after}

(* The desktop layer first; the window layer when it did not take the       *)
(* position.  Off the task bar its button memory is cleared.                *)
Mouse(e, p, quick) ==
  LET f == [e EXCEPT !.prev_btn = FALSE, !.tbtn_prev = FALSE]
  IN IF p.zone \in {"start", "task", "bar"} THEN {Taskbar(e, p)}
     ELSE IF p.zone = "dock" THEN {Dock(f, p.at)}
     ELSE gw_handle_mouse(f, p, quick)

-----------------------------------------------------------------------------
(* The pointer leaves an icon that a window has come to cover: everything   *)
(* is drawn again (gw_dirty_from_mouse).                                    *)
Uncovered(e, p) ==
  IF Visible(e) # {} /\ ~e.menu /\ p.zone \notin {"start", "task", "bar"} THEN BOOLEAN ELSE {FALSE}

(* A new second, with System Info open, asks for the next redraw.           *)
Second(e) == IF Open(e, "sysinfo") \cap Visible(e) # {} THEN BOOLEAN ELSE {FALSE}

(* The end of an iteration: a drag paints the background everywhere and     *)
(* only the windows that meet its region, and drops the request for more.   *)
Redrawn(e, icon, sec) ==
  [e EXCEPT !.pc = "key", !.dirty = sec, !.fresh = icon \/ (Dragged(e) = {} /\ (@ \/ e.dirty))]
Drawn(e, p) == {Redrawn(e, icon, sec) : icon \in Uncovered(e, p), sec \in Second(e)}

(* gw_demo returns.  One that was started from a terminal returns to the    *)
(* iteration that had read the command, which goes on with the mouse and    *)
(* finds gw_gui_active cleared.                                             *)
Left(e) ==
  IF e.depth = 0 THEN {[e EXCEPT !.mode = "shell", !.pc = "key", !.bt = FALSE, !.gui = FALSE]}
  ELSE {[e EXCEPT !.depth = @ - 1, !.dirty = TRUE, !.bt = bt, !.gui = FALSE] : bt \in BOOLEAN}

(* Whether a press can be the second of two within 400 ms.                  *)
InTime(e, p) ==
  IF /\ Pressed(e)
     /\ p.zone = "icon" \/ p.at = "title"
  THEN BOOLEAN ELSE {FALSE}

(* The second half of an iteration.  Power-off keeps nothing.               *)
HandleMouse ==
  /\ Looping("mouse")
  /\ \E p \in Places(d) : \E quick \in InTime(d, p) : \E e \in Mouse(d, p, quick) :
       LET f == [e EXCEPT !.fresh = StillFresh(e)]
       IN IF e.mode = "off" THEN d' = [Boot EXCEPT !.mode = "off"]
          ELSE \E g \in (IF e.quit THEN Left(f) ELSE Drawn(f, p)) : d' = g

(* Commands of the text shell: desktop, theme, and the games, which ask     *)
(* g_gui_launch first.  Power-on follows a shutdown.                        *)
gw_start == d.mode = "shell" /\ d' = gw_demo(d)
ShellTheme == d.mode = "shell" /\ \E gn \in BOOLEAN : d' = gw_set_theme(d, gn)
ShellGame == d.mode = "shell" /\ d.launcher /\ d' = gw_run_game(d)
PowerOn == d.mode = "off" /\ d' = Boot

Init == d = Boot
Next == ReadInput \/ Nested \/ PowerOff \/ HandleMouse \/ gw_start \/ ShellTheme \/ ShellGame \/ PowerOn
Spec == Init /\ [][Next]_d

-----------------------------------------------------------------------------
(* Keys go to the window drawn as active: gw_focused_wnd is an open, visible *)
(* window with its focused flag set, and no other open window has the flag. *)
FocusAgrees ==
  /\ d.foc # None => d.foc \in Visible(d) /\ d.win[d.foc].focused
  /\ \A s \in Used(d) : d.win[s].focused => d.foc = s

(* An application, whose statics exist once, has one window at most,        *)
(* however it is started.                                                   *)
OnePerApp == \A a \in Apps : Cardinality(Open(d, a)) <= 1

(* With no button down and no window being dragged the screen shows the     *)
(* present windows, focus, menu and theme, or a full redraw is due: the     *)
(* presses and releases of gw_demo, the keys and the end of a drag each     *)
(* ask for one (gfxwin.c 3976).                                             *)
ScreenCurrent ==
  Looping("key") /\ ~d.bt /\ Dragged(d) = {} => d.fresh \/ d.dirty

(* gfxwin.h says of mousemove that it is for drawing in Paint: no other     *)
(* window has one.                                                          *)
MoveIsPaint == \A s \in Used(d) : d.win[s].mm => d.win[s].app = "paint"

(* games.c says that g_gui_launch is set on the graphical desktop and NULL  *)
(* in the shell, whose games then run in text.                              *)
LauncherMeansDesktop == d.launcher => d.mode = "desktop"
=============================================================================
