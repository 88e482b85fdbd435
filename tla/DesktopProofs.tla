--------------------------- MODULE DesktopProofs ---------------------------
(* The window manager, proved for every number of windows, applications and *)
(* icons: one focus, one window per application, and a screen that shows    *)
(* the state or is about to be drawn.                                       *)
EXTENDS Desktop, FiniteSetTheorems, WellFoundedInduction, TLAPS

-----------------------------------------------------------------------------
(* Types and the invariant *)

WinT == [used : BOOLEAN, hidden : BOOLEAN, focused : BOOLEAN, moving : BOOLEAN,
         maxd : BOOLEAN, app : Apps \cup {"none"}, mm : BOOLEAN]

Wins == [Slots -> WinT]

FocT == Slots \cup {None}

StT == [mode : {"shell", "desktop", "off"}, pc : {"key", "mouse"}, win : Wins, foc : FocT,
        menu : BOOLEAN, quit : BOOLEAN, dirty : BOOLEAN, gnome : BOOLEAN,
        bt : BOOLEAN, last_btn : BOOLEAN, prev_btn : BOOLEAN,
        tbtn_prev : BOOLEAN, dock_prev : BOOLEAN,
        fresh : BOOLEAN, gui : BOOLEAN, launcher : BOOLEAN, depth : Nat]

(* One window per application.                                              *)
Single(win) ==
  \A s, t \in Slots :
    win[s].used /\ win[t].used /\ win[s].app = win[t].app /\ win[s].app \in Apps => s = t

(* The focus is a visible window with the flag, and nobody else has it.     *)
Focus(win, foc) ==
  /\ foc # None => win[foc].used /\ ~win[foc].hidden /\ win[foc].focused
  /\ \A s \in Slots : win[s].used /\ win[s].focused => foc = s

Good(e) == e \in StT /\ Single(e.win) /\ Focus(e.win, e.foc)

(* What the operations on windows leave alone.                              *)
Kept(e, f) ==
  /\ f.bt = e.bt /\ f.mode = e.mode /\ f.gui = e.gui
  /\ (e.dirty => f.dirty) /\ (e.quit => f.quit)

-----------------------------------------------------------------------------
(* Window tables *)

LEMMA NoneIsNoSlot == None \notin Slots
  BY DesktopAssumption DEF None, Slots

Front(win, w) == [s \in Slots |-> [win[s] EXCEPT !.focused = (s = w)]]

LEMMA FrontFacts ==
  ASSUME NEW win \in Wins, NEW w \in Slots
  PROVE  /\ Front(win, w) \in Wins
         /\ \A s \in Slots : /\ Front(win, w)[s].used = win[s].used
                             /\ Front(win, w)[s].hidden = win[s].hidden
                             /\ Front(win, w)[s].app = win[s].app
                             /\ Front(win, w)[s].moving = win[s].moving
                             /\ Front(win, w)[s].focused = (s = w)
  BY DEF Front, Wins, WinT

LEMMA FrontGood ==
  ASSUME NEW win \in Wins, NEW w \in Slots, win[w].used, ~win[w].hidden, Single(win)
  PROVE  Single(Front(win, w)) /\ Focus(Front(win, w), w)
  <1> DEFINE F == Front(win, w)
  <1>1. \A s \in Slots : /\ F[s].used = win[s].used /\ F[s].hidden = win[s].hidden
                         /\ F[s].app = win[s].app /\ F[s].focused = (s = w)
    BY FrontFacts
  <1> HIDE DEF F
  <1>2. Single(F)
    BY <1>1 DEF Single
  <1>3. Focus(F, w)
    BY <1>1 DEF Focus
  <1> QED  BY <1>2, <1>3 DEF F

(* One entry changed.                                                       *)
Entry(e, w, v) == [e EXCEPT !.win[w] = v]

Changed(e, w, v, f) ==
  /\ f \in StT /\ f.foc = e.foc /\ f.win \in Wins /\ Kept(e, f)
  /\ f.win[w] = v /\ \A s \in Slots \ {w} : f.win[s] = e.win[s]

LEMMA SetEntry ==
  ASSUME NEW e \in StT, NEW w \in Slots, NEW v \in WinT
  PROVE  Changed(e, w, v, Entry(e, w, v))
  BY DEF StT, Kept, Wins, Entry, Changed

(* Fields that are not windows.                                             *)
LEMMA Plain ==
  ASSUME NEW e, NEW f \in StT, Good(e), f.win = e.win, f.foc = e.foc
  PROVE  Good(f)
  BY DEF Good

-----------------------------------------------------------------------------
(* Operations on windows *)

LEMMA BringFront ==
  ASSUME NEW e \in StT, Single(e.win), NEW w \in Visible(e)
  PROVE  Good(gw_bring_front(e, w)) /\ Kept(e, gw_bring_front(e, w))
  <1>1. w \in Slots /\ e.win[w].used /\ ~e.win[w].hidden /\ e.win \in Wins
    BY DEF Visible, Used, StT
  <1> DEFINE F == Front(e.win, w)
             f == gw_bring_front(e, w)
  <1>2. f = [e EXCEPT !.win = F, !.foc = w]
    BY DEF gw_bring_front, Front
  <1>3. F \in Wins /\ w \in FocT
    BY <1>1, FrontFacts DEF FocT
  <1>4. Single(F) /\ Focus(F, w)
    BY <1>1, FrontGood
  <1> HIDE DEF F, f
  <1>5. f \in StT /\ f.win = F /\ f.foc = w /\ Kept(e, f)
    BY <1>2, <1>3 DEF StT, Kept
  <1>6. Good(f) /\ Kept(e, f)
    BY <1>4, <1>5 DEF Good
  <1> QED  BY <1>6 DEF f

LEMMA Restore ==
  ASSUME NEW e, Good(e), NEW w \in Used(e)
  PROVE  Good(gw_restore(e, w)) /\ Kept(e, gw_restore(e, w))
  <1>1. w \in Slots /\ e \in StT /\ e.win[w].used /\ e.win[w] \in WinT /\ Single(e.win)
    BY DEF Used, Good, StT, Wins
  <1> DEFINE v == [e.win[w] EXCEPT !.hidden = FALSE]
             f == Entry(e, w, v)
  <1>2. v \in WinT /\ v.used /\ ~v.hidden /\ v.app = e.win[w].app
    BY <1>1 DEF WinT
  <1>3. f = [e EXCEPT !.win[w].hidden = FALSE]
    BY DEF Entry
  <1>4. Changed(e, w, v, f)
    <2> HIDE DEF v
    <2> QED  BY <1>1, <1>2, SetEntry
  <1> HIDE DEF v, f
  <1>5. Single(f.win)
    BY <1>1, <1>2, <1>4 DEF Single, Changed
  <1>6. w \in Visible(f)
    BY <1>1, <1>2, <1>4 DEF Visible, Used, Changed
  <1>7. Good(gw_bring_front(f, w)) /\ Kept(f, gw_bring_front(f, w))
    BY <1>4, <1>5, <1>6, BringFront DEF Changed
  <1>8. gw_restore(e, w) = gw_bring_front(f, w)
    BY <1>3 DEF gw_restore
  <1> QED  BY <1>4, <1>7, <1>8 DEF Kept, Changed

LEMMA ToggleMax ==
  ASSUME NEW e, Good(e), NEW w \in Visible(e)
  PROVE  Good(gw_toggle_max(e, w)) /\ Kept(e, gw_toggle_max(e, w))
  <1>1. /\ w \in Slots /\ e \in StT /\ e.win[w].used /\ ~e.win[w].hidden
        /\ e.win[w] \in WinT /\ Single(e.win)
    BY DEF Used, Visible, Good, StT, Wins
  <1> DEFINE v == [e.win[w] EXCEPT !.maxd = ~e.win[w].maxd]
             g == Entry(e, w, v)
             f == [g EXCEPT !.dirty = TRUE]
  <1>2. v \in WinT /\ v.used /\ ~v.hidden /\ v.app = e.win[w].app
    BY <1>1 DEF WinT
  <1>3. f = [e EXCEPT !.win[w].maxd = ~@, !.dirty = TRUE]
    BY <1>1 DEF StT, Entry
  <1>4. Changed(e, w, v, g)
    <2> HIDE DEF v
    <2> QED  BY <1>1, <1>2, SetEntry
  <1> HIDE DEF v, g
  <1>5. f \in StT /\ Kept(g, f) /\ f.win = g.win
    BY <1>4 DEF StT, Kept, Changed
  <1> HIDE DEF f
  <1>6. Single(f.win)
    BY <1>1, <1>2, <1>4, <1>5 DEF Single, Changed
  <1>7. w \in Visible(f)
    BY <1>1, <1>2, <1>4, <1>5 DEF Visible, Used, Changed
  <1>8. Good(gw_bring_front(f, w)) /\ Kept(f, gw_bring_front(f, w))
    BY <1>5, <1>6, <1>7, BringFront
  <1>9. gw_toggle_max(e, w) = gw_bring_front(f, w)
    BY <1>3 DEF gw_toggle_max
  <1> QED  BY <1>4, <1>5, <1>8, <1>9 DEF Kept, Changed

LEMMA FreedWin ==
  ASSUME NEW v \in WinT
  PROVE  /\ Freed(v) \in WinT /\ ~Freed(v).used /\ ~Freed(v).moving
         /\ ~Freed(v).hidden /\ Freed(v).app = "none"
  BY DEF Freed, Unused, WinT

LEMMA Close ==
  ASSUME NEW e, Good(e), NEW w \in Used(e)
  PROVE  Good(gw_close(e, w)) /\ Kept(e, gw_close(e, w))
  <1>1. /\ w \in Slots /\ e \in StT /\ e.win[w] \in WinT
        /\ Single(e.win) /\ Focus(e.win, e.foc)
    BY DEF Used, Good, StT, Wins
  <1> DEFINE v == Freed(e.win[w])
             g == Entry(e, w, v)
             u == Unfocused(e, w)
             f == [g EXCEPT !.foc = u]
  <1>2. v \in WinT /\ ~v.used
    BY <1>1, FreedWin
  <1>3. gw_close(e, w) = f
    BY <1>1 DEF gw_close, StT, Entry
  <1>4. Changed(e, w, v, g)
    <2> HIDE DEF v
    <2> QED  BY <1>1, <1>2, SetEntry
  <1>5. u \in FocT /\ u = IF e.foc = w THEN None ELSE e.foc
    BY <1>1 DEF Unfocused, FocT, StT
  <1> HIDE DEF v, g, u
  <1>6. f \in StT /\ Kept(g, f) /\ f.win = g.win /\ f.foc = u
    BY <1>4, <1>5 DEF StT, Kept, Changed
  <1> HIDE DEF f
  <1>7. Single(f.win)
    BY <1>1, <1>2, <1>4, <1>6 DEF Single, Changed
  <1>8. Focus(f.win, f.foc)
    BY <1>1, <1>2, <1>4, <1>5, <1>6, NoneIsNoSlot DEF Focus, FocT, Changed
  <1> QED  BY <1>3, <1>4, <1>6, <1>7, <1>8 DEF Good, Kept, Changed

LEMMA Minimize ==
  ASSUME NEW e, Good(e), NEW w \in Used(e)
  PROVE  Good(gw_minimize(e, w)) /\ Kept(e, gw_minimize(e, w))
  <1>1. /\ w \in Slots /\ e \in StT /\ e.win[w] \in WinT /\ e.win[w].used
        /\ Single(e.win) /\ Focus(e.win, e.foc)
    BY DEF Used, Good, StT, Wins
  <1> DEFINE v == [e.win[w] EXCEPT !.hidden = TRUE, !.focused = @ /\ e.foc # w]
             g == Entry(e, w, v)
             u == Unfocused(e, w)
             f == [g EXCEPT !.foc = u]
  <1>2. v \in WinT /\ v.used /\ v.app = e.win[w].app /\ ~v.focused
    BY <1>1 DEF WinT, Focus
  <1>3. gw_minimize(e, w) = f
    BY ZenonT(60), <1>1 DEF gw_minimize, StT, Wins, WinT, Entry
  <1>4. Changed(e, w, v, g)
    <2> HIDE DEF v
    <2> QED  BY <1>1, <1>2, SetEntry
  <1>5. u \in FocT /\ u = IF e.foc = w THEN None ELSE e.foc
    BY <1>1 DEF Unfocused, FocT, StT
  <1> HIDE DEF v, g, u
  <1>6. f \in StT /\ Kept(g, f) /\ f.win = g.win /\ f.foc = u
    BY <1>4, <1>5 DEF StT, Kept, Changed
  <1> HIDE DEF f
  <1>7. Single(f.win)
    BY <1>1, <1>2, <1>4, <1>6 DEF Single, Changed
  <1>8. Focus(f.win, f.foc)
    BY <1>1, <1>2, <1>4, <1>5, <1>6, NoneIsNoSlot DEF Focus, FocT, Changed
  <1> QED  BY <1>3, <1>4, <1>6, <1>7, <1>8 DEF Good, Kept, Changed

LEMMA InitTable ==
  ASSUME NEW e \in StT
  PROVE  Good(gw_init(e))
  <1> DEFINE W == [s \in Slots |-> Freed(e.win[s])]
             f == [e EXCEPT !.win = W, !.foc = None]
  <1>1. W \in Wins /\ \A s \in Slots : ~W[s].used
    BY FreedWin DEF StT, Wins
  <1>2. gw_init(e) = f
    BY DEF gw_init
  <1> HIDE DEF W
  <1>3. f \in StT /\ f.win = W /\ f.foc = None
    BY <1>1 DEF StT, FocT
  <1> HIDE DEF f
  <1>4. Single(f.win) /\ Focus(f.win, f.foc)
    BY <1>1, <1>3 DEF Single, Focus
  <1> QED  BY <1>2, <1>3, <1>4 DEF Good

LEMMA Demo ==
  ASSUME NEW e \in StT
  PROVE  Good(gw_demo(e)) /\ gw_demo(e).dirty /\ gw_demo(e).gui
  <1> DEFINE g == gw_init(e)
             f == gw_demo(e)
  <1>1. Good(g) /\ g \in StT
    BY InitTable DEF Good
  <1>2. f = [g EXCEPT !.mode = "desktop", !.pc = "key", !.quit = FALSE, !.dirty = TRUE,
                      !.bt = FALSE, !.fresh = FALSE, !.gui = TRUE, !.launcher = TRUE]
    BY DEF gw_demo
  <1> HIDE DEF f, g
  <1>3. f \in StT /\ f.win = g.win /\ f.foc = g.foc /\ f.dirty /\ f.gui
    BY ZenonT(60), <1>1, <1>2 DEF StT
  <1>4. Good(f) /\ f.dirty /\ f.gui
    BY <1>1, <1>3, Plain
  <1> QED  BY <1>4 DEF f

-----------------------------------------------------------------------------
(* Applications *)

LEMMA LeastNat ==
  ASSUME NEW S \in SUBSET Nat, S # {}
  PROVE  \E f \in S : \A g \in S : f =< g
  <1>1. IsWellFoundedOn({ss \in Nat \X Nat : ss[1] < ss[2]}, Nat)
    BY NatLessThanWellFounded DEF OpToRel
  <1>2. PICK f \in S : \A g \in S :
                         ~(<<g, f>> \in {ss \in Nat \X Nat : ss[1] < ss[2]})
    BY <1>1, WFMin, Zenon
  <1>3. \A g \in S : f =< g
    <2>1. ASSUME NEW g \in S PROVE f =< g
      BY <1>2, ~(g < f)
    <2> QED  BY <2>1
  <1> QED  BY <1>3

LEMMA MinIn ==
  ASSUME NEW S \in SUBSET Slots, S # {}
  PROVE  Min(S) \in S
  <1>1. S \in SUBSET Nat
    BY DesktopAssumption DEF Slots
  <1>2. \E f \in S : \A g \in S : f =< g
    BY <1>1, LeastNat
  <1> QED  BY <1>2 DEF Min

LEMMA MaxIn ==
  ASSUME NEW S \in SUBSET Slots, S # {}
  PROVE  Max(S) \in S
  <1> DEFINE T == {MaxWindows - s : s \in S}
  <1>1. T \in SUBSET Nat /\ T # {}
    <2>1. \A s \in S : MaxWindows - s \in Nat
      BY DesktopAssumption DEF Slots
    <2> QED  BY <2>1
  <1>2. PICK f \in T : \A g \in T : f =< g
    BY <1>1, LeastNat
  <1>3. PICK x \in S : f = MaxWindows - x
    BY <1>2
  <1>4. \A y \in S : x >= y
    <2>1. ASSUME NEW y \in S PROVE x >= y
      <3>1. MaxWindows - x =< MaxWindows - y
        BY <1>2, <1>3
      <3> QED  BY <3>1, DesktopAssumption DEF Slots
    <2> QED  BY <2>1
  <1> QED  BY <1>4 DEF Max

LEMMA SameApps ==
  ASSUME NEW e \in StT, NEW w \in Slots
  PROVE  \A s \in Slots : /\ gw_bring_front(e, w).win[s].used = e.win[s].used
                          /\ gw_bring_front(e, w).win[s].app = e.win[s].app
  <1> DEFINE F == Front(e.win, w)
  <1>1. gw_bring_front(e, w) = [e EXCEPT !.win = F, !.foc = w]
    BY DEF gw_bring_front, Front
  <1>2. e.win \in Wins
    BY DEF StT
  <1>3. \A s \in Slots : F[s].used = e.win[s].used /\ F[s].app = e.win[s].app
    BY <1>2, FrontFacts
  <1> HIDE DEF F
  <1>4. gw_bring_front(e, w).win = F
    BY <1>1 DEF StT
  <1> QED  BY <1>3, <1>4

(* A window for an application that has none.                               *)
LEMMA Spawn ==
  ASSUME NEW e, Good(e), NEW a \in Apps, Open(e, a) = {}
  PROVE  Good(gw_spawn_app(e, a)) /\ Kept(e, gw_spawn_app(e, a))
  <1>1. CASE Used(e) = Slots
    BY <1>1 DEF gw_spawn_app, Kept
  <1>2. CASE Used(e) # Slots
    <2> DEFINE w == Min(Slots \ Used(e))
               v == [Freed(e.win[w]) EXCEPT !.used = TRUE]
               g == Entry(e, w, v)
               h == gw_bring_front(g, w)
               x == [h.win[w] EXCEPT !.app = a, !.mm = e.win[w].mm \/ a = "paint"]
               f == Entry(h, w, x)
    <2>1. w \in Slots \ Used(e)
      BY <1>2, MinIn DEF Used
    <2> HIDE DEF w
    <2>2. e \in StT /\ w \in Slots /\ e.win[w] \in WinT /\ Single(e.win)
      BY <2>1 DEF Good, StT, Wins
    <2>3. v \in WinT /\ v.used /\ ~v.hidden /\ v.app = "none"
      BY <2>2, FreedWin DEF WinT
    <2>4. g = [e EXCEPT !.win[w] = [Freed(@) EXCEPT !.used = TRUE]]
      BY <2>2 DEF Entry, StT, Wins
    <2> HIDE DEF v
    <2>5. Changed(e, w, v, g)
      BY <2>2, <2>3, SetEntry
    <2>6. h = gw_create(e, w)
      BY <2>4 DEF gw_create
    <2> HIDE DEF g
    <2>7. Single(g.win)
      BY <2>2, <2>3, <2>5, DesktopAssumption DEF Single, Changed
    <2>8. w \in Visible(g)
      BY <2>2, <2>3, <2>5 DEF Visible, Used, Changed
    <2>9. Good(h) /\ Kept(g, h)
      BY <2>5, <2>7, <2>8, BringFront DEF Changed
    <2>10. \A s \in Slots : h.win[s].used = g.win[s].used /\ h.win[s].app = g.win[s].app
      BY <2>2, <2>5, SameApps DEF Changed
    <2> HIDE DEF h
    <2>11. h \in StT /\ h.win[w] \in WinT /\ Single(h.win) /\ Focus(h.win, h.foc)
      BY <2>2, <2>9 DEF Good, StT, Wins
    <2>12. /\ x \in WinT /\ x.used = h.win[w].used /\ x.hidden = h.win[w].hidden
           /\ x.focused = h.win[w].focused /\ x.app = a
      BY <2>11 DEF WinT
    <2>13. f = gw_spawn_app(e, a)
      <3>1. gw_spawn_app(e, a) = [h EXCEPT !.win[w] = [@ EXCEPT !.app = a, !.mm = e.win[w].mm \/ a = "paint"]]
        BY <1>2, <2>6 DEF gw_spawn_app, w
      <3> QED  BY <3>1 DEF Entry
    <2> HIDE DEF x
    <2>14. Changed(h, w, x, f)
      BY <2>2, <2>11, <2>12, SetEntry
    <2> HIDE DEF f
    <2>15. Focus(f.win, f.foc)
      BY <2>2, <2>11, <2>12, <2>14, NoneIsNoSlot DEF Focus, Changed, StT, FocT
    <2>16. \A s \in Slots \ {w} : f.win[s].used = e.win[s].used /\ f.win[s].app = e.win[s].app
      BY <2>2, <2>5, <2>10, <2>14 DEF Changed
    <2>17. \A s \in Slots : e.win[s].used => e.win[s].app # a
      BY DEF Open, Used
    <2>18. f.win[w].app = a
      BY <2>12, <2>14 DEF Changed
    <2>19. Single(f.win)
      BY <2>2, <2>16, <2>17, <2>18 DEF Single
    <2>20. Good(f)
      BY <2>14, <2>15, <2>19 DEF Good, Changed
    <2>21. Kept(e, f)
      BY <2>5, <2>9, <2>14 DEF Kept, Changed
    <2> QED  BY <2>13, <2>20, <2>21
  <1> QED  BY <1>1, <1>2

LEMMA Launch ==
  ASSUME NEW e, Good(e), NEW a
  PROVE  Good(gw_launch_app(e, a)) /\ Kept(e, gw_launch_app(e, a))
  <1>1. CASE a \notin Apps
    BY <1>1 DEF gw_launch_app, Kept
  <1>2. CASE a \in Apps /\ Open(e, a) = {}
    <2>1. gw_launch_app(e, a) = gw_spawn_app(e, a)
      BY <1>2 DEF gw_launch_app, Opened
    <2> QED  BY <1>2, <2>1, Spawn
  <1>3. CASE a \in Apps /\ Open(e, a) # {}
    <2> DEFINE w == Min(Open(e, a))
    <2>1. w \in Used(e)
      BY <1>3, MinIn DEF Open, Used
    <2>2. gw_launch_app(e, a) = gw_restore(e, w)
      BY <1>3 DEF gw_launch_app, Opened
    <2> HIDE DEF w
    <2> QED  BY <2>1, <2>2, Restore
  <1> QED  BY <1>1, <1>2, <1>3

LEMMA RunGame ==
  ASSUME NEW e, Good(e)
  PROVE  Good(gw_run_game(e)) /\ Kept(e, gw_run_game(e))
  <1> DEFINE f == gw_launch_app(e, "terminal")
             T == Open(f, "terminal")
             w == Min(T)
  <1>1. Good(f) /\ Kept(e, f)
    BY Launch
  <1>2. CASE T = {}
    BY <1>1, <1>2 DEF gw_run_game
  <1>3. CASE T # {}
    <2>1. w \in Used(f)
      <3>1. T \in SUBSET Slots /\ T \subseteq Used(f)
        BY DEF Open, Used
      <3> HIDE DEF T
      <3> QED  BY <1>3, <3>1, MinIn
    <2>2. gw_run_game(e) = gw_close(f, w)
      BY <1>3 DEF gw_run_game
    <2> HIDE DEF f, T, w
    <2>3. Good(gw_close(f, w)) /\ Kept(f, gw_close(f, w))
      BY <1>1, <2>1, Close
    <2> QED  BY <1>1, <2>2, <2>3 DEF Kept
  <1> QED  BY <1>2, <1>3

LEMMA LaunchGame ==
  ASSUME NEW e, Good(e)
  PROVE  Good(gw_launch_game(e)) /\ Kept(e, gw_launch_game(e))
  <1> DEFINE f == [e EXCEPT !.dirty = TRUE]
  <1>1. f \in StT /\ f.win = e.win /\ f.foc = e.foc /\ Kept(e, f)
    BY DEF Good, StT, Kept
  <1>2. gw_launch_game(e) = gw_run_game(f)
    BY DEF gw_launch_game
  <1> HIDE DEF f
  <1>3. Good(gw_run_game(f)) /\ Kept(f, gw_run_game(f))
    BY <1>1, Plain, RunGame
  <1> QED  BY <1>1, <1>2, <1>3 DEF Kept

LEMMA SetTheme ==
  ASSUME NEW e, Good(e), NEW gn \in BOOLEAN
  PROVE  /\ Good(gw_set_theme(e, gn)) /\ Kept(e, gw_set_theme(e, gn))
         /\ e.gui => gw_set_theme(e, gn).dirty
  <1> DEFINE f == gw_set_theme(e, gn)
  <1>1. /\ f \in StT /\ f.win = e.win /\ f.foc = e.foc /\ Kept(e, f)
        /\ e.gui => f.dirty
    BY ZenonT(60), SMTT(30) DEF Good, StT, Kept, gw_set_theme
  <1> HIDE DEF f
  <1>2. Good(f)
    BY <1>1, Plain
  <1> QED  BY <1>1, <1>2 DEF f

-----------------------------------------------------------------------------
(* Keys *)

Dirtied(e) == [e EXCEPT !.dirty = TRUE]

LEMMA MarkDirty ==
  ASSUME NEW e, Good(e)
  PROVE  Good(Dirtied(e)) /\ Kept(e, Dirtied(e)) /\ Dirtied(e).dirty
  <1> DEFINE f == Dirtied(e)
  <1>1. f \in StT /\ f.win = e.win /\ f.foc = e.foc /\ Kept(e, f) /\ f.dirty
    BY DEF Good, StT, Kept, Dirtied
  <1> HIDE DEF f
  <1>2. Good(f)
    BY <1>1, Plain
  <1> QED  BY <1>1, <1>2 DEF f

LEMMA AltTabGood ==
  ASSUME NEW e, Good(e)
  PROVE  Good(AltTab(e)) /\ Kept(e, AltTab(e))
  <1> DEFINE start == IF e.foc = None THEN 0 ELSE e.foc
             After(s) == (s - start - 1) % MaxWindows
             V == Visible(e)
             next == CHOOSE s \in V : \A t \in V : After(s) <= After(t)
  <1>1. CASE V = {}
    BY <1>1 DEF AltTab, Kept
  <1>2. CASE V # {}
    <2>1. start \in Int /\ V \in SUBSET Slots /\ Slots \subseteq Int
      BY DEF Good, StT, FocT, Slots, None, Visible, Used
    <2> HIDE DEF start, V
    <2>2. \A s \in V : After(s) \in Nat
      BY <2>1, DesktopAssumption
    <2> HIDE DEF After
    <2>3. {After(s) : s \in V} \in SUBSET Nat /\ {After(s) : s \in V} # {}
      BY <1>2, <2>2
    <2>4. PICK m \in {After(s) : s \in V} : \A n \in {After(s) : s \in V} : m =< n
      BY <2>3, LeastNat
    <2>5. \E s \in V : \A t \in V : After(s) <= After(t)
      BY <2>4
    <2>6. next \in V
      BY <2>5
    <2> DEFINE g == IF next = e.foc THEN e ELSE gw_bring_front(e, next)
    <2>7. AltTab(e) = Dirtied(g)
      BY <1>2 DEF AltTab, Dirtied, V, After, start
    <2> HIDE DEF next
    <2>8. Good(g) /\ Kept(e, g)
      <3>1. CASE next = e.foc
        BY <3>1 DEF Kept
      <3>2. CASE next # e.foc
        BY <2>6, <3>2, BringFront DEF Good, V
      <3> QED  BY <3>1, <3>2
    <2> HIDE DEF g
    <2>9. Good(Dirtied(g)) /\ Kept(g, Dirtied(g))
      BY <2>8, MarkDirty
    <2> QED  BY <2>7, <2>8, <2>9 DEF Kept
  <1> QED  BY <1>1, <1>2

LEMMA KeyGood ==
  ASSUME NEW e, Good(e), NEW key \in Keys
  PROVE  Good(gw_handle_key(e, key)) /\ Kept(e, gw_handle_key(e, key))
  <1> DEFINE m == [e EXCEPT !.menu = ~@]
             q == [e EXCEPT !.quit = TRUE]
             f == gw_handle_key(e, key)
  <1>1. f \in {AltTab(e), m, q, gw_launch_app(e, "terminal"), gw_launch_app(e, "browser"),
               gw_launch_game(e), e}
    BY DEF gw_handle_key, Keys
  <1>2. Good(m) /\ Kept(e, m)
    <2>1. m \in StT /\ m.win = e.win /\ m.foc = e.foc /\ Kept(e, m)
      BY DEF Good, StT, Kept
    <2> HIDE DEF m
    <2> QED  BY <2>1, Plain
  <1>3. Good(q) /\ Kept(e, q)
    <2>1. q \in StT /\ q.win = e.win /\ q.foc = e.foc /\ Kept(e, q)
      BY DEF Good, StT, Kept
    <2> HIDE DEF q
    <2> QED  BY <2>1, Plain
  <1>4. Kept(e, e)
    BY DEF Kept
  <1> HIDE DEF m, q, f
  <1>5. Good(f) /\ Kept(e, f)
    BY <1>1, <1>2, <1>3, <1>4, AltTabGood, Launch, LaunchGame
  <1> QED  BY <1>5 DEF f

LEMMA AfterKeyGood ==
  ASSUME NEW e, Good(e), NEW f \in AfterKey(e)
  PROVE  Good(f) /\ Kept(e, f) /\ f.dirty
  <1> DEFINE m == [e EXCEPT !.menu = FALSE]
  <1>1. Good(m) /\ Kept(e, m)
    <2>1. m \in StT /\ m.win = e.win /\ m.foc = e.foc /\ Kept(e, m)
      BY DEF Good, StT, Kept
    <2> HIDE DEF m
    <2> QED  BY <2>1, Plain
  <1>2. \/ \E key \in Keys : f = Dirtied(gw_handle_key(e, key))
        \/ f = [e EXCEPT !.menu = FALSE, !.dirty = TRUE]
        \/ \E g \in Command(e) : f = Dirtied(g)
    BY DEF AfterKey, Dirtied
  <1>3. [e EXCEPT !.menu = FALSE, !.dirty = TRUE] = Dirtied(m)
    BY DEF Dirtied
  <1>4. ASSUME NEW g \in Command(e) PROVE Good(g) /\ Kept(e, g)
    <2>1. g \in {gw_run_game(e), gw_set_theme(e, TRUE), gw_set_theme(e, FALSE)}
      BY <1>4 DEF Command
    <2> QED  BY <2>1, RunGame, SetTheme
  <1> HIDE DEF m
  <1>5. PICK g : Good(g) /\ Kept(e, g) /\ f = Dirtied(g)
    BY <1>1, <1>2, <1>3, <1>4, KeyGood
  <1>6. Good(Dirtied(g)) /\ Kept(g, Dirtied(g)) /\ Dirtied(g).dirty
    BY <1>5, MarkDirty
  <1> QED  BY <1>5, <1>6 DEF Kept

-----------------------------------------------------------------------------
(* The mouse *)

(* What a full redraw shows is the same, or the redraw is due.              *)
Quiet(e, f) ==
  f.dirty \/ (f.win = e.win /\ f.foc = e.foc /\ f.menu = e.menu /\ f.gnome = e.gnome)

(* What handling a mouse position may do.                                   *)
Moved(e, f) ==
  /\ Good(f)
  /\ f.bt = e.bt /\ f.gui = e.gui /\ f.mode \in {e.mode, "off"}
  /\ (e.dirty => f.dirty) /\ (e.quit => f.quit)
  /\ ~e.bt /\ e.gui => Quiet(e, f)

LEMMA MovedTwice ==
  ASSUME NEW e, NEW f, NEW g, Moved(e, f), Moved(f, g)
  PROVE  Moved(e, g)
  BY DEF Moved, Quiet

LEMMA Held ==
  ASSUME NEW e, NEW f, Good(f), Kept(e, f), e.bt
  PROVE  Moved(e, f)
  BY DEF Moved, Kept

LEMMA Still ==
  ASSUME NEW e, Good(e)
  PROVE  Moved(e, e)
  BY DEF Moved, Quiet

(* The button memories, and the menu under a pressed button.                *)
Flags(e, f) ==
  /\ f \in StT /\ f.win = e.win /\ f.foc = e.foc /\ f.bt = e.bt /\ f.dirty = e.dirty
  /\ f.mode \in {e.mode, "off"} /\ f.gnome = e.gnome /\ f.gui = e.gui
  /\ (e.quit => f.quit)
  /\ ~e.bt => f.menu = e.menu

LEMMA FlagsMoved ==
  ASSUME NEW e, NEW f, Good(e), Flags(e, f)
  PROVE  Moved(e, f)
  BY Plain DEF Flags, Moved, Quiet

LEMMA MenuMoved ==
  ASSUME NEW e, Good(e), NEW row
  PROVE  Moved(e, gw_start_menu_mouse(e, row))
  <1> DEFINE f == [e EXCEPT !.menu = FALSE]
             q == [f EXCEPT !.quit = TRUE]
             o == [f EXCEPT !.mode = "off"]
  <1>1. CASE ~e.bt \/ row = "none"
    BY <1>1, Still DEF gw_start_menu_mouse
  <1>2. CASE e.bt /\ row # "none"
    <2>1. gw_start_menu_mouse(e, row) \in {q, o, gw_launch_app(f, row)}
      BY <1>2 DEF gw_start_menu_mouse
    <2>2. Flags(e, f)
      BY <1>2 DEF Flags, Good, StT
    <2>3. Flags(e, q) /\ Flags(e, o)
      BY <1>2 DEF Flags, Good, StT
    <2> HIDE DEF f, q, o
    <2>4. Moved(e, f) /\ Moved(e, q) /\ Moved(e, o)
      BY <2>2, <2>3, FlagsMoved
    <2>5. Good(f) /\ f.bt
      BY <1>2, <2>4 DEF Moved
    <2>6. Moved(f, gw_launch_app(f, row))
      BY <2>5, Launch, Held
    <2>7. Moved(e, gw_launch_app(f, row))
      BY <2>4, <2>6, MovedTwice
    <2> QED  BY <2>1, <2>4, <2>7
  <1> QED  BY <1>1, <1>2

LEMMA TaskButtonGood ==
  ASSUME NEW e, Good(e), NEW w \in Used(e)
  PROVE  Good(TaskButton(e, w)) /\ Kept(e, TaskButton(e, w))
  <1>1. TaskButton(e, w) \in {gw_minimize(e, w), gw_restore(e, w)}
    BY DEF TaskButton
  <1> QED  BY <1>1, Minimize, Restore

LEMMA TaskbarMoved ==
  ASSUME NEW e, Good(e), NEW p, p.zone = "task" => p.w \in Used(e)
  PROVE  Moved(e, Taskbar(e, p))
  <1> DEFINE f == [e EXCEPT !.menu = @ /\ ~e.bt, !.prev_btn = FALSE]
  <1>1. Flags(e, f)
    BY ZenonT(60), SMTT(30) DEF Flags, Good, StT
  <1>2. Moved(e, f)
    BY <1>1, FlagsMoved
  <1>3. CASE p.zone = "start"
    <2> DEFINE g == [e EXCEPT !.menu = (@ # (e.bt /\ ~e.prev_btn)), !.prev_btn = e.bt]
    <2>1. Flags(e, g)
      BY DEF Flags, Good, StT
    <2>2. Taskbar(e, p) = g
      BY <1>3 DEF Taskbar
    <2> HIDE DEF g
    <2> QED  BY <2>1, <2>2, FlagsMoved
  <1>4. CASE p.zone = "task"
    <2> DEFINE b == e.bt
               g == IF b /\ ~e.tbtn_prev THEN TaskButton(f, p.w) ELSE f
               h == [g EXCEPT !.tbtn_prev = b]
    <2>1. Taskbar(e, p) = h
      BY <1>4 DEF Taskbar
    <2>2. p.w \in Used(f) /\ Good(f) /\ f.bt = e.bt /\ b \in BOOLEAN
      BY <1>1, <1>2, <1>4 DEF Flags, Used, Moved, Good, StT
    <2> HIDE DEF f, b
    <2>3. Moved(e, g)
      <3>1. CASE b /\ ~e.tbtn_prev
        <4>1. Good(TaskButton(f, p.w)) /\ Kept(f, TaskButton(f, p.w))
          BY <2>2, TaskButtonGood
        <4>2. Moved(f, TaskButton(f, p.w))
          BY <2>2, <3>1, <4>1, Held DEF b
        <4>3. Moved(e, TaskButton(f, p.w))
          BY <1>2, <4>2, MovedTwice
        <4> QED  BY <3>1, <4>3
      <3>2. CASE ~(b /\ ~e.tbtn_prev)
        BY <1>2, <3>2
      <3> QED  BY <3>1, <3>2
    <2> HIDE DEF g
    <2>4. Flags(g, h)
      BY <2>2, <2>3 DEF Flags, Good, StT, Moved
    <2>5. Moved(g, h)
      BY <2>3, <2>4, FlagsMoved DEF Moved
    <2> QED  BY <2>1, <2>3, <2>5, MovedTwice
  <1>5. CASE p.zone \notin {"start", "task"}
    <2> DEFINE h == [f EXCEPT !.tbtn_prev = FALSE]
    <2>1. Taskbar(e, p) = h
      BY <1>5 DEF Taskbar
    <2> HIDE DEF f
    <2>2. Flags(f, h)
      BY <1>2 DEF Flags, Good, StT, Moved
    <2>3. Moved(f, h)
      BY <1>2, <2>2, FlagsMoved DEF Moved
    <2> QED  BY <1>2, <2>1, <2>3, MovedTwice
  <1> QED  BY <1>3, <1>4, <1>5

LEMMA DockMoved ==
  ASSUME NEW e, Good(e), NEW a
  PROVE  Moved(e, Dock(e, a))
  <1> DEFINE f == [e EXCEPT !.dock_prev = e.bt]
  <1>1. Flags(e, f)
    BY DEF Flags, Good, StT
  <1>2. Moved(e, f)
    BY <1>1, FlagsMoved
  <1>3. CASE e.bt /\ Dock(e, a) = gw_launch_app(f, a)
    <2> HIDE DEF f
    <2>1. Good(f) /\ f.bt
      BY <1>1, <1>2, <1>3 DEF Moved, Flags
    <2>2. Moved(f, gw_launch_app(f, a))
      BY <2>1, Launch, Held
    <2> QED  BY <1>2, <1>3, <2>2, MovedTwice
  <1>4. CASE Dock(e, a) = f
    BY <1>2, <1>4
  <1>5. (e.bt /\ Dock(e, a) = gw_launch_app(f, a)) \/ Dock(e, a) = f
    BY DEF Dock
  <1> QED  BY <1>3, <1>4, <1>5

LEMMA IconMoved ==
  ASSUME NEW e, Good(e), NEW i, NEW quick
  PROVE  Moved(e, IconMouse(e, i, quick))
  <1>1. CASE IconMouse(e, i, quick) = e
    BY <1>1, Still
  <1>2. CASE e.bt /\ IconMouse(e, i, quick) \in {gw_launch_game(e), gw_launch_app(e, i)}
    BY <1>2, Launch, LaunchGame, Held
  <1>3. IconMouse(e, i, quick) = e
          \/ (e.bt /\ IconMouse(e, i, quick) \in {gw_launch_game(e), gw_launch_app(e, i)})
    BY DEF IconMouse, Pressed
  <1> QED  BY <1>1, <1>2, <1>3

LEMMA BlankMoved ==
  ASSUME NEW e, Good(e)
  PROVE  Moved(e, BlankMouse(e))
  <1> DEFINE H == Used(e) \ Visible(e)
             w == Min(H)
  <1>1. CASE BlankMouse(e) = e
    BY <1>1, Still
  <1>2. CASE e.bt /\ H # {} /\ BlankMouse(e) = gw_restore(e, w)
    <2>1. w \in Used(e)
      BY <1>2, MinIn DEF Used
    <2> HIDE DEF w
    <2> QED  BY <1>2, <2>1, Restore, Held
  <1>3. BlankMouse(e) = e \/ (e.bt /\ H # {} /\ BlankMouse(e) = gw_restore(e, w))
    BY DEF BlankMouse, Pressed
  <1> QED  BY <1>1, <1>2, <1>3

(* A drag begins, goes on or ends.                                          *)
LEMMA Drag ==
  ASSUME NEW e, Good(e), NEW w \in Used(e), NEW b \in BOOLEAN
  PROVE  LET f == Entry(e, w, [e.win[w] EXCEPT !.moving = b])
         IN Good(f) /\ Kept(e, f)
  <1>1. /\ w \in Slots /\ e \in StT /\ e.win[w] \in WinT /\ e.win[w].used
        /\ Single(e.win) /\ Focus(e.win, e.foc)
    BY DEF Used, Good, StT, Wins
  <1> DEFINE v == [e.win[w] EXCEPT !.moving = b]
             f == Entry(e, w, v)
  <1>2. /\ v \in WinT /\ v.used = e.win[w].used /\ v.app = e.win[w].app
        /\ v.focused = e.win[w].focused /\ v.hidden = e.win[w].hidden
    BY <1>1 DEF WinT
  <1> HIDE DEF v
  <1>3. Changed(e, w, v, f)
    BY <1>1, <1>2, SetEntry
  <1> HIDE DEF f
  <1>4. Single(f.win)
    BY <1>1, <1>2, <1>3 DEF Single, Changed
  <1>5. Focus(f.win, f.foc)
    <2>1. \A s \in Slots : /\ f.win[s].used = e.win[s].used
                           /\ f.win[s].hidden = e.win[s].hidden
                           /\ f.win[s].focused = e.win[s].focused
      BY <1>2, <1>3 DEF Changed
    <2>2. f.foc = e.foc /\ e.foc \in Slots \cup {None}
      BY <1>1, <1>3 DEF Changed, StT, FocT
    <2> QED  BY <1>1, <2>1, <2>2 DEF Focus
  <1>6. Good(f) /\ Kept(e, f)
    BY <1>3, <1>4, <1>5 DEF Good, Changed
  <1> QED  BY <1>6 DEF f, v

LEMMA TitleMoved ==
  ASSUME NEW e, Good(e), NEW w \in Visible(e), NEW quick \in BOOLEAN
  PROVE  Moved(e, TitleMouse(e, w, quick))
  <1>1. w \in Used(e) /\ w \in Slots /\ e \in StT /\ e.win[w] \in WinT
    BY DEF Visible, Used, Good, StT, Wins
  <1>2. CASE Pressed(e) /\ quick
    <2>1. TitleMouse(e, w, quick) = gw_toggle_max(e, w)
      BY <1>2 DEF TitleMouse, Pressed, Released
    <2>2. e.bt
      BY <1>2 DEF Pressed
    <2> QED  BY <2>1, <2>2, ToggleMax, Held
  <1>3. CASE e.bt /\ ~(Pressed(e) /\ quick)
    <2> DEFINE b == ~e.win[w].maxd
               f == Entry(e, w, [e.win[w] EXCEPT !.moving = b])
    <2>1. TitleMouse(e, w, quick) = f
      BY <1>3 DEF TitleMouse, Released, Entry
    <2>2. b \in BOOLEAN
      OBVIOUS
    <2> HIDE DEF b
    <2>3. Good(f) /\ Kept(e, f)
      BY <1>1, <2>2, Drag
    <2> HIDE DEF f
    <2> QED  BY <1>3, <2>1, <2>3, Held
  <1>4. CASE Released(e) /\ e.win[w].moving
    <2> DEFINE f == Entry(e, w, [e.win[w] EXCEPT !.moving = FALSE])
    <2>1. TitleMouse(e, w, quick) = Dirtied(f)
      BY <1>1, <1>4 DEF TitleMouse, Released, Pressed, Entry, Dirtied, StT
    <2>2. Good(f) /\ Kept(e, f)
      BY <1>1, Drag
    <2> HIDE DEF f
    <2>3. Good(Dirtied(f)) /\ Kept(f, Dirtied(f)) /\ Dirtied(f).dirty
      BY <2>2, MarkDirty
    <2> QED  BY <2>1, <2>2, <2>3 DEF Moved, Kept, Quiet
  <1>5. CASE ~e.bt /\ ~(Released(e) /\ e.win[w].moving)
    <2>1. TitleMouse(e, w, quick) = e
      BY <1>5 DEF TitleMouse, Pressed
    <2> QED  BY <2>1, Still
  <1> QED  BY <1>2, <1>3, <1>4, <1>5

LEMMA TitleButtonMoved ==
  ASSUME NEW e, Good(e), NEW w \in Visible(e), NEW part
  PROVE  Moved(e, TitleButton(e, w, part))
  <1>1. w \in Used(e)
    BY DEF Visible
  <1>2. TitleButton(e, w, part) = e
          \/ (e.bt /\ TitleButton(e, w, part) \in {gw_close(e, w), gw_minimize(e, w)})
    BY DEF TitleButton, Pressed
  <1>3. CASE TitleButton(e, w, part) = e
    BY <1>3, Still
  <1>4. CASE e.bt /\ TitleButton(e, w, part) \in {gw_close(e, w), gw_minimize(e, w)}
    BY <1>1, <1>4, Close, Minimize, Held
  <1> QED  BY <1>2, <1>3, <1>4

LEMMA ContentMoved ==
  ASSUME NEW e, Good(e), NEW w \in Visible(e), NEW f \in ContentMouse(e, w)
  PROVE  Moved(e, f)
  <1>1. \/ e.bt /\ f = gw_bring_front(e, w)
        \/ f = e
        \/ f \in {gw_set_theme(e, TRUE), gw_set_theme(e, FALSE)}
    BY DEF ContentMouse, Pressed
  <1>2. CASE e.bt /\ f = gw_bring_front(e, w)
    BY <1>2, BringFront, Held DEF Good
  <1>3. CASE f = e
    BY <1>3, Still
  <1>4. CASE f \in {gw_set_theme(e, TRUE), gw_set_theme(e, FALSE)}
    <2>1. Good(f) /\ Kept(e, f) /\ (e.gui => f.dirty)
      BY <1>4, SetTheme
    <2> QED  BY <2>1 DEF Moved, Kept, Quiet
  <1> QED  BY <1>1, <1>2, <1>3, <1>4

(* Positions: a task button is that of an open window, and what is hit on   *)
(* the desktop is a visible one.                                            *)
At(e, p) ==
  /\ p.zone = "task" => p.w \in Used(e)
  /\ p.zone = "spot" => p.at = "none" \/ p.w \in Visible(e)
  /\ p.zone \in {"menu", "start", "bar", "task", "dock", "icon", "spot"}

LEMMA HitVisible ==
  ASSUME NEW e, NEW near \in SUBSET (Dragged(e) \cap Visible(e)), NEW S \in SUBSET Visible(e),
         Hit(e, near, S) # None
  PROVE  Hit(e, near, S) \in Visible(e)
  <1> DEFINE F == {s \in S : e.win[s].focused}
  <1>1. /\ S \in SUBSET Slots /\ F \in SUBSET Slots /\ near \in SUBSET Slots
        /\ F \subseteq S /\ S \subseteq Visible(e) /\ near \subseteq Visible(e)
    BY DEF Visible, Used
  <1>2. \/ near # {} /\ Hit(e, near, S) = Min(near)
        \/ F # {} /\ Hit(e, near, S) = Min(F)
        \/ S # {} /\ Hit(e, near, S) = Max(S)
    BY DEF Hit
  <1> HIDE DEF F
  <1> QED  BY <1>1, <1>2, MinIn, MaxIn

LEMMA PlaceAt ==
  ASSUME NEW e, NEW p \in Places(e)
  PROVE  At(e, p)
  <1>1. CASE \E r \in MenuRows : p = Place("menu", r, None)
    BY <1>1 DEF Place, At
  <1>2. CASE p \in {Place("start", "none", None), Place("bar", "none", None)}
    BY <1>2 DEF Place, At
  <1>3. CASE \E s \in Used(e) : p = Place("task", "none", s)
    BY <1>3 DEF Place, At
  <1>4. CASE \E a \in Apps \cup {"none"} : p = Place("dock", a, None)
    BY <1>4 DEF Place, At
  <1>5. CASE \E i \in Icons : p = Place("icon", i, None)
    BY <1>5 DEF Place, At
  <1>6. CASE \E q \in Parts, h \in Hits(e) \ {None} : p = Place("spot", q, h)
    <2>1. PICK q \in Parts, h \in Hits(e) \ {None} : p = Place("spot", q, h)
      BY <1>6
    <2>2. h \in Visible(e)
      BY HitVisible DEF Hits
    <2> QED  BY <2>1, <2>2 DEF Place, At
  <1>7. CASE p = Place("spot", "none", None)
    BY <1>7 DEF Place, At
  <1> QED  BY <1>1, <1>2, <1>3, <1>4, <1>5, <1>6, <1>7 DEF Places

LEMMA WindowMoved ==
  ASSUME NEW e, Good(e), NEW p, p.at = "none" \/ p.w \in Visible(e),
         NEW quick \in BOOLEAN, NEW f \in WindowMouse(e, p, quick)
  PROVE  Moved(e, f)
  <1>1. CASE p.at = "none"
    BY <1>1, BlankMoved DEF WindowMouse
  <1>2. CASE p.at \in {"close", "min"}
    BY <1>2, TitleButtonMoved DEF WindowMouse
  <1>3. CASE p.at = "title"
    BY <1>3, TitleMoved DEF WindowMouse
  <1>4. CASE p.at \notin {"none", "close", "min", "title"}
    BY <1>4, ContentMoved DEF WindowMouse
  <1> QED  BY <1>1, <1>2, <1>3, <1>4

LEMMA HandleMoved ==
  ASSUME NEW e, Good(e), NEW p, At(e, p), p.zone \in {"menu", "icon", "spot"},
         NEW quick \in BOOLEAN, NEW f \in gw_handle_mouse(e, p, quick)
  PROVE  Moved(e, f)
  <1> DEFINE m == [e EXCEPT !.menu = @ /\ ~Pressed(e)]
             b == e.bt
  <1>1. PICK g : /\ f = [g EXCEPT !.last_btn = b]
                 /\ \/ p.zone = "menu" /\ g = gw_start_menu_mouse(e, p.at)
                    \/ p.zone = "icon" /\ g = IconMouse(m, p.at, quick)
                    \/ p.zone = "spot" /\ g \in WindowMouse(m, p, quick)
    BY DEF gw_handle_mouse
  <1>2. Flags(e, m) /\ m.mode = e.mode /\ b \in BOOLEAN
    BY DEF Flags, Good, StT, Pressed
  <1>3. Moved(e, m) /\ Visible(m) = Visible(e)
    BY <1>2, FlagsMoved DEF Flags, Visible, Used
  <1> HIDE DEF m, b
  <1>4. Moved(e, g)
    <2>1. CASE g = gw_start_menu_mouse(e, p.at)
      BY <2>1, MenuMoved
    <2>2. CASE g = IconMouse(m, p.at, quick)
      <3>1. Moved(m, g)
        BY <1>3, <2>2, IconMoved DEF Moved
      <3> QED  BY <1>3, <3>1, MovedTwice
    <2>3. CASE p.zone = "spot" /\ g \in WindowMouse(m, p, quick)
      <3>1. Good(m) /\ (p.at = "none" \/ p.w \in Visible(m))
        BY <1>2, <1>3, <2>3 DEF Moved, At
      <3>2. Moved(m, g)
        BY <2>3, <3>1, WindowMoved
      <3> QED  BY <1>3, <3>2, MovedTwice
    <2> QED  BY <1>1, <2>1, <2>2, <2>3
  <1>5. Flags(g, f)
    BY <1>1, <1>2, <1>4 DEF Flags, Good, StT, Moved
  <1>6. Moved(g, f)
    BY <1>4, <1>5, FlagsMoved DEF Moved
  <1> QED  BY <1>4, <1>6, MovedTwice

LEMMA MouseMoved ==
  ASSUME NEW e, Good(e), NEW p, At(e, p),
         NEW quick \in BOOLEAN, NEW f \in Mouse(e, p, quick)
  PROVE  Moved(e, f)
  <1> DEFINE g == [e EXCEPT !.prev_btn = FALSE, !.tbtn_prev = FALSE]
  <1>1. CASE p.zone \in {"start", "task", "bar"}
    <2>1. f = Taskbar(e, p)
      BY <1>1 DEF Mouse
    <2> QED  BY <2>1, TaskbarMoved DEF At
  <1>2. Flags(e, g) /\ g.mode = e.mode
    BY DEF Flags, Good, StT
  <1>3. Moved(e, g) /\ Visible(g) = Visible(e) /\ Used(g) = Used(e)
    BY <1>2, FlagsMoved DEF Flags, Visible, Used
  <1>4. CASE p.zone = "dock"
    <2>1. f = Dock(g, p.at)
      BY <1>4 DEF Mouse
    <2> HIDE DEF g
    <2>2. Moved(g, f)
      BY <1>3, <2>1, DockMoved DEF Moved
    <2> QED  BY <1>3, <2>2, MovedTwice
  <1>5. CASE p.zone \in {"menu", "icon", "spot"}
    <2>1. f \in gw_handle_mouse(g, p, quick)
      BY <1>5 DEF Mouse
    <2> HIDE DEF g
    <2>2. Good(g) /\ At(g, p)
      BY <1>2, <1>3 DEF Moved, At
    <2>3. Moved(g, f)
      BY <1>5, <2>1, <2>2, HandleMoved
    <2> QED  BY <1>3, <2>3, MovedTwice
  <1> QED  BY <1>1, <1>4, <1>5 DEF At

-----------------------------------------------------------------------------
(* The inductive invariant.  ScreenCurrent looks at the top of the loop of   *)
(* gw_demo only; between the two halves of an iteration the same holds.     *)

Current(e) == e.mode = "desktop" /\ ~e.bt /\ Dragged(e) = {} => e.fresh \/ e.dirty

(* gw_gui_active is cleared under a desktop that goes on only when that one  *)
(* leaves at the end of its iteration, as gw_quit is set for both.          *)
Active(e) == e.mode = "desktop" => e.gui \/ e.quit

DeskInv == Good(d) /\ Current(d) /\ Active(d)

LEMMA BootGood ==
  /\ Good(Boot) /\ Boot.mode = "shell"
  /\ Good([Boot EXCEPT !.mode = "off"]) /\ [Boot EXCEPT !.mode = "off"].mode = "off"
  <1> DEFINE W == [s \in Slots |-> Unused]
             o == [Boot EXCEPT !.mode = "off"]
  <1>1. W \in Wins /\ \A s \in Slots : ~W[s].used
    BY DEF Wins, WinT, Unused
  <1>2. Single(W) /\ Focus(W, None)
    BY <1>1 DEF Single, Focus
  <1>3. Boot.win = W /\ Boot.foc = None /\ Boot.mode = "shell"
    BY DEF Boot
  <1> HIDE DEF W
  <1>4. Boot \in StT
    <2>1. None \in FocT
      BY DEF FocT
    <2> QED  BY <1>1, <2>1 DEF Boot, StT, W
  <1>5. Good(Boot)
    BY <1>2, <1>3, <1>4 DEF Good
  <1>6. o \in StT /\ o.win = Boot.win /\ o.foc = Boot.foc /\ o.mode = "off"
    BY <1>4 DEF StT
  <1> HIDE DEF o
  <1>7. Good(o)
    BY <1>5, <1>6, Plain
  <1> QED  BY <1>3, <1>5, <1>6, <1>7 DEF o

LEMMA DeskInit == Init => DeskInv
  BY BootGood DEF Init, DeskInv, Current, Active

LEMMA ReadInputStep ==
  ASSUME DeskInv, ReadInput
  PROVE  DeskInv'
  <1>1. PICK bt \in BOOLEAN, e \in {d} \cup AfterKey(d) :
          d' = [e EXCEPT !.pc = "mouse", !.bt = bt, !.dirty = @ \/ EdgeDirty(d, bt),
                         !.fresh = StillFresh(e)]
    BY DEF ReadInput
  <1>2. Good(e) /\ Kept(d, e) /\ (e = d \/ e.dirty)
    BY <1>1, AfterKeyGood DEF DeskInv, Kept
  <1>3. StillFresh(e) \in BOOLEAN /\ EdgeDirty(d, bt) \in BOOLEAN
    BY DEF StillFresh, EdgeDirty, DeskInv, Good, StT
  <1>4. /\ d' \in StT /\ d'.win = e.win /\ d'.foc = e.foc /\ d'.bt = bt /\ d'.mode = d.mode
        /\ d'.dirty = (e.dirty \/ EdgeDirty(d, bt)) /\ d'.fresh = StillFresh(e)
    BY ZenonT(60), <1>1, <1>2, <1>3 DEF Good, StT, Kept
  <1>5. Good(d')
    BY <1>2, <1>4, Plain
  <1>6. Current(d')
    <2>1. CASE e.dirty
      BY <1>4, <2>1 DEF Current
    <2>2. CASE e = d
      <3>1. StillFresh(e) = d.fresh
        BY <2>2 DEF StillFresh, DeskInv, Good, StT
      <3>2. Dragged(d') = Dragged(d)
        BY <1>4, <2>2 DEF Dragged, Used
      <3> QED  BY <1>4, <2>2, <3>1, <3>2 DEF DeskInv, Current, EdgeDirty
    <2> QED  BY <1>2, <2>1, <2>2
  <1>7. Active(d')
    <2>1. d'.gui = e.gui /\ d'.quit = e.quit
      BY <1>1, <1>2 DEF Good, StT
    <2> QED  BY <1>2, <1>4, <2>1 DEF DeskInv, Active, Kept
  <1> QED  BY <1>5, <1>6, <1>7 DEF DeskInv

LEMMA HandleMouseStep ==
  ASSUME DeskInv, HandleMouse
  PROVE  DeskInv'
  <1> DEFINE Result(e, p) ==
               LET f == [e EXCEPT !.fresh = StillFresh(e)]
               IN IF e.mode = "off" THEN d' = [Boot EXCEPT !.mode = "off"]
                  ELSE \E g \in (IF e.quit THEN Left(f) ELSE Drawn(f, p)) : d' = g
  <1>a. PICK p \in Places(d) : \E q \in InTime(d, p) : \E e \in Mouse(d, p, q) : Result(e, p)
    BY DEF HandleMouse
  <1>b. PICK quick \in InTime(d, p) : \E e \in Mouse(d, p, quick) : Result(e, p)
    BY <1>a
  <1>1. PICK e \in Mouse(d, p, quick) : Result(e, p)
    BY <1>b
  <1>2. d.mode = "desktop" /\ Good(d)
    BY DEF HandleMouse, Looping, DeskInv
  <1>3. quick \in BOOLEAN
    BY DEF InTime
  <1>4. Moved(d, e)
    BY <1>2, <1>3, PlaceAt, MouseMoved
  <1> DEFINE f == [e EXCEPT !.fresh = StillFresh(e)]
  <1>5. StillFresh(e) \in BOOLEAN
    BY <1>2 DEF StillFresh, Good, StT
  <1>6. /\ f \in StT /\ f.win = e.win /\ f.foc = e.foc /\ f.bt = e.bt /\ f.mode = e.mode
        /\ f.dirty = e.dirty /\ f.fresh = StillFresh(e) /\ f.quit = e.quit
        /\ f.gui = e.gui
    BY <1>4, <1>5 DEF Moved, Good, StT
  <1>7. Good(f)
    BY <1>4, <1>6, Plain DEF Moved
  <1>8. CASE e.mode = "off"
    BY <1>1, <1>8, BootGood DEF DeskInv, Current, Active
  <1>9. CASE e.mode # "off" /\ e.quit
    <2>1. d' \in Left(f)
      BY <1>1, <1>9
    <2> HIDE DEF f
    <2>2. CASE f.depth = 0
      <3>1. d' = [f EXCEPT !.mode = "shell", !.pc = "key", !.bt = FALSE, !.gui = FALSE]
        BY <2>1, <2>2 DEF Left
      <3>2. d' \in StT /\ d'.win = f.win /\ d'.foc = f.foc /\ d'.mode = "shell"
        BY <1>6, <3>1 DEF StT
      <3>3. Good(d')
        BY <1>7, <3>2, Plain
      <3> QED  BY <3>2, <3>3 DEF DeskInv, Current, Active
    <2>3. CASE f.depth # 0
      <3>1. PICK bt \in BOOLEAN : d' = [f EXCEPT !.depth = @ - 1, !.dirty = TRUE, !.bt = bt, !.gui = FALSE]
        BY <2>1, <2>3 DEF Left
      <3>2. f.depth - 1 \in Nat
        BY <1>6, <2>3 DEF StT
      <3>3. d' \in StT /\ d'.win = f.win /\ d'.foc = f.foc /\ d'.dirty /\ d'.quit
        BY <1>6, <1>9, <3>1, <3>2 DEF StT
      <3>4. Good(d')
        BY <1>7, <3>3, Plain
      <3> QED  BY <3>3, <3>4 DEF DeskInv, Current, Active
    <2> QED  BY <2>2, <2>3
  <1>10. CASE e.mode # "off" /\ ~e.quit
    <2>1. d' \in Drawn(f, p)
      BY <1>1, <1>10
    <2> HIDE DEF f
    <2>2. PICK icon \in BOOLEAN, sec \in BOOLEAN : d' = Redrawn(f, icon, sec)
      <3>1. Uncovered(f, p) \subseteq BOOLEAN /\ Second(f) \subseteq BOOLEAN
        BY DEF Uncovered, Second
      <3>2. \E icon \in Uncovered(f, p), sec \in Second(f) : d' = Redrawn(f, icon, sec)
        BY <2>1 DEF Drawn
      <3> QED  BY <3>1, <3>2
    <2>3. /\ d' \in StT /\ d'.win = f.win /\ d'.foc = f.foc /\ d'.bt = f.bt
          /\ d'.gui = f.gui /\ d'.fresh = (icon \/ (Dragged(f) = {} /\ (f.fresh \/ f.dirty)))
      BY ZenonT(60), <1>6, <2>2 DEF StT, Redrawn
    <2>4. Good(d')
      BY <1>7, <2>3, Plain
    <2>5. Dragged(d') = Dragged(e) /\ Dragged(f) = Dragged(e)
      BY <1>6, <2>3 DEF Dragged, Used
    <2>6. ASSUME ~d'.bt, Dragged(d') = {} PROVE d'.fresh
      <3>1. CASE e.dirty
        BY <1>6, <2>3, <2>5, <2>6, <3>1
      <3>2. CASE ~e.dirty
        <4>1. ~d.bt /\ ~d.dirty /\ d.gui
          BY <1>2, <1>4, <1>6, <1>10, <2>3, <2>6, <3>2 DEF Moved, DeskInv, Active
        <4>2. e.win = d.win /\ e.foc = d.foc /\ e.menu = d.menu /\ e.gnome = d.gnome
          BY <1>4, <3>2, <4>1 DEF Moved, Quiet
        <4>3. Seen(e) = Seen(d) /\ Dragged(e) = Dragged(d)
          BY <4>2 DEF Seen, Dragged, Used, Visible
        <4>4. d.fresh
          BY <1>2, <2>5, <2>6, <4>1, <4>3 DEF DeskInv, Current, Active
        <4> QED  BY <1>6, <2>3, <2>5, <2>6, <4>3, <4>4 DEF StillFresh
      <3> QED  BY <3>1, <3>2
    <2>7. d'.gui
      BY <1>2, <1>4, <1>6, <1>10, <2>3 DEF Moved, DeskInv, Active
    <2> QED  BY <2>4, <2>6, <2>7 DEF DeskInv, Current, Active
  <1> QED  BY <1>8, <1>9, <1>10

LEMMA DeskNext == DeskInv /\ [Next]_d => DeskInv'
  <1> SUFFICES ASSUME DeskInv, [Next]_d PROVE DeskInv'
    OBVIOUS
  <1>1. Good(d) /\ d \in StT
    BY DEF DeskInv, Good
  <1>2. CASE Nested
    <2> DEFINE g == gw_demo(d)
    <2>1. Good(g) /\ g.dirty /\ g.gui
      BY <1>1, Demo
    <2>2. d' = [g EXCEPT !.depth = @ + 1]
      BY <1>2 DEF Nested
    <2> HIDE DEF g
    <2>3. d' \in StT /\ d'.win = g.win /\ d'.foc = g.foc /\ d'.dirty /\ d'.gui
      BY <2>1, <2>2 DEF Good, StT
    <2> QED  BY <2>1, <2>3, Plain DEF DeskInv, Current, Active
  <1>3. CASE PowerOff \/ PowerOn
    BY <1>3, BootGood DEF PowerOff, PowerOn, DeskInv, Current, Active
  <1>4. CASE gw_start
    BY <1>1, <1>4, Demo DEF gw_start, DeskInv, Current, Active
  <1>5. CASE ShellTheme
    <2>1. d'.mode = "shell" /\ Good(d')
      BY <1>1, <1>5, SetTheme DEF ShellTheme, Kept
    <2> QED  BY <2>1 DEF DeskInv, Current, Active
  <1>6. CASE ShellGame
    <2>1. d'.mode = "shell" /\ Good(d')
      BY <1>1, <1>6, RunGame DEF ShellGame, Kept
    <2> QED  BY <2>1 DEF DeskInv, Current, Active
  <1>7. CASE UNCHANGED d
    BY <1>7 DEF DeskInv
  <1> QED  BY <1>2, <1>3, <1>4, <1>5, <1>6, <1>7, ReadInputStep, HandleMouseStep DEF Next

-----------------------------------------------------------------------------
\* The window table, the focus and the redraw request stay in step in every
\* reachable state.
THEOREM DesktopInvariant == Spec => []DeskInv
  BY DeskInit, DeskNext, PTL DEF Spec

\* gw_focused_wnd and the flags of the windows agree whatever mixture of keys,
\* presses, task buttons, games and nested desktops led here.
THEOREM FocusIsOne == Spec => []FocusAgrees
  <1>1. DeskInv => FocusAgrees
    <2> SUFFICES ASSUME DeskInv PROVE FocusAgrees
      OBVIOUS
    <2>1. Focus(d.win, d.foc) /\ d.foc \in FocT
      BY DEF DeskInv, Good, StT
    <2> QED  BY <2>1 DEF FocusAgrees, Focus, FocT, Visible, Used
  <1> QED  BY <1>1, DesktopInvariant, PTL

\* gw_launch_app, the keys, the dock, the menu, the icons and the games never
\* open a second window of an application.
THEOREM AppsOpenOnce == Spec => []OnePerApp
  <1>1. DeskInv => OnePerApp
    <2> SUFFICES ASSUME DeskInv, NEW a \in Apps PROVE Cardinality(Open(d, a)) <= 1
      BY DEF OnePerApp
    <2>1. Single(d.win)
      BY DEF DeskInv, Good
    <2>2. CASE Open(d, a) = {}
      BY <2>2, FS_EmptySet
    <2>3. CASE Open(d, a) # {}
      <3>1. PICK s : s \in Open(d, a)
        BY <2>3
      <3>2. Open(d, a) = {s}
        BY <2>1, <3>1 DEF Single, Open, Used
      <3>3. Cardinality({s}) = 1
        BY FS_Singleton
      <3> QED  BY <3>2, <3>3
    <2> QED  BY <2>2, <2>3
  <1> QED  BY <1>1, DesktopInvariant, PTL

\* The screen shows the state, or a full redraw is due, whenever no button is
\* down and no window is dragged: no operation changes what is shown without
\* asking for a redraw, and none loses a request.
THEOREM ScreenShowsState == Spec => []ScreenCurrent
  <1>1. DeskInv => ScreenCurrent
    BY DEF DeskInv, Current, ScreenCurrent, Looping
  <1> QED  BY <1>1, DesktopInvariant, PTL
=============================================================================
