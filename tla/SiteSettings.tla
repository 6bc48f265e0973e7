---------------------------- MODULE SiteSettings ----------------------------
(***************************************************************************)
(* The theme and the font size of the R documentation (docs-r/js/theme.js, *)
(* docs-r/js/fontsize.js).  A page reads them from the browser's storage   *)
(* when it is loaded; its buttons change its own and write them back.      *)
(***************************************************************************)
EXTENDS Integers

CONSTANT SiteTabs

VARIABLES
    shown,   \* of each tab: is a page loaded, its theme and its font size
    stored   \* what is stored

settingsVars == <<shown, stored>>

defaultFontSize == 16
minFontSize     == 12
maxFontSize     == 24
step            == 2
Themes          == {"light", "dark"}
NoTheme         == "none"

\* However the buttons of several pages are mixed, no page leaves the range of
\* sizes, and none is stored outside of it: the steps of 2 meet both its ends.
SettingsTypeOK ==
    /\ shown \in [SiteTabs -> [loaded : BOOLEAN, theme : Themes, size : minFontSize .. maxFontSize]]
    /\ stored \in [theme : Themes \cup {NoTheme}, size : {0} \cup minFontSize .. maxFontSize]

\* Nothing is stored: no theme, and no size, which reads as 0.
SettingsInit ==
    /\ shown = [t \in SiteTabs |-> [loaded |-> FALSE, theme |-> "light", size |-> defaultFontSize]]
    /\ stored = [theme |-> NoTheme, size |-> 0]

\* A page is loaded, in a new tab or in place of another.
LoadPage(t) ==
    /\ shown' = [shown EXCEPT ![t] =
           [loaded |-> TRUE,
            theme  |-> IF stored.theme = NoTheme THEN "light" ELSE stored.theme,
            size   |-> IF stored.size = 0 THEN defaultFontSize ELSE stored.size]]
    /\ UNCHANGED stored

ToggleTheme(t) ==
    LET new == IF shown[t].theme = "dark" THEN "light" ELSE "dark"
    IN /\ shown[t].loaded
       /\ shown' = [shown EXCEPT ![t].theme = new]
       /\ stored' = [stored EXCEPT !.theme = new]

Resize(t, n) ==
    /\ shown' = [shown EXCEPT ![t].size = n]
    /\ stored' = [stored EXCEPT !.size = n]

\* Faulty: one step too many.
CanGrowOver(n) == n <= maxFontSize

CanGrow(n) == n < maxFontSize

Increase(t) == shown[t].loaded /\ CanGrow(shown[t].size) /\ Resize(t, shown[t].size + step)

Decrease(t) ==
    shown[t].loaded /\ shown[t].size > minFontSize /\ Resize(t, shown[t].size - step)

SettingsNext == \E t \in SiteTabs : LoadPage(t) \/ ToggleTheme(t) \/ Increase(t) \/ Decrease(t)
SettingsSpec == SettingsInit /\ [][SettingsNext]_settingsVars
=============================================================================
