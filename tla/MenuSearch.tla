----------------------------- MODULE MenuSearch -----------------------------
(***************************************************************************)
(* The search in the menu of the R documentation (docs-r/js/search.js).    *)
(* Its index is fetched while the reader may already type; what the texts  *)
(* of the site are is chosen at the start and does not matter otherwise.   *)
(***************************************************************************)
EXTENDS Integers

CONSTANTS
    Pages,    \* the pages, each with one link in the menu
    Menus,    \* the submenus
    Home,     \* the one whose label says so
    MenuOf,   \* the submenu of each link
    Inside,   \* pairs <<p, u>>: the file name of p is part of the url of u
    Terms, Empty

ASSUME MenuSearchOK ==
    /\ Home \in Menus /\ MenuOf \in [Pages -> Menus] /\ Empty \notin Terms
    /\ \A p \in Pages : <<p, p>> \in Inside

VARIABLES
    named,    \* the links whose text contains each term
    content,  \* the pages whose title or content in the index does
    index,    \* the fetched index: "loading", "loaded" or "failed"
    term,     \* the text in the search box
    links, menus  \* the links and submenus that are displayed

menuVars == <<named, content, index, term, links, menus>>

MenuInit ==
    /\ named \in [Terms -> SUBSET Pages] /\ content \in [Terms -> SUBSET Pages]
    /\ index = "loading" /\ term = Empty
    /\ links = Pages /\ menus = Menus

\* The index arrives; what is displayed is left as it is.
IndexArrives ==
    /\ index = "loading"
    /\ index' \in {"loaded", "failed"}
    /\ UNCHANGED <<named, content, term, links, menus>>

\* A page of the index stands for every link whose file name is part of its url.
ByContent(t) == {p \in Pages : \E u \in content[t] : <<p, u>> \in Inside}

\* Without an index only the texts of the links are searched.
Matches(t) == IF index = "loaded" THEN ByContent(t) \cup named[t] ELSE named[t]

\* Faulty: submenus are only ever hidden.
MenusHidden(shown) == {m \in menus : m = Home \/ \E p \in shown : MenuOf[p] = m}

\* The submenus with a displayed link; that of the home page stays as it is.
MenusFor(shown) == (menus \cap {Home}) \cup {MenuOf[p] : p \in shown}

Input(t) ==
    /\ t # term
    /\ term' = t
    /\ \/ t = Empty /\ links' = Pages /\ menus' = Menus
       \/ t # Empty /\ links' = Matches(t) /\ menus' = MenusFor(Matches(t))
    /\ UNCHANGED <<named, content, index>>

MenuNext == IndexArrives \/ \E t \in Terms \cup {Empty} : Input(t)
MenuSpec == MenuInit /\ [][MenuNext]_menuVars

\* Whatever was typed before, a match can be reached in the menu and no empty
\* submenu but that of the home page is displayed.
MenusFit ==
    /\ \A p \in links : MenuOf[p] \in menus
    /\ term # Empty => \A m \in menus \ {Home} : \E p \in links : MenuOf[p] = m
=============================================================================
