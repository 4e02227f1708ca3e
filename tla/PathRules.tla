----------------------------- MODULE PathRules -----------------------------
(***************************************************************************)
(* The text rules that decide which folder a Graph call addresses:         *)
(* split_path and encode_path for a caller's path, parse_root_url for the  *)
(* configured root.  A path is the sequence of its segments, between       *)
(* slashes; percent-coding, letter case and the host name are left out.    *)
(***************************************************************************)
EXTENDS Integers, SequencesExt

CONSTANTS
    NameOrder,      \* names that SharePoint allows, in the order Graph lists them
    DefaultLibrary  \* the site's default document library

\* None of the characters that SharePoint forbids, no space or dot at an end, not too long.
Names == ToSet(NameOrder)

ASSUME NameAssumption ==
    /\ NameOrder \in Seq(STRING) /\ IsInjective(NameOrder)
    /\ DefaultLibrary \in Names
    /\ Names \cap {"", ".", "..", "sites", "teams", "Forms", "AllItems.aspx"} = {}

\* What is left of a sequence when every element of a set is dropped: SelectSeq, as a
\* recursive function that proofs can unfold.
Without(s, dropped) ==
    LET kept[n \in 0 .. Len(s)] ==
            IF n = 0 THEN <<>>
            ELSE IF s[n] \in dropped THEN kept[n - 1] ELSE Append(kept[n - 1], s[n])
    IN  kept[Len(s)]

-----------------------------------------------------------------------------
(* A caller's path, below the root.                                        *)

MutantDotsPass(path) == ToSet(path) \subseteq Names \cup {"", ".", ".."}

IsAllowed(path) == ToSet(path) \subseteq Names \cup {"", "."}

split_path(path) == Without(path, {"", "."})

\* quote() keeps dots, and whoever resolves the URL takes ".." for one level up.
Addressed(segments) ==
    LET place[n \in 0 .. Len(segments)] ==
            IF n = 0 THEN <<>>
            ELSE IF segments[n] # ".." THEN Append(place[n - 1], segments[n])
            ELSE IF place[n - 1] = <<>> THEN <<>> ELSE Front(place[n - 1])
    IN  place[Len(segments)]

-----------------------------------------------------------------------------
(* The configured root: [path, id], the id as it is decoded from the query *)
(* of the address bar, or <<>>.                                            *)

ServerPath(url) == Without(IF url.id # <<>> THEN url.id ELSE url.path, {""})

\* The path of a site: <<>> for the tenant's root site.
IsSite(site) ==
    \/ site = <<>>
    \/ Len(site) = 2 /\ Head(site) \in {"sites", "teams"} /\ site[2] # ""

InSite(url) == ServerPath(url) # <<>> /\ Head(ServerPath(url)) \in {"sites", "teams"}

\* Not so for "has no site name".
IsRootUrl(url) == InSite(url) => Len(ServerPath(url)) >= 2

SiteOf(url) == IF InSite(url) THEN SubSeq(ServerPath(url), 1, 2) ELSE <<>>

\* Library and folders; a library opened in the browser ends in /Forms/AllItems.aspx.
InLibrary(url) ==
    LET rest == SubSeq(ServerPath(url), Len(SiteOf(url)) + 1, Len(ServerPath(url))) IN
    IF Len(rest) >= 2 /\ rest[2] = "Forms" THEN <<rest[1]>> ELSE rest

RootOf(url) == IF InLibrary(url) = <<>> THEN <<DefaultLibrary>> ELSE InLibrary(url)

\* The forms in which an operator may give a folder, its library first.
UrlsOf(site, folder) ==
    LET view == <<"">> \o site \o <<folder[1], "Forms", "AllItems.aspx">>
        place == <<"">> \o site \o folder
    IN
    {[path |-> place, id |-> <<>>],
     [path |-> Append(place, ""), id |-> <<>>],
     [path |-> view, id |-> place]}
    \cup {u \in {[path |-> view, id |-> <<>>]} : Len(folder) = 1}
    \cup {u \in {[path |-> <<"">> \o site, id |-> <<>>]} : folder = <<DefaultLibrary>>}
=============================================================================
