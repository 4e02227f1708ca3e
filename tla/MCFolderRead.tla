---------------------------- MODULE MCFolderRead ----------------------------
(* Instances of FolderRead for TLC.                                        *)
EXTENDS FolderRead

TeamSite == <<"sites", "T">>

AllNames == <<"a", "b", "Docs">>

\* A library with two folders, a place in each, and one more below.
SmallPlaces == {<<"Docs">>, <<"Docs", "a">>, <<"Docs", "b">>, <<"Docs", "a", "a">>,
                <<"Docs", "a", "b">>, <<"Docs", "a", "b", "a">>}

LibraryOrFolder == {<<"Docs">>, <<"Docs", "a">>}

\* "has no site name", and the URL of a site that is not there.
OtherUrls == {[path |-> <<"", "sites">>, id |-> <<>>],
              [path |-> <<"", "teams", "T", "Docs", "a">>, id |-> <<>>]}

\* "", "/", "a", "./b/", "a//b", "..", "b/../..", and a name that SharePoint forbids.
SentPaths == {<<"">>, <<"", "">>, <<"a">>, <<".", "b", "">>, <<"a", "", "b">>, <<"..">>,
              <<"b", "..", "..">>, <<"a", "b*">>}

\* From places to items: folders are numbered, files have a size.
Holding(files, folders) ==
    [p \in SmallPlaces |->
        IF p \in DOMAIN files THEN [kind |-> "file", id |-> 10 + Len(p), size |-> files[p]]
        ELSE IF p \in folders THEN [kind |-> "directory", id |-> Len(p), size |-> 0]
        ELSE Nothing]

SmallTrees ==
    LET at(p, n) == [q \in {p} |-> n] IN
    {Holding(at(<<"Docs", "b">>, 1), {<<"Docs">>, <<"Docs", "a">>, <<"Docs", "a", "b">>}),
     Holding(at(<<"Docs", "a", "b">>, 1), {<<"Docs">>, <<"Docs", "a">>, <<"Docs", "b">>}),
     Holding(at(<<"Docs", "a", "b", "a">>, 2), {<<"Docs">>, <<"Docs", "a">>, <<"Docs", "a", "b">>})}
=============================================================================
