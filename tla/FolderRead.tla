----------------------------- MODULE FolderRead -----------------------------
(***************************************************************************)
(* list_files and read_file: one request, from the URL and the path it is  *)
(* given down to its Graph calls, while people and other requests go on    *)
(* changing the library.  Requests that read share nothing, so one of them *)
(* meets whatever any of them can meet.  Its audit record only repeats its *)
(* answer (see DriveTree).                                                 *)
(*                                                                         *)
(* Graph is external: it lists a folder by name, a page at a time, and the *)
(* link to the next page stands for the names after the last one given.    *)
(***************************************************************************)
EXTENDS PathRules

CONSTANTS
    Site,           \* the path of the site: <<>> or <<"sites", name>>
    Places,         \* the paths, from a library on, where an item may lie
    Roots,          \* the folders that may be configured as the root
    WrongUrls,      \* URLs that name no folder of the site
    RawPaths,       \* what callers send as a path
    Trees,          \* what may lie in the site when the request arrives
    Sizes,          \* how long a file may be
    FirstId,        \* the id of the next item that is made
    PAGE_SIZE,      \* LIST_PAGE_SIZE
    MAX_ITEMS,      \* LIST_MAX_ITEMS
    MAX_FILE_BYTES, \* sharepoint_max_file_bytes
    MAX_RETRIES,    \* retries of one Graph call
    MaxChanges      \* bound: changes to the library

ASSUME ReadAssumption ==
    /\ {PAGE_SIZE, MAX_ITEMS} \subseteq Nat \ {0}
    /\ Sizes \cup {MAX_FILE_BYTES, MAX_RETRIES, MaxChanges, FirstId} \subseteq Nat
    /\ RawPaths \subseteq Seq(STRING)

ASSUME SiteAssumption ==
    /\ Site \in Seq(STRING) /\ IsSite(Site)
    /\ Places \subseteq Seq(Names) \ {<<>>}
    /\ \A p \in Places : \A n \in 1 .. Len(p) : SubSeq(p, 1, n) \in Places
    /\ Roots \subseteq Places
    /\ WrongUrls \subseteq [path: Seq(STRING), id: Seq(STRING)]
    /\ \A u \in WrongUrls : \/ ~IsPrefix(Site, ServerPath(u))
                            \/ Site = <<>> /\ InSite(u)

\* An item keeps its id when it is saved or moved.
Items == [kind: {"file", "directory"}, id: Nat, size: Sizes \cup {0}]
Nothing == [kind |-> "none", id |-> 0, size |-> 0]

\* Whatever there is lies in folders.
InFolders(t) ==
    \A p, q \in Places : IsStrictPrefix(p, q) /\ t[q] # Nothing => t[p].kind = "directory"

ASSUME TreeAssumption ==
    /\ Trees \subseteq [Places -> Items \cup {Nothing}]
    /\ \A t \in Trees : InFolders(t) /\ \A p \in Places : t[p].id < FirstId

VARIABLES
    configured, \* the root folder that the operator means; <<>> if the URL is wrong
    url,        \* GATEWAY_SHAREPOINT_ROOT_URL, until it is parsed
    root,       \* the client's _root, from the library on
    operation,  \* "list", "list_recursive" or "read"
    path,       \* the request's path, until it is split
    rel,        \* its segments
    tree,       \* what lies in the site
    pc,         \* where the request is
    queue,      \* list_entries: folders to be listed, the one being read first
    cursor,     \* position of the last name of the page before, in NameOrder
    entries,    \* the paths and kinds gathered
    item,       \* read_file: the item found
    content,    \* read_file: what was downloaded
    tries,      \* retries spent on the call under way
    answer,     \* how the request was answered
    addressed,  \* history: the paths that its Graph calls addressed
    seen,       \* history: what lay at each path while it ran
    changes     \* how often the library changed

inputs == <<configured, url, root, operation, path, rel>>
listing == <<queue, cursor, entries>>
reading == <<item, content>>
vars == <<inputs, tree, pc, listing, reading, tries, answer, addressed, seen, changes>>

TypeOK ==
    /\ configured \in Roots \cup {<<>>}
    /\ root \in Seq(Names)
    /\ operation \in {"list", "list_recursive", "read"}
    /\ rel \in Seq(Names)
    /\ tree \in [Places -> Items \cup {Nothing}]
    /\ pc \in {"start", "admit", "look", "page", "content", "redirected", "done"}
    /\ queue \in Seq(Seq(Names))
    /\ cursor \in 0 .. Len(NameOrder)
    /\ entries \in Seq([path: Seq(Names), kind: {"file", "directory"}])
    /\ item \in Items \cup {Nothing} /\ content \in Items \cup {Nothing}
    /\ tries \in 0 .. MAX_RETRIES
    /\ answer \in {"none", "listed", "truncated", "bytes", "config_error", "bad_request",
                   "not_found", "too_large", "upstream"}
    /\ addressed \subseteq Seq(Names)
    /\ seen \in [Places -> SUBSET (Items \cup {Nothing})]
    /\ changes \in 0 .. MaxChanges

Init ==
    /\ \/ configured \in Roots /\ url \in UrlsOf(Site, configured)
       \/ configured = <<>> /\ url \in WrongUrls
    /\ root = <<>>
    /\ operation \in {"list", "list_recursive", "read"}
    /\ path \in RawPaths
    /\ rel = <<>>
    /\ tree \in {t \in Trees : configured # <<>> => t[configured].kind = "directory"}
    /\ pc = "start"
    /\ queue = <<>> /\ cursor = 0 /\ entries = <<>>
    /\ item = Nothing /\ content = Nothing
    /\ tries = 0
    /\ answer = "none"
    /\ addressed = {}
    /\ seen = [p \in Places |-> {}]
    /\ changes = 0

-----------------------------------------------------------------------------

Answer(result) ==
    /\ pc' = "done"
    /\ answer' = result
    /\ UNCHANGED tries

\* The next call, with its retries still to spend.
Call(step) ==
    /\ pc' = step
    /\ tries' = 0
    /\ UNCHANGED answer

\* Graph looks the site up.  There is no other: a client that is given the URL of another
\* site that exists, and that the app registration may read, works on that one.
SiteIsThere(u) == SiteOf(u) = Site

\* The client is made: parse_root_url, and the library is looked up.  (GatewayClient has
\* its calls; the library and the folder that a URL of the site names are there.)
ParseUrl ==
    /\ pc = "start"
    /\ url' = [path |-> <<>>, id |-> <<>>]
    /\ IF IsRootUrl(url) /\ SiteIsThere(url)
       THEN root' = RootOf(url) /\ Call("admit")
       ELSE Answer("config_error") /\ UNCHANGED root
    /\ UNCHANGED <<configured, operation, path, rel, tree, listing, reading, addressed,
                   seen, changes>>

\* split_path, and what needs no call: the root is a folder, whatever it holds.
Admit ==
    /\ pc = "admit"
    /\ path' = <<>>
    /\ IF ~IsAllowed(path)
       THEN Answer("bad_request") /\ UNCHANGED <<rel, queue>>
       ELSE /\ rel' = split_path(path)
            /\ \/ rel' # <<>> /\ Call("look") /\ UNCHANGED queue
               \/ rel' = <<>> /\ operation = "read" /\ Answer("bad_request") /\ UNCHANGED queue
               \/ rel' = <<>> /\ operation # "read" /\ Call("page") /\ queue' = <<rel'>>
    /\ seen' = [p \in Places |-> {tree[p]}]
    /\ UNCHANGED <<configured, url, root, operation, tree, cursor, entries, reading,
                   addressed, changes>>

At(p) == IF p \in Places THEN tree[p] ELSE Nothing

\* GET on the item, for either operation.
Look ==
    /\ pc = "look"
    /\ LET p == Addressed(root \o rel) IN
          /\ addressed' = addressed \cup {p}
          /\ \/ At(p).kind = "none" /\ Answer("not_found") /\ UNCHANGED <<item, queue>>
             \/ /\ At(p).kind = IF operation = "read" THEN "directory" ELSE "file"
                /\ Answer("bad_request") /\ UNCHANGED <<item, queue>>
             \/ /\ At(p).kind = "directory" /\ operation # "read"
                /\ queue' = <<rel>> /\ Call("page") /\ UNCHANGED item
             \/ /\ At(p).kind = "file" /\ operation = "read"
                /\ item' = At(p) /\ UNCHANGED queue
                /\ IF At(p).size > MAX_FILE_BYTES THEN Answer("too_large") ELSE Call("content")
    /\ UNCHANGED <<inputs, tree, cursor, entries, content, seen, changes>>

-----------------------------------------------------------------------------
(* list_entries: breadth first, page by page.                              *)

\* The names after the cursor that lie in the folder.
Following(folder) ==
    Without(SubSeq(NameOrder, cursor + 1, Len(NameOrder)),
            {n \in Names : At(Append(folder, n)).kind = "none"})

Position(name) == CHOOSE i \in DOMAIN NameOrder : NameOrder[i] = name

MutantNameOnly(names) ==
    [i \in DOMAIN names |-> [path |-> <<names[i]>>,
                             kind |-> At(root \o Append(Head(queue), names[i])).kind]]

EntriesOf(names) ==
    [i \in DOMAIN names |-> [path |-> Append(Head(queue), names[i]),
                             kind |-> At(root \o Append(Head(queue), names[i])).kind]]

MutantFirstPageOnly(names) == FALSE

\* "@odata.nextLink".
HasNextLink(names) == Len(names) > PAGE_SIZE

ReadPage ==
    LET names == Following(root \o Head(queue))
        page == SubSeq(names, 1, Min({PAGE_SIZE, Len(names)}))
        found == entries \o EntriesOf(page)
        folders == Without(EntriesOf(page), {e \in ToSet(EntriesOf(page)) : e.kind = "file"})
        known == queue \o (IF operation = "list" THEN <<>>
                           ELSE [i \in DOMAIN folders |-> folders[i].path])
    IN
    /\ pc = "page" /\ At(root \o Head(queue)).kind = "directory"
    /\ addressed' = addressed \cup {root \o Head(queue)}
    /\ IF Len(found) >= MAX_ITEMS
       THEN /\ entries' = SubSeq(found, 1, MAX_ITEMS)
            /\ Answer("truncated") /\ UNCHANGED <<queue, cursor>>
       ELSE /\ entries' = found
            /\ IF HasNextLink(names)
               THEN /\ cursor' = Position(Last(page))
                    /\ queue' = known /\ Call("page")
               ELSE /\ cursor' = 0 /\ queue' = Tail(known)
                    /\ IF Tail(known) = <<>> THEN Answer("listed") ELSE Call("page")
    /\ UNCHANGED <<inputs, tree, reading, seen, changes>>

\* The folder is gone by now, or a file lies there, which has no children or is refused.
ReadPageElsewhere ==
    /\ pc = "page" /\ At(root \o Head(queue)).kind # "directory"
    /\ addressed' = addressed \cup {root \o Head(queue)}
    /\ \/ Answer("not_found") /\ UNCHANGED listing
       \/ /\ At(root \o Head(queue)).kind = "file"
          /\ \/ Answer("bad_request") /\ UNCHANGED listing
             \/ /\ queue' = Tail(queue) /\ cursor' = 0 /\ UNCHANGED entries
                /\ IF queue' = <<>> THEN Answer("listed") ELSE Call("page")
    /\ UNCHANGED <<inputs, tree, reading, seen, changes>>

-----------------------------------------------------------------------------
(* read_file: _download, by the id of the item that was found.             *)

\* The file by now, wherever it lies; empty when it is gone.
Current == {tree[p] : p \in {q \in Places : tree[q].kind = "file" /\ tree[q].id = item.id}}

MutantSizeCheckedOnce(file) == content' = file /\ Answer("bytes")

\* The bytes are there, and are counted once more.
Deliver(file) ==
    /\ content' = file
    /\ Answer(IF file.size > MAX_FILE_BYTES THEN "too_large" ELSE "bytes")

\* GET .../content is redirected to another host, or answered.
Content ==
    /\ pc = "content"
    /\ \/ Current = {} /\ Answer("not_found") /\ UNCHANGED content
       \/ Current # {} /\ Call("redirected") /\ UNCHANGED content
       \/ \E file \in Current : Deliver(file)
    /\ UNCHANGED <<inputs, tree, listing, item, addressed, seen, changes>>

FollowRedirect ==
    /\ pc = "redirected"
    /\ \/ Current = {} /\ Answer("not_found") /\ UNCHANGED content
       \/ \E file \in Current : Deliver(file)
    /\ UNCHANGED <<inputs, tree, listing, item, addressed, seen, changes>>

-----------------------------------------------------------------------------

Calling == pc \in {"look", "page", "content", "redirected"}

MutantRetryForever ==
    /\ Calling
    /\ tries' = tries + 1
    /\ UNCHANGED <<inputs, tree, pc, listing, reading, answer, addressed, seen, changes>>

MutantCountedAnew ==
    /\ Calling
    /\ tries' = (tries + 1) % (MAX_RETRIES + 1)
    /\ UNCHANGED <<inputs, tree, pc, listing, reading, answer, addressed, seen, changes>>

\* 429, 503 or 504.
Throttled ==
    /\ Calling /\ tries < MAX_RETRIES
    /\ tries' = tries + 1
    /\ UNCHANGED <<inputs, tree, pc, listing, reading, answer, addressed, seen, changes>>

\* Graph cannot be reached, denies access, or is still throttling.
CallFails ==
    /\ Calling
    /\ Answer("upstream")
    /\ UNCHANGED <<inputs, tree, listing, reading, addressed, seen, changes>>

\* The library becomes t while the request runs; what came before is in Trees.
Becomes(t) ==
    /\ changes < MaxChanges /\ Calling
    /\ tree' = t
    /\ seen' = [p \in Places |-> seen[p] \cup {t[p]}]
    /\ changes' = changes + 1
    /\ UNCHANGED <<inputs, pc, listing, reading, tries, answer, addressed>>

Empty(p) == tree[p].kind = "none" /\ (Len(p) > 1 => At(Front(p)).kind = "directory")

\* No id is given twice.
NextId == FirstId + changes

Created(p) ==
    /\ Empty(p)
    /\ \/ \E n \in Sizes : Becomes([tree EXCEPT ![p] = [kind |-> "file", id |-> NextId, size |-> n]])
       \/ Becomes([tree EXCEPT ![p] = [kind |-> "directory", id |-> NextId, size |-> 0]])

Saved(p) ==
    /\ tree[p].kind = "file"
    /\ \E n \in Sizes \ {tree[p].size} : Becomes([tree EXCEPT ![p].size = n])

Deleted(p) ==
    /\ tree[p].kind # "none"
    /\ Becomes([q \in Places |-> IF IsPrefix(p, q) THEN Nothing ELSE tree[q]])

\* A file or folder is moved, with all that lies in it.
Moved(p, q) ==
    LET from(x) == p \o SubSeq(x, Len(q) + 1, Len(x)) IN
    /\ tree[p].kind # "none" /\ Empty(q) /\ ~IsPrefix(p, q)
    /\ \A x \in Places : IsPrefix(p, x) /\ tree[x].kind # "none"
                            => q \o SubSeq(x, Len(p) + 1, Len(x)) \in Places
    /\ Becomes([x \in Places |-> IF IsPrefix(q, x) THEN At(from(x))
                                 ELSE IF IsPrefix(p, x) THEN Nothing ELSE tree[x]])

Request ==
    \/ ParseUrl \/ Admit \/ Look
    \/ ReadPage \/ ReadPageElsewhere \/ Content \/ FollowRedirect
    \/ Throttled \/ CallFails

World ==
    LET below == {p \in Places : Len(p) > 1} IN
    \E p \in below : Created(p) \/ Saved(p) \/ Deleted(p) \/ \E q \in below : Moved(p, q)

Terminated == pc = "done" /\ UNCHANGED vars

Next == Request \/ World \/ Terminated

\* The event loop runs what can run, and every call ends with an answer or a timeout.
Spec == Init /\ [][Next]_vars /\ WF_vars(Request)

-----------------------------------------------------------------------------
(* What the code promises.                                                 *)

\* Whatever path is sent, and in whichever of its forms the root URL is configured, no
\* Graph call addresses anything but the configured folder and what lies below it
\* ("'..' is rejected outright, which is what keeps every request inside the root",
\* sharepoint_client.py:124), and exactly the URLs that name a folder are understood.
StaysBelowRoot ==
    /\ \A p \in addressed : IsPrefix(configured, p)
    /\ pc = "done" => (answer = "config_error" <=> configured = <<>>)

\* What a listing reports was there while it ran, as the kind it reports; nothing is
\* reported twice, whatever moves between its pages; and it is refused only if some
\* folder it had to read was gone, or was a file, by then (list_entries :508-532).
ListedWasThere ==
    LET kinds(p) == {x.kind : x \in seen[p]}
        below == {p \in Places : IsPrefix(root \o rel, p)}
    IN
    /\ \A i \in DOMAIN entries : entries[i].kind \in kinds(root \o entries[i].path)
    /\ IsInjective([i \in DOMAIN entries |-> entries[i].path])
    /\ operation # "read" /\ answer = "not_found" =>
          (root \o rel) \notin Places \/ \E p \in below : "none" \in kinds(p)
    /\ operation # "read" /\ answer = "bad_request" /\ addressed # {} =>
          \E p \in below : "file" \in kinds(p)

\* A listing that is not truncated has all that was there throughout, directly in the
\* folder or, if recursive, anywhere below it, although it reads page after page and
\* folder after folder of a changing tree; a truncated one has exactly the limit.
ListingIsComplete ==
    LET listed == {entries[i].path : i \in DOMAIN entries} IN
    /\ answer = "listed" =>
          \A p \in Places :
              /\ IsStrictPrefix(root \o rel, p) /\ Nothing \notin seen[p]
              /\ operation = "list" => Len(p) = Len(root \o rel) + 1
              => SubSeq(p, Len(root) + 1, Len(p)) \in listed
    /\ answer = "listed" => Len(entries) < MAX_ITEMS
    /\ answer = "truncated" => Len(entries) = MAX_ITEMS

\* read_file answers with the bytes of the very file that lay at the path while it ran,
\* as they were at some moment while it ran, and never with more than the limit, even
\* when the file grows, moves or is replaced between the check and the download; its
\* refusals were true (read_file and _download :534-555).
ReadIsHonest ==
    LET here == IF root \o rel \in Places THEN seen[root \o rel] ELSE {Nothing} IN
    /\ answer = "bytes" =>
          /\ content.size <= MAX_FILE_BYTES
          /\ content.id = item.id /\ item \in here
          /\ \E p \in Places : content \in seen[p]
    /\ operation = "read" /\ addressed # {} =>
          /\ answer = "not_found" => Nothing \in here
          /\ answer = "bad_request" => \E x \in here : x.kind = "directory"
          /\ answer = "too_large" =>
                \E p \in Places : \E x \in seen[p] : x.size > MAX_FILE_BYTES /\ x.id = item.id

\* Every request is answered: paging and retrying come to an end.
EveryReadEnds == <>(pc = "done")
=============================================================================
