------------------------------- MODULE FileView -------------------------------
(***************************************************************************)
(* The web client's file list (webui/assets/app.js: applyFileFilters,      *)
(* loadFiles, the page buttons, the selection and deleteFiles) beside a    *)
(* server whose files come and go and which announces each change on the   *)
(* client's socket.  Requests overtake each other; announcements keep      *)
(* their order.  The socket stays open: WsClient models its breaks.        *)
(*                                                                         *)
(* fileQuery and fileType are one filter, the set of files it lets pass.   *)
(* Newer files have larger numbers.  A change of one file and its          *)
(* announcement are one step: to the client an announcement that is sent   *)
(* late is one that arrives late.  A deletion drops the cached index of    *)
(* the directory only after it has announced every file it removed.        *)
(***************************************************************************)
EXTENDS Integers, Sequences, FiniteSets

CONSTANTS
  Name,            \* files, numbered in the order of their modification
  Filters,         \* sets of files that the filters let pass
  FILE_PAGE_SIZE,
  MaxLoads,        \* bound: values of fileLoadSequence
  MaxDeletes,      \* bound: delete requests under way
  MaxNews          \* bound: announcements under way

ASSUME FileViewAssumption ==
  /\ Name \subseteq Nat /\ IsFiniteSet(Name)
  /\ Filters \subseteq SUBSET Name /\ Filters # {}
  /\ FILE_PAGE_SIZE \in Nat \ {0} /\ MaxLoads \in Nat
  /\ MaxDeletes \in Nat /\ MaxNews \in Nat

VARIABLES
  uploads,           \* the server's files
  leaving,           \* files removed and announced that the index may still hold
  news,              \* announcements under way: a deleted file, or New
  filter, filePage,  \* what the controls ask for
  fileLoadSequence,
  loads,             \* requests of loadFiles, with the server's answer
  deletes,           \* requests of deleteFiles, with the server's answer
  fileList, fileTotal,
  cards,             \* the files on the screen
  selectedFiles,
  held,              \* history: what the answer on the screen held of leaving
  failed             \* history: the newest request of loadFiles failed

serverSide == <<uploads, leaving, news>>
list == <<fileList, fileTotal, cards>>
loading == <<fileLoadSequence, loads, held, failed>>
fileViewVars == <<serverSide, filter, filePage, loading, deletes, list, selectedFiles>>

New == -1
NoAnswer == [total |-> -1, files |-> {}]

Pages(total) == (total + FILE_PAGE_SIZE - 1) \div FILE_PAGE_SIZE
MaxPage(total) == IF total = 0 THEN 1 ELSE Pages(total)

(* handleListFiles, for an index that lists files: a page beyond the last  *)
(* has none.                                                               *)
Listing(files, flt, page) ==
  LET found == files \intersect flt
      newer(f) == Cardinality({g \in found : g > f})
  IN  [total |-> Cardinality(found),
       files |-> {f \in found : newer(f) \div FILE_PAGE_SIZE = page - 1}]

FileViewInit ==
  /\ uploads \in SUBSET Name /\ leaving = {} /\ news = <<>>
  /\ filter \in Filters /\ filePage = 1
  /\ fileLoadSequence = 1 /\ held = {} /\ failed = FALSE
  /\ loads = {[sequence |-> 1, filter |-> filter, page |-> 1, answer |-> NoAnswer, held |-> {}]}
  /\ deletes = {}
  /\ fileList = {} /\ fileTotal = 0 /\ cards = {} /\ selectedFiles = {}

(* Whichever answer comes last is shown. *)
Newest_Any(load) == TRUE

Newest(load) == load.sequence = fileLoadSequence

-------------------------------------------------------------------------------
(* loadFiles, for the filter and page the controls have now; others are    *)
(* the requests that stay under way.                                       *)
LoadAmong(others) ==
  /\ fileLoadSequence < MaxLoads
  /\ fileLoadSequence' = fileLoadSequence + 1
  /\ loads' = others \union {[sequence |-> fileLoadSequence', filter |-> filter',
                              page |-> filePage', answer |-> NoAnswer, held |-> {}]}
  /\ held' = {} /\ failed' = FALSE

loadFiles == LoadAmong(loads)

(* An answer to the newest request, at a page that exists or beyond *)
LoadOk(load) ==
  /\ load.answer # NoAnswer
  /\ UNCHANGED <<serverSide, filter, deletes>>
  /\ IF ~Newest(load)
       THEN /\ loads' = loads \ {load}
            /\ UNCHANGED <<fileLoadSequence, held, failed, filePage, list, selectedFiles>>
       ELSE /\ fileList' = load.answer.files /\ fileTotal' = load.answer.total
            /\ IF load.page > MaxPage(fileTotal')
                 THEN /\ filePage' = MaxPage(fileTotal')
                      /\ LoadAmong(loads \ {load})
                      /\ UNCHANGED <<cards, selectedFiles>>
                 ELSE /\ filePage' = load.page
                      /\ cards' = fileList' /\ selectedFiles' = {}
                      /\ loads' = loads \ {load} /\ held' = load.held
                      /\ UNCHANGED <<fileLoadSequence, failed>>

LoadFails(load) ==
  /\ loads' = loads \ {load}
  /\ failed' = (failed \/ load.sequence = fileLoadSequence)
  /\ UNCHANGED <<serverSide, filter, filePage, fileLoadSequence, held, deletes, list,
                 selectedFiles>>

-------------------------------------------------------------------------------
(* The user *)

applyFileFilters(flt) ==
  /\ filter' = flt /\ filePage' = 1
  /\ loadFiles
  /\ UNCHANGED <<serverSide, deletes, list, selectedFiles>>

TurnPage ==
  /\ \/ filePage > 1 /\ filePage' = filePage - 1
     \/ filePage < MaxPage(fileTotal) /\ filePage' = filePage + 1
  /\ UNCHANGED filter
  /\ loadFiles
  /\ UNCHANGED <<serverSide, deletes, list, selectedFiles>>

Select(f) ==
  /\ f \in cards
  /\ selectedFiles' = IF f \in selectedFiles THEN selectedFiles \ {f} ELSE selectedFiles \union {f}
  /\ UNCHANGED <<serverSide, filter, filePage, loading, deletes, list>>

(* The box for the whole page works on fileList, which LoadOk may have     *)
(* replaced without drawing it.                                            *)
SelectAll(checked) ==
  /\ selectedFiles' = IF checked THEN selectedFiles \union fileList ELSE selectedFiles \ fileList
  /\ cards' = fileList
  /\ UNCHANGED <<serverSide, filter, filePage, loading, deletes, fileList, fileTotal>>

deleteFiles(names) ==
  /\ names # {} /\ Cardinality(deletes) < MaxDeletes
  /\ deletes' = deletes \union {[names |-> names, todo |-> names, deleted |-> {},
                                 answer |-> "none"]}
  /\ UNCHANGED <<serverSide, filter, filePage, loading, list, selectedFiles>>

DeleteOk(request) ==
  /\ request.answer = "ok"
  /\ deletes' = deletes \ {request}
  /\ selectedFiles' = selectedFiles \ request.names
  /\ UNCHANGED <<filter, filePage>> /\ loadFiles
  /\ UNCHANGED <<serverSide, list>>

DeleteFails(request) ==
  /\ deletes' = deletes \ {request}
  /\ UNCHANGED <<serverSide, filter, filePage, loading, list, selectedFiles>>

handleWSMessage ==
  /\ news # <<>> /\ news' = Tail(news)
  /\ selectedFiles' = selectedFiles \ {Head(news)}
  /\ UNCHANGED <<filter, filePage>> /\ loadFiles
  /\ UNCHANGED <<uploads, leaving, deletes, list>>

-------------------------------------------------------------------------------
(* The server, also for its other clients *)

(* The cached index is used while the directory's modification time is the *)
(* one it was made with; else it is made anew (FileIndex says when).       *)
Serve(load) ==
  /\ load.answer = NoAnswer
  /\ \E index \in {uploads, uploads \union leaving} :
       /\ loads' = (loads \ {load}) \union
                     {[load EXCEPT !.answer = Listing(index, load.filter, load.page),
                                   !.held = index \ uploads]}
       /\ leaving' = index \ uploads
  /\ UNCHANGED <<uploads, news, filter, filePage, fileLoadSequence, held, failed, deletes, list,
                 selectedFiles>>

Announce(what) == Len(news) < MaxNews /\ news' = Append(news, what)

Unlink(f) ==
  /\ f \in uploads /\ uploads' = uploads \ {f} /\ leaving' = leaving \union {f}
  /\ Announce(f)

Becomes(request, served) == deletes' = (deletes \ {request}) \union {served}

(* handleDeleteFile, one name after the other: a file that is not there is *)
(* passed over ...                                                         *)
DeleteOne(request, f) ==
  /\ request.answer = "none" /\ f \in request.todo
  /\ \/ /\ Unlink(f)
        /\ Becomes(request, [request EXCEPT !.todo = @ \ {f}, !.deleted = @ \union {f}])
     \/ /\ f \notin uploads /\ UNCHANGED serverSide
        /\ Becomes(request, [request EXCEPT !.todo = @ \ {f}])
  /\ UNCHANGED <<filter, filePage, loading, list, selectedFiles>>

(* ... and the batch may fail half-way.  The client sees the end of the    *)
(* answer when the handler has returned, after the deferred invalidation.  *)
EndDelete(request) ==
  /\ request.answer = "none"
  /\ Becomes(request, [request EXCEPT !.answer = IF request.todo = {} THEN "ok" ELSE "error"])
  /\ leaving' = IF request.deleted # {} THEN {} ELSE leaving
  /\ UNCHANGED <<uploads, news, filter, filePage, loading, list, selectedFiles>>

(* A publication invalidates the index before it is announced.  A deletion *)
(* that ends or a list requested after the directory's modification time   *)
(* has changed make the index anew.                                        *)
OtherClients ==
  /\ \/ \E f \in Name \ uploads : uploads' = uploads \union {f} /\ leaving' = {} /\ Announce(New)
     \/ \E f \in uploads : Unlink(f)
     \/ leaving # {} /\ leaving' = {} /\ UNCHANGED <<uploads, news>>
  /\ UNCHANGED <<filter, filePage, loading, deletes, list, selectedFiles>>

FileViewNext ==
  \/ \E load \in loads : LoadOk(load) \/ LoadFails(load) \/ Serve(load)
  \/ \E flt \in Filters : applyFileFilters(flt)
  \/ TurnPage
  \/ \E f \in Name : Select(f)
  \/ \E f \in cards : deleteFiles({f})
  \/ \E checked \in BOOLEAN : SelectAll(checked)
  \/ deleteFiles(selectedFiles)
  \/ \E request \in deletes :
       DeleteOk(request) \/ DeleteFails(request) \/ EndDelete(request)
       \/ \E f \in request.todo : DeleteOne(request, f)
  \/ handleWSMessage
  \/ OtherClients

FileViewSpec == FileViewInit /\ [][FileViewNext]_fileViewVars

-------------------------------------------------------------------------------
(* However answers, announcements and clicks overtake each other: when     *)
(* everything has arrived and the newest request did not fail, the screen  *)
(* shows the page of the server's files that the controls ask for, and     *)
(* only files on the screen are selected (app.js 615-651, 723-729,         *)
(* 979-996).  It may also show files that were removed, those only that    *)
(* the index held when it answered: the deletion is announced before the   *)
(* index is invalidated, and nothing reloads the list after that           *)
(* (upload.go:1237-1257).                                                  *)
ListSettles ==
  loads = {} /\ news = <<>> /\ ~failed =>
    /\ cards = Listing(uploads \union held, filter, filePage).files /\ fileList = cards
    /\ selectedFiles \subseteq cards

===============================================================================
