-------------------------------- MODULE TodoTui --------------------------------
(* The todo tracker (src/examples/todo_tui.rs): a list in memory, a selection *)
(* and two modes of input, over a store that every key writes through to.     *)
(* The app never closes the store: it ends on `q`, or on the first error of   *)
(* the engine or of the terminal, and the next run finds what reached the     *)
(* files.  The engine is external; a write that fails may have left its entry *)
(* there all the same (module Store, RotationFails).                          *)
EXTENDS Integers, Sequences, SequencesExt

CONSTANTS
    Chars, Space,  \* what is typed; a space among it
    MaxLen,        \* bound: characters of a title
    MaxId,         \* bound: ids given out
    MaxRuns        \* bound: runs of the program

ASSUME TodoAssumption == Space \in Chars /\ {MaxLen, MaxId, MaxRuns} \subseteq Nat

VARIABLES
    store,      \* the engine, by id
    todos,      \* App::todos
    selected, next_id,
    mode, buf,  \* App::mode: "normal", or "adding" with what is typed so far
    running, failed,  \* the program runs; its last run ended with an error
    runs

appVars == <<todos, selected, next_id, mode, buf>>
todoVars    == <<store, appVars, running, failed, runs>>

Blank(title) == \A i \in DOMAIN title : title[i] = Space

Ids(list) == {list[i].id : i \in DOMAIN list}

Without(s, id)  == [j \in DOMAIN s \ {id} |-> s[j]]
With(s, id, x)  == [j \in DOMAIN s \cup {id} |-> IF j = id THEN x ELSE s[j]]
Content(todo)   == [title |-> todo.title, done |-> todo.done]
AsStore(list)   == [id \in Ids(list) |-> Content(CHOOSE t \in ToSet(list) : t.id = id)]

-----------------------------------------------------------------------------
(* App::open.                                                                *)

Listed(s) == {[id |-> j, title |-> s[j].title, done |-> s[j].done] : j \in DOMAIN s}

\* Mutant of Loaded: in the order of fold, which is none.
LoadedUnsorted(s) == SetToSeqs(Listed(s))

Sorted(list) == \A i, j \in DOMAIN list : i < j => list[i].id < list[j].id

\* What fold gives, sorted by id.
Loaded(s) == {list \in SetToSeqs(Listed(s)) : Sorted(list)}

\* Mutant of NextId: as many as there are.
NextIdCount(s) == IF DOMAIN s = {} THEN 0 ELSE Cardinality(DOMAIN s)

NextId(s) == IF DOMAIN s = {} THEN 0 ELSE Max(DOMAIN s) + 1

Open ==
    /\ ~running /\ runs < MaxRuns
    /\ todos' \in Loaded(store)
    /\ next_id' = NextId(store)
    /\ selected' = 0 /\ mode' = "normal" /\ buf' = <<>>
    /\ running' = TRUE /\ failed' = FALSE /\ runs' = runs + 1
    /\ UNCHANGED store

TodoInit ==
    /\ store = <<>> /\ todos = <<>>
    /\ selected = 0 /\ next_id = 0 /\ mode = "normal" /\ buf = <<>>
    /\ running = FALSE /\ failed = FALSE /\ runs = 0

-----------------------------------------------------------------------------
(* The keys of normal mode.                                                  *)

InMode(m) == running /\ mode = m

GoesOn == UNCHANGED <<running, failed>>
Fails  == running' = FALSE /\ failed' = TRUE

\* A write that succeeds, after which the app goes on, or that fails and ends it.
WriteThrough(s) ==
    \/ store' = s /\ GoesOn
    \/ store' \in {store, s} /\ Fails

Move(delta) ==
    /\ InMode("normal") /\ todos # <<>>
    /\ selected' = (selected + delta) % Len(todos)
    /\ UNCHANGED <<store, todos, next_id, mode, buf, running, failed, runs>>

\* toggle_selected: the list first, then the store.
Toggle ==
    /\ InMode("normal") /\ selected < Len(todos)
    /\ LET todo == [todos[selected + 1] EXCEPT !.done = ~@]
       IN  /\ todos' = [todos EXCEPT ![selected + 1] = todo]
           /\ WriteThrough(With(store, todo.id, Content(todo)))
    /\ UNCHANGED <<selected, next_id, mode, buf, runs>>

\* The last of the list is gone: the one before it is selected.
SelectedAfterDelete(left) == IF selected >= left /\ selected > 0 THEN selected - 1 ELSE selected

\* delete_selected.  When the store fails the selection is not corrected, nor used again.
Delete ==
    /\ InMode("normal") /\ selected < Len(todos)
    /\ todos' = RemoveAt(todos, selected + 1)
    /\ WriteThrough(Without(store, todos[selected + 1].id))
    /\ selected' = IF running' THEN SelectedAfterDelete(Len(todos) - 1) ELSE selected
    /\ UNCHANGED <<next_id, mode, buf, runs>>

\* merge or sync fails and ends the app; one that succeeds changes only the status line, which
\* is left out.
MergeOrSync ==
    /\ InMode("normal")
    /\ Fails
    /\ UNCHANGED <<store, appVars, runs>>

StartAdding ==
    /\ InMode("normal")
    /\ mode' = "adding" /\ buf' = <<>>
    /\ UNCHANGED <<store, todos, selected, next_id, running, failed, runs>>

\* `q`, or the terminal fails in either mode.
Quit ==
    /\ running
    /\ \/ mode = "normal" /\ running' = FALSE /\ UNCHANGED failed
       \/ Fails
    /\ UNCHANGED <<store, appVars, runs>>

-----------------------------------------------------------------------------
(* The keys while a title is typed.                                          *)

Type(c) ==
    /\ InMode("adding") /\ Len(buf) < MaxLen
    /\ buf' = Append(buf, c)
    /\ UNCHANGED <<store, todos, selected, next_id, mode, running, failed, runs>>

Backspace ==
    /\ InMode("adding") /\ buf # <<>>
    /\ buf' = Front(buf)
    /\ UNCHANGED <<store, todos, selected, next_id, mode, running, failed, runs>>

Cancel ==
    /\ InMode("adding")
    /\ mode' = "normal" /\ buf' = <<>>
    /\ UNCHANGED <<store, todos, selected, next_id, running, failed, runs>>

IdAfterAdd == next_id + 1

\* Enter: the store first, then the list, unless the title is blank.
AddTodo ==
    /\ InMode("adding")
    /\ mode' = "normal" /\ buf' = <<>>
    /\ IF Blank(buf)
       THEN UNCHANGED <<store, todos, selected, next_id, running, failed>>
       ELSE LET todo == [id |-> next_id, title |-> buf, done |-> FALSE]
            IN  /\ next_id < MaxId
                /\ WriteThrough(With(store, next_id, Content(todo)))
                /\ IF running'
                   THEN /\ next_id' = IdAfterAdd
                        /\ todos' = Append(todos, todo)
                        /\ selected' = Len(todos)
                   ELSE UNCHANGED <<todos, selected, next_id>>
    /\ UNCHANGED runs

TodoNext ==
    \/ Open \/ Toggle \/ Delete \/ MergeOrSync \/ StartAdding \/ Quit
    \/ \E delta \in {1, -1} : Move(delta)
    \/ \E c \in Chars : Type(c)
    \/ Backspace \/ Cancel \/ AddTodo

TodoSpec == TodoInit /\ [][TodoNext]_todoVars

-----------------------------------------------------------------------------
(* Properties.                                                               *)

\* Every variable keeps its type, and the selection is one of the list or 0.
TodoTypeOK ==
    /\ mode \in {"normal", "adding"} /\ buf \in UNION {[1..n -> Chars] : n \in 0..MaxLen}
    /\ next_id \in 0..MaxId
    /\ {running, failed} \subseteq BOOLEAN
    /\ running => selected < Len(todos) \/ selected = 0

\* While the app runs the list is the store, in the order of the ids, whichever of the two a
\* key changes first: the next run, which sorts what fold gives, shows the same list.
ListIsStore ==
    running => AsStore(todos) = store /\ Sorted(todos)

\* What is shown and selected is there, in this run and in the next.
ListIsRight == TodoTypeOK /\ ListIsStore

\* A key changes or deletes the selected todo and no other.  While a title is typed none is
\* changed: a new todo never takes the id of one in the store, of this run or an earlier one,
\* not even of one whose add failed and was stored all the same.
EditsOneTodo ==
    [][\A id \in DOMAIN store :
           (InMode("adding") \/ selected >= Len(todos) \/ id # todos[selected + 1].id)
               => id \in DOMAIN store' /\ store'[id] = store[id]]_todoVars
=============================================================================
