-------------------------------- MODULE Tree --------------------------------
(***************************************************************************)
(* What the user of the image programs sees: directories, names in them,   *)
(* and what is in the files.                                               *)
(***************************************************************************)
EXTENDS FiniteSets

CONSTANTS Root, Node, Data      \* Data: what is put into files

VARIABLES entry,     \* triples: in a directory, a name, for a file or directory
          dirs,      \* which of them are directories
          content,   \* what is in a file
          ok         \* the last command did what it was to do

vars == <<entry, dirs, content, ok>>

Used == {Root} \cup {e[3] : e \in entry}
Files == Used \ dirs

RECURSIVE Above(_)
Above(d) == {d} \cup UNION {Above(e[1]) : e \in {f \in entry : f[3] = d}}

Init ==
  /\ ok = TRUE /\ Root \in dirs /\ dirs \subseteq Used /\ DOMAIN content = Files
  /\ \A e \in entry : e[1] \in dirs /\ Root \in Above(e[1])

Same(files) == \A f \in files : content'[f] = content[f]

\* put and cp: a new file or another content.  When that fails the file is spoiled.
Write(d, name, f) ==
  /\ d \in dirs
  /\ IF <<d, name, f>> \in entry THEN f \notin dirs /\ UNCHANGED entry
     ELSE /\ f \notin Used /\ \A e \in entry : e[1] # d \/ e[2] # name
          /\ entry' = entry \cup {<<d, name, f>>}
  /\ DOMAIN content' = Files \cup {f} /\ Same(Files \ {f}) /\ UNCHANGED dirs
  /\ ok' => content'[f] \in Data \cup {content[g] : g \in Files}

Link(d, name, f) ==
  /\ d \in dirs /\ f \in Files /\ \A e \in entry : e[1] # d \/ e[2] # name
  /\ entry' = entry \cup {<<d, name, f>>} /\ UNCHANGED <<dirs, content>>

Mkdir(d, name, new) ==
  /\ d \in dirs /\ new \notin Used /\ \A e \in entry : e[1] # d \/ e[2] # name
  /\ entry' = entry \cup {<<d, name, new>>} /\ dirs' = dirs \cup {new} /\ UNCHANGED content

\* rm, and rmdir of an empty directory.
Unlink(e) ==
  /\ \A f \in entry : f[1] # e[3]
  /\ entry' = entry \ {e} /\ dirs' = dirs \ {e[3]}
  /\ DOMAIN content' = {f \in Files : \E n \in entry \ {e} : n[3] = f} /\ Same(DOMAIN content')

\* A name goes to another place and takes that of a file, or of an empty directory; not to
\* a place below itself.
Move(e, d, name) ==
  LET over == {f \in entry : f[1] = d /\ f[2] = name}
      rest == (entry \ (over \cup {e})) \cup {<<d, name, e[3]>>}
  IN  /\ d \in dirs /\ e[3] \notin Above(d)
      /\ \A f \in over : (f[3] \in dirs <=> e[3] \in dirs) /\ \A g \in entry : g[1] # f[3]
      /\ entry' = rest /\ dirs' = dirs \ {f[3] : f \in over}
      /\ DOMAIN content' = {f \in Files : \E n \in rest : n[3] = f} /\ Same(DOMAIN content')

Next ==
  \/ UNCHANGED <<entry, dirs, content>>
  \/ entry' = entry /\ content' # content /\ \E e \in entry : Write(e[1], e[2], e[3])
  \/ entry' # entry /\ entry \subseteq entry'
     /\ \E n \in entry' \ entry :
          Write(n[1], n[2], n[3]) \/ Link(n[1], n[2], n[3]) \/ Mkdir(n[1], n[2], n[3])
  \/ \E e \in entry \ entry' : Unlink(e) \/ \E n \in entry' : Move(e, n[1], n[2])

Spec == Init /\ [][Next]_vars
=============================================================================
