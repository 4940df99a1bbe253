--------------------------- MODULE AbstractFiles ---------------------------
(***************************************************************************)
(* What the file system calls promise, with no disk underneath: names are  *)
(* bound to files, a file is a row of bytes of fixed length, an opened     *)
(* file outlives its name, a running program's file does not change, and a *)
(* restart keeps the named files and their bytes and closes everything.    *)
(***************************************************************************)
EXTENDS Integers

CONSTANTS Process, Name, Fd, Id, Value, NULL,
          Position    \* positions in a file; a length is one too

VARIABLES names,    \* the file a name is bound to, or NULL
          bytes,    \* the contents of each existing file, NULL for the others
          opens,    \* the file and position of each descriptor
          running   \* the file each process runs

vars == <<names, bytes, opens, running>>

\* Files that are named, opened or run exist; the last one out ends a file.
Exists(id) == \/ \E n \in Name : names'[n] = id
              \/ \E p \in Process : \/ running'[p] = id
                                    \/ \E fd \in Fd : /\ opens'[p][fd] # NULL
                                                      /\ opens'[p][fd].id = id

Reap == bytes' = [id \in Id |-> IF Exists(id) THEN bytes[id] ELSE NULL]

\* The new file is any that did not exist; it begins as zeros.
Create(n) ==
  /\ names[n] = NULL /\ names'[n] \in Id
  /\ UNCHANGED <<opens, running>>
  /\ LET id == names'[n]
     IN  /\ names' = [names EXCEPT ![n] = id]
         /\ bytes[id] = NULL
         /\ \E length \in Position :
              bytes' = [bytes EXCEPT ![id] = [k \in 0 .. length - 1 |-> 0]]

Remove(n) ==
  /\ names[n] # NULL
  /\ names' = [names EXCEPT ![n] = NULL]
  /\ UNCHANGED <<opens, running>>
  /\ Reap

Open(p, fd, n) ==
  /\ opens[p][fd] = NULL /\ names[n] # NULL
  /\ opens' = [opens EXCEPT ![p][fd] = [id |-> names[n], pos |-> 0]]
  /\ UNCHANGED <<names, running, bytes>>

Close(p, fd) ==
  /\ opens[p][fd] # NULL
  /\ opens' = [opens EXCEPT ![p][fd] = NULL]
  /\ UNCHANGED <<names, running>>
  /\ Reap

Seek(p, fd, pos) ==
  /\ opens[p][fd] # NULL
  /\ opens' = [opens EXCEPT ![p][fd].pos = pos]
  /\ UNCHANGED <<names, running, bytes>>

\* The bytes from the old position up to the new one change, and no others.
Write(p, fd, v, new) ==
  /\ opens[p][fd] # NULL
  /\ opens' = [opens EXCEPT ![p][fd].pos = new]
  /\ UNCHANGED <<names, running>>
  /\ \A q \in Process : running[q] # opens[p][fd].id
  /\ LET old == opens[p][fd]
     IN  /\ old.pos .. new - 1 \subseteq DOMAIN bytes[old.id]
         /\ bytes' = [bytes EXCEPT ![old.id] =
              [k \in DOMAIN @ |-> IF k \in old.pos .. new - 1 THEN v ELSE @[k]]]

Run(p, n) ==
  /\ running[p] = NULL /\ names[n] # NULL
  /\ running' = [running EXCEPT ![p] = names[n]]
  /\ UNCHANGED <<names, opens, bytes>>

Exit(p) ==
  /\ opens' = [opens EXCEPT ![p] = [fd \in Fd |-> NULL]]
  /\ running' = [running EXCEPT ![p] = NULL]
  /\ UNCHANGED names
  /\ Reap

Restart ==
  /\ opens' = [p \in Process |-> [fd \in Fd |-> NULL]]
  /\ running' = [p \in Process |-> NULL]
  /\ UNCHANGED names
  /\ Reap

Init ==
  /\ names = [n \in Name |-> NULL]
  /\ bytes = [id \in Id |-> NULL]
  /\ opens = [p \in Process |-> [fd \in Fd |-> NULL]]
  /\ running = [p \in Process |-> NULL]

Next ==
  \/ \E n \in Name : Create(n) \/ Remove(n)
  \/ \E p \in Process :
       \/ \E n \in Name : Run(p, n)
       \/ \E fd \in Fd :
            \/ Close(p, fd)
            \/ \E n \in Name : Open(p, fd, n)
            \/ \E pos \in Position :
                 Seek(p, fd, pos) \/ \E v \in Value : Write(p, fd, v, pos)
       \/ Exit(p)
  \/ Restart

Spec == Init /\ [][Next]_vars
=============================================================================
