------------------------------- MODULE Files -------------------------------
(***************************************************************************)
(* A directory as the os package of Go shows it to the daemon: names that  *)
(* stand for files (inodes), and the data of every file.  A file that is   *)
(* open keeps its data when its name is taken away or given to another,    *)
(* and two goroutines that open one name write into one file.              *)
(***************************************************************************)
CONSTANTS Names,
          Inodes,  \* bound: files that exist or are open at one time
          NoFile,
          Empty    \* the data of a file that was just created or truncated

exists(fs, n) == fs.name[n] # NoFile

\* A file that no name and no descriptor stands for.
unused(fs, open) ==
  CHOOSE i \in Inodes : i \notin open /\ \A n \in Names : fs.name[n] # i

\* A file that nothing stands for any more is gone.
freed(fs, open) ==
  [name |-> fs.name,
   data |-> [i \in Inodes |-> IF i \in open \/ \E n \in Names : fs.name[n] = i
                              THEN fs.data[i] ELSE Empty]]

\* os.Create, and os.WriteFile before its write: the file of that name is
\* truncated, or i is created.
create(fs, n, i) ==
  LET k == IF exists(fs, n) THEN fs.name[n] ELSE i
  IN [name |-> [fs.name EXCEPT ![n] = k], data |-> [fs.data EXCEPT ![k] = Empty]]

write(fs, i, d) == [name |-> fs.name, data |-> [fs.data EXCEPT ![i] = d]]

\* os.Remove; a name that is not there is an error, and nothing happens.
remove(fs, n) == [name |-> [fs.name EXCEPT ![n] = NoFile], data |-> fs.data]

\* os.Rename of a name that is there.
rename(fs, a, b) ==
  [name |-> [fs.name EXCEPT ![b] = fs.name[a], ![a] = NoFile], data |-> fs.data]
=============================================================================
