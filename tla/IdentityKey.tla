---------------------------- MODULE IdentityKey ----------------------------
(***************************************************************************)
(* MainActivity.getIndentifierKey(): the key under which the server files  *)
(* all pictures of a phone. It is read from a file of the application when *)
(* an activity is created, made up and written when the file does not hold *)
(* one. The process may end between any two operations on the file, and    *)
(* the file system may refuse each of them.                                *)
(***************************************************************************)

CONSTANTS
  Keys,    \* the strings of IDENTITY_KEY_LENGTH that RandomString can make
  Short,   \* a string, or a file, of any other length
  NoFile,  \* the file does not exist
  NoKey    \* _identifierKey is null

ASSUME KeyAssumption ==
  /\ Keys # {} /\ {Short, NoFile, NoKey} \cap Keys = {}
  /\ Short # NoFile /\ Short # NoKey

VARIABLES
  faulty,  \* may an operation on the file fail?
  file,    \* what the file holds
  step,    \* where getIndentifierKey() is; "shown" after setText()
  key,     \* _identifierKey
  refused, \* this activity was told that a file that is there is not
  first    \* the first key that an activity ever showed

keyVars == <<faulty, file, step, key, refused, first>>

KeyTypeOK ==
  /\ faulty \in BOOLEAN
  /\ file \in Keys \cup {Short, NoFile}
  /\ step \in {"off", "open", "read", "create", "write", "shown"}
  /\ key \in Keys \cup {Short, NoKey}
  /\ refused \in BOOLEAN
  /\ first \in Keys \cup {Short, NoKey}

KeyInit ==
  /\ faulty \in BOOLEAN
  /\ file = NoFile
  /\ step = "off" /\ key = NoKey
  /\ refused = FALSE
  /\ first = NoKey
-----------------------------------------------------------------------------
\* nextString().
NewKey == step' = "create" /\ key' \in Keys

\* The key is returned to onCreate(), which shows it.
Show(k) ==
  /\ step' = "shown" /\ key' = k
  /\ first' = IF first = NoKey THEN k ELSE first

\* onCreate() of a new activity, in a new process or not.
getIndentifierKey ==
  /\ step \in {"off", "shown"}
  /\ step' = "open" /\ key' = NoKey
  /\ refused' = FALSE
  /\ UNCHANGED <<faulty, file, first>>

\* openFileInput(): what it throws is a FileNotFoundException, for a file that
\* is missing as for one it cannot open.
OpenInput ==
  /\ step = "open"
  /\ \/ file # NoFile /\ step' = "read" /\ UNCHANGED <<key, refused>>
     \/ file = NoFile /\ NewKey /\ UNCHANGED refused
     \/ faulty /\ file # NoFile /\ NewKey /\ refused' = TRUE
  /\ UNCHANGED <<faulty, file, first>>

\* Mutant: whatever was read is replaced by a new key.
ReadAndReplace ==
  /\ step = "read" /\ NewKey
  /\ UNCHANGED <<faulty, file, refused, first>>

\* The loop of read(), close() and the check of the length. An IOException
\* keeps what was read so far; if close() threw it, that is everything.
ReadInput ==
  /\ step = "read"
  /\ \/ file \in Keys /\ Show(file)
     \/ file = Short /\ NewKey /\ UNCHANGED first
     \/ faulty /\ \E k \in {Short, file} : Show(k)
  /\ UNCHANGED <<faulty, file, refused>>

\* openFileOutput() truncates the file; if it throws, the key is used unsaved.
CreateOutput ==
  /\ step = "create"
  /\ \/ step' = "write" /\ file' = Short /\ UNCHANGED <<key, first>>
     \/ faulty /\ Show(key) /\ UNCHANGED file
  /\ UNCHANGED <<faulty, refused>>

\* Mutant: the key is used and not written.
WriteNothing ==
  /\ step = "write" /\ Show(key)
  /\ UNCHANGED <<faulty, refused, file>>

\* write() and close(); if they throw, the key is used, whatever was written.
WriteOutput ==
  /\ step = "write" /\ Show(key)
  /\ file' \in {key} \cup (IF faulty THEN {Short} ELSE {})
  /\ UNCHANGED <<faulty, refused>>

\* The process ends, whatever it was doing.
KeyProcessEnds ==
  /\ step # "off"
  /\ step' = "off" /\ key' = NoKey
  /\ UNCHANGED <<faulty, file, refused, first>>
-----------------------------------------------------------------------------
KeyNext ==
  \/ getIndentifierKey \/ OpenInput \/ ReadInput \/ CreateOutput \/ WriteOutput
  \/ KeyProcessEnds

KeySpec == KeyInit /\ [][KeyNext]_keyVars
-----------------------------------------------------------------------------
\* Without faults of the file system one key serves all activities for ever,
\* although a process may end with the file truncated and not yet written: a
\* key is shown only after it was saved (MainActivity 141-181, 209).
OneKeyForLife == ~faulty /\ step = "shown" => key = first /\ key \in Keys

\* With faults, too, an intact key file is given up only by an activity that
\* could not open it; a read that fails half-way replaces nothing.
IntactKeyIsKept ==
  [][(file \in Keys /\ file' # file) => refused]_keyVars
=============================================================================
