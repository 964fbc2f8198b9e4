------------------------------- MODULE Files -------------------------------
(***************************************************************************)
(* One file under os_file.c: calls that write it by several write(2), and  *)
(* a call that reads it by several read(2), at the same time.              *)
(*                                                                         *)
(* The file is either a log, written by appends only, or a record, which   *)
(* one writer at a time rewrites from its start, without truncating it.    *)
(* The i-th byte of the c-th call is <<c, i>>.  A call that cannot open    *)
(* the file changes nothing and is left out; so is EINTR, after which the  *)
(* loops try again.                                                        *)
(***************************************************************************)
EXTENDS Naturals, FiniteSetsExt, SequencesExt

CONSTANTS MaxBytes,    \* a bound of the model on the bytes of a call
          MaxCalls     \* a bound of the model on the number of calls

ASSUME FilesAssumption == MaxBytes \in Nat /\ MaxCalls \in Nat

VARIABLES use,      \* "log" or "record"
          bytes,    \* the contents of the file
          calls,    \* the calls that write, in the order they opened the file
          reader    \* the call that reads

fileVars == <<use, bytes, calls, reader>>

NotReading == [reading |-> FALSE, want |-> 0, got |-> <<>>, calm |-> TRUE]

FileInit ==
    /\ use \in {"log", "record"}
    /\ bytes = <<>>
    /\ calls = <<>>
    /\ reader = NotReading

Running == {c \in DOMAIN calls : ~calls[c].ended}

-----------------------------------------------------------------------------
(* Faulty operators, used by no specification: slips the properties must notice. *)

\* the buffer is not advanced after a partial write
ChunkFromStart(c, n) == [i \in 1 .. n |-> <<c, i>>]

-----------------------------------------------------------------------------
\* The n bytes of c that os_file_write writes next.
Chunk(c, n) == [i \in 1 .. n |-> <<c, calls[c].done + i>>]

\* os_file_append, os_file_write_str (and so os_trace2file and
\* os_file_key_write), os_file_rewrite: the file is open.
Open(n) ==
    /\ Len(calls) < MaxCalls
    /\ use = "record" => Running = {}
    /\ calls' = Append(calls, [len |-> n, done |-> 0, ended |-> FALSE, failed |-> FALSE])
    /\ UNCHANGED <<use, bytes, reader>>

\* write(2) writes some of what is left: at the end of a log, over a record.
WriteSome(c) ==
    /\ c \in Running
    /\ \E n \in 1 .. calls[c].len - calls[c].done :
          LET at == IF use = "log" THEN Len(bytes) ELSE calls[c].done
          IN  bytes' = SubSeq(bytes, 1, at) \o Chunk(c, n)
                       \o SubSeq(bytes, at + n + 1, Len(bytes))
              /\ calls' = [calls EXCEPT ![c].done = @ + n]
    /\ reader' = [reader EXCEPT !.calm = FALSE]
    /\ UNCHANGED use

\* write(2) fails or writes nothing.  os_file_write returns the error as an
\* unsigned number, which its callers take for success.
WriteNothing(c) ==
    /\ c \in Running /\ calls[c].done < calls[c].len
    /\ calls' = [calls EXCEPT ![c].ended = TRUE, ![c].failed = TRUE]
    /\ UNCHANGED <<use, bytes, reader>>

Close(c) ==
    /\ c \in Running /\ calls[c].done = calls[c].len
    /\ calls' = [calls EXCEPT ![c].ended = TRUE]
    /\ UNCHANGED <<use, bytes, reader>>

\* os_file_read2 and the loop of os_file_read
ReadOpen(n) ==
    /\ ~reader.reading
    /\ reader' = [reading |-> TRUE, want |-> n, got |-> <<>>, calm |-> TRUE]
    /\ UNCHANGED <<use, bytes, calls>>

ReadSome ==
    /\ reader.reading
    /\ \E n \in 1 .. reader.want - Len(reader.got) :
          LET at == Len(reader.got)
          IN  /\ at + n <= Len(bytes)
              /\ reader' = [reader EXCEPT !.got = @ \o SubSeq(bytes, at + 1, at + n)]
    /\ UNCHANGED <<use, bytes, calls>>

\* all of it, the end of the file, or an error
ReadClose ==
    /\ reader.reading
    /\ reader' = NotReading
    /\ UNCHANGED <<use, bytes, calls>>

FileNext ==
    \/ \E n \in 1 .. MaxBytes : Open(n)
    \/ \E c \in DOMAIN calls : WriteSome(c) \/ WriteNothing(c) \/ Close(c)
    \/ \E n \in 1 .. MaxBytes * MaxCalls : ReadOpen(n)
    \/ ReadSome \/ ReadClose

FileSpec == FileInit /\ [][FileNext]_fileVars

-----------------------------------------------------------------------------
Latest(i) == Max({c \in DOMAIN calls : calls[c].done >= i})

\* A log has the bytes each call has written, and no others, and those of one
\* call one after the other.
LogKeepsBytes ==
    /\ \A p \in DOMAIN bytes :
          \E c \in DOMAIN calls : \E i \in 1 .. calls[c].done : bytes[p] = <<c, i>>
    /\ \A c \in DOMAIN calls : \A i \in 1 .. calls[c].done :
          \E p \in DOMAIN bytes : bytes[p] = <<c, i>>
    /\ \A p, q \in DOMAIN bytes :
          p < q /\ bytes[p][1] = bytes[q][1] => bytes[p][2] < bytes[q][2]

RecordKeepsBytes == \A i \in DOMAIN bytes : bytes[i] = <<Latest(i), i>>

(***************************************************************************)
(* However the writes of several calls mix, a log holds of each call its   *)
(* bytes in order, none twice and none lost, and all of them when the call *)
(* has ended and no write failed; a record holds at each place the byte of *)
(* the last call that reached it, so that the end of a longer one shows    *)
(* behind a shorter one.  What is read is the beginning of the file as it  *)
(* is, in a log, and in a record if nothing was written meanwhile.         *)
(***************************************************************************)
FileKeepsBytes ==
    /\ IF use = "log" THEN LogKeepsBytes ELSE RecordKeepsBytes
    /\ \A c \in DOMAIN calls :
          calls[c].ended /\ ~calls[c].failed => calls[c].done = calls[c].len
    /\ use = "log" \/ reader.calm => IsPrefix(reader.got, bytes)
=============================================================================
