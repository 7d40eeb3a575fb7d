------------------------------ MODULE LineInput ------------------------------
(***************************************************************************)
(* From blocks to lines: LineInputFormat::next (io/line_input_format.hpp)  *)
(* in the loading threads of BlockAssigner, over the file and the buffer   *)
(* that HDFSFileSplitter keeps (io/hdfs_file_splitter.cpp).                *)
(*                                                                         *)
(* A block is given without regard to lines.  The reader of a block leaves *)
(* what is before its first newline to the reader of the block before, and *)
(* reads on past its end to finish its last line.                          *)
(*                                                                         *)
(* The bytes of a file are NL or not.  A record is the interval of the     *)
(* file it was read from.  All files have one block size, hdfsRead neither *)
(* fails nor reads across the end of a block, and it returns nothing at    *)
(* the end of the file only.                                               *)
(***************************************************************************)
EXTENDS BlockAssigner, Sequences, FiniteSetsExt

CONSTANTS File,
          Byte, NL,      \* NL is the newline
          BlockSize,     \* hdfs_block_size
          Contents       \* contents the files may have

VARIABLES
  data,                  \* HDFS: the bytes of each file
  buffer,                \* buffer_, the block that a loader reads, or empty
  r,                     \* r, where the last record of the block ended
  at,                    \* where next goes on when it has a new block
  records                \* history: the records that next returned to each loader

input == <<data, buffer, r, at, records>>

\* The block sizes of HDFS are multiples of 512, and Block has all blocks of the
\* files.
ASSUME LineInputAssumption ==
  /\ BlockSize \in Nat \ {0, 1}
  /\ IsFiniteSet(Block)
  /\ Block \subseteq {<<f, k * BlockSize>> : f \in File, k \in 0 .. Cardinality(Block)}
  /\ Contents \subseteq [File -> Seq(Byte)]
  /\ \A d \in Contents : \A f \in File : \A k \in 0 .. Len(d[f]) :
       k * BlockSize < Len(d[f]) => <<f, k * BlockSize>> \in Block

(***************************************************************************)
(* browse_hdfs lists a block for every BlockSize bytes that a file has.    *)
(***************************************************************************)
LoadInit ==
  /\ Init
  /\ data \in Contents
  /\ \A b \in Block : (replicas[b] # {}) <=> b[2] < Len(data[b[1]])
  /\ buffer = [l \in Loader |-> <<>>]
  /\ r = [l \in Loader |-> 0]
  /\ at = [l \in Loader |-> "check"]
  /\ records = [l \in Loader |-> <<>>]

NPos == -1

\* find_next: the first newline at or after position from of a buffer.
FindNext(s, from) ==
  LET hits == {i \in from .. Len(s) - 1 : s[i + 1] = NL}
  IN IF hits = {} THEN NPos ELSE Min(hits)

\* file_ and offset_ of the splitter are those of the block that was given last.
CurrentFile(l) == answer[l][1]
Offset(l) == answer[l][2]

BlockEnd(l) == Offset(l) + Len(buffer[l])

\* fetch_block(true) has nothing more to read.
NoRestEver(l) == TRUE        \* mutant: a line ends with its block

NoRest(l) == BlockEnd(l) = Len(data[CurrentFile(l)])

\* handle_next_block: the end of the line that goes on after the block.
RestEnd(l) ==
  LET file == data[CurrentFile(l)]
      hit == FindNext(file, BlockEnd(l))
  IN IF hit = NPos THEN Len(file) ELSE hit

Returned(l, from, to) ==
  records' = [records EXCEPT ![l] = Append(@, <<CurrentFile(l), from, to>>)]

ClearBuffer(l) == buffer' = [buffer EXCEPT ![l] = <<>>] /\ r' = [r EXCEPT ![l] = 0]

-----------------------------------------------------------------------------
(* next, up to the next question to the master or to its return.           *)

\* The buffer is empty: fetch_new_block.
NextBlock(l) ==
  /\ buffer[l] = <<>>
  /\ AskMaster(l)
  /\ UNCHANGED input

InBlock(l) == loader[l] = "reading" /\ buffer[l] # <<>>

\* The last record ended with the last byte of the block.
BlockDone(l) == InBlock(l) /\ at[l] = "check" /\ r[l] = Len(buffer[l]) - 1

\* At the end of the file: fetch_new_block, and on without another look at r.
NextAtEnd(l) ==
  /\ BlockDone(l) /\ NoRest(l)
  /\ AskMaster(l)
  /\ ClearBuffer(l)
  /\ at' = [at EXCEPT ![l] = "scan"]
  /\ UNCHANGED <<data, records>>

\* The next line begins after the block.
NextFromRest(l) ==
  /\ BlockDone(l) /\ ~NoRest(l)
  /\ Returned(l, BlockEnd(l), RestEnd(l))
  /\ ClearBuffer(l)
  /\ UNCHANGED <<vars, data, at>>

\* l, where the next line begins in the buffer.
LeftNoSkip(l) ==             \* mutant: reads what the block before has read
  IF r[l] = 0 THEN (IF buffer[l][1] = NL THEN 1 ELSE 0) ELSE FindNext(buffer[l], r[l]) + 1

Left(l) ==
  IF Offset(l) = 0 /\ r[l] = 0 THEN (IF buffer[l][1] = NL THEN 1 ELSE 0)
  ELSE FindNext(buffer[l], r[l]) + 1

Scans(l) == InBlock(l) /\ ~BlockDone(l)

\* The line ends in the block.
NextLine(l) ==
  LET right == FindNext(buffer[l], Left(l))
  IN  /\ Scans(l) /\ right # NPos
      /\ Returned(l, Offset(l) + Left(l), Offset(l) + right)
      /\ r' = [r EXCEPT ![l] = right]
      /\ at' = [at EXCEPT ![l] = "check"]
      /\ UNCHANGED <<vars, data, buffer>>

\* The line does not end in the block.
NextLastLine(l) ==
  /\ Scans(l) /\ FindNext(buffer[l], Left(l)) = NPos
  /\ Returned(l, Offset(l) + Left(l), RestEnd(l))
  /\ ClearBuffer(l)
  /\ at' = [at EXCEPT ![l] = "check"]
  /\ UNCHANGED <<vars, data>>

\* The answer of the master: read_block, or next returns false.
BlockBytes(b) ==
  LET file == data[b[1]] IN SubSeq(file, b[2] + 1, Min({b[2] + BlockSize, Len(file)}))

TakeBlock(l) ==
  /\ TakeAnswer(l)
  /\ buffer' = IF answer[l] = NoBlock THEN buffer ELSE [buffer EXCEPT ![l] = BlockBytes(answer[l])]
  /\ UNCHANGED <<data, r, at, records>>

ReaderStep(l) ==
  \/ NextBlock(l) \/ NextAtEnd(l) \/ NextFromRest(l) \/ NextLine(l) \/ NextLastLine(l)
  \/ TakeBlock(l)
  \/ NotifyMaster(l) /\ UNCHANGED input

LoadNext == \E l \in Loader : ReaderStep(l) \/ (Serve(l) /\ UNCHANGED input)

loadVars == <<vars, input>>

LoadFairness ==
  \A l \in Loader : WF_loadVars(ReaderStep(l)) /\ WF_loadVars(Serve(l) /\ UNCHANGED input)

LoadSpec == LoadInit /\ [][LoadNext]_loadVars /\ LoadFairness

-----------------------------------------------------------------------------
\* What the files must be like: every block but the first has a newline ("what
\* if not found" in next), and no file has one byte only.
WellFormed(d) ==
  \A f \in File :
    /\ Len(d[f]) # 1
    /\ \A k \in 1 .. Len(d[f]) :
         k * BlockSize < Len(d[f]) =>
           \E i \in k * BlockSize + 1 .. Min({(k + 1) * BlockSize, Len(d[f])}) : d[f][i] = NL

LinesOf(f) ==
  {<<f, a, b>> : a \in {i \in 0 .. Len(data[f]) - 1 : i = 0 \/ data[f][i] = NL},
                 b \in {i \in 1 .. Len(data[f]) : i = Len(data[f]) \/ data[f][i + 1] = NL}}

Lines ==
  {x \in UNION {LinesOf(f) : f \in File} : x[2] < x[3] /\ \A i \in x[2] + 1 .. x[3] : data[x[1]][i] # NL}

\* The records of a loader with something in them, by their numbers.
NonEmpty(l) == {i \in DOMAIN records[l] : records[l][i][2] < records[l][i][3]}

(***************************************************************************)
(* next returns whole lines, and no line twice, whoever reads the blocks   *)
(* it begins and ends in and in whatever order: but for empty records,     *)
(* each one is a line of a file.                                           *)
(***************************************************************************)
LinesReadOnce ==
  WellFormed(data) =>
    \A l \in Loader : \A i \in NonEmpty(l) :
      /\ records[l][i] \in Lines
      /\ \A m \in Loader : \A k \in NonEmpty(m) : records[m][k] = records[l][i] => <<m, k>> = <<l, i>>

(***************************************************************************)
(* No line is lost: when all loaders are done, every line with something   *)
(* in it was returned to one of them (if HDFS was reached).                *)
(***************************************************************************)
NoLineLost ==
  (WellFormed(data) /\ connected /\ \A l \in Loader : loader[l] \in {"finished", "exit sent", "gone"})
    => \A line \in Lines : \E l \in Loader : \E i \in NonEmpty(l) : records[l][i] = line
=============================================================================
