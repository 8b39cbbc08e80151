------------------------------ MODULE FileMode ------------------------------
(***************************************************************************)
(* How the worker computes with st_mode: getattr replaces the permission   *)
(* bits of a file by what the user may do, mknod by the setting            *)
(* NewFileMode.  Both write the mode out as a decimal number that has its  *)
(* octal digits, change the last three digits, and read it back, in two    *)
(* loops.  Each turn of a loop is a step here.                             *)
(*                                                                         *)
(* The setting is read as an unsigned int and kept in an int: numbers from *)
(* half of U32 on become negative, pass the comparison with 777 and are    *)
(* subtracted.                                                             *)
(***************************************************************************)
EXTENDS Integers, FiniteSets

CONSTANTS Modes,      \* modes a file can have, or be created with
          U32,        \* 2^32: how many numbers an unsigned int has
          Settings,   \* numbers that NewFileMode may hold
          NotSet,     \* no setting NewFileMode
          NotANumber, \* a setting that toUInt does not accept
          Umask       \* the permission bits that the process's umask clears

Bits16 == 0..(2^16 - 1)

ASSUME FileModeAssumption ==
  /\ Modes \subseteq Bits16 /\ Settings \subseteq 0..(U32 - 1) /\ NotSet # NotANumber
  /\ U32 \in Nat /\ U32 % 2 = 0 /\ U32 \div 2 > 177777 /\ Umask \subseteq 0..8

VARIABLES operation, mode,      \* the operation, and the mode it begins with
          allowed, setting,     \* 4 r + 2 w + x of getPerms; NewFileMode
          pc, octalNumber, quotient, decimalnum, digit,
          res,                  \* the error, or 0: then decimalnum is the mode
          made                  \* the file that mknod has made, if any

modeVars == <<operation, mode, allowed, setting, pc, octalNumber, quotient, decimalnum, digit,
              res, made>>

Pow(b, n) == b^n
S_IFMT(m) == m \div 4096
EPERM == 1
EIO == 5
EACCES == 13
EINVAL == 22
FIFO == 1
CHR == 2
DIR == 4
BLK == 6
REG == 8
LNK == 10
SOCK == 12

ModeInit ==
  /\ operation \in {"getattr", "mknod"} /\ mode \in Modes
  /\ \/ operation = "getattr" /\ allowed \in 0..7 /\ setting = NotSet
     \/ operation = "mknod" /\ allowed = 0 /\ setting \in Settings \cup {NotSet, NotANumber}
  /\ pc = "start" /\ octalNumber = 0 /\ quotient = 0 /\ decimalnum = 0 /\ digit = 0 /\ res = 0
  /\ made = {}

Done(r) == pc' = "done" /\ res' = r
Fixed   == UNCHANGED <<operation, mode, allowed, setting>>
Rest    == UNCHANGED <<octalNumber, quotient, decimalnum, digit>>

\* C's / and %, which go towards zero; what an int holds after an unsigned int
\* is assigned to it; the bits of a number that a mode_t of the kernel has.
Quot(a, b) == IF a >= 0 THEN a \div b ELSE -((-a) \div b)
Rem(a, b)  == a - b * Quot(a, b)
ToInt(u)   == IF u < U32 \div 2 THEN u ELSE u - U32
Low16(n)   == n % 2^16

\* fs_mknod refuses devices before it asks the server
RefuseDevice ==
  /\ pc = "start" /\ operation = "mknod" /\ S_IFMT(mode) \in {BLK, CHR}
  /\ Done(-EINVAL) /\ Rest /\ Fixed /\ UNCHANGED made
StartLoop ==
  /\ pc = "start" /\ ~ (operation = "mknod" /\ S_IFMT(mode) \in {BLK, CHR})
  /\ quotient' = mode /\ pc' = "toOctal"
  /\ UNCHANGED <<octalNumber, decimalnum, digit, res, made>> /\ Fixed

\* for (int i = 0; quotient != 0; i++), in both operations
\* mutant: the last digit is lost
MutMoreDigits == quotient \div 8 # 0
MoreDigits == quotient # 0
ToOctal ==
  /\ pc = "toOctal" /\ MoreDigits
  /\ octalNumber' = octalNumber + (quotient % 8) * Pow(10, digit)
  /\ quotient' = quotient \div 8 /\ digit' = digit + 1
  /\ UNCHANGED <<pc, decimalnum, res, made>> /\ Fixed

Chop(o) == (o \div 1000) * 1000

SetPerms ==
  /\ pc = "toOctal" /\ ~ MoreDigits /\ operation = "getattr"
  /\ octalNumber' = Chop(octalNumber) + allowed * 100
  /\ pc' = "fromOctal" /\ digit' = 0 /\ decimalnum' = 0
  /\ UNCHANGED <<quotient, res, made>> /\ Fixed

ValidMode(s) == s \notin {NotSet, NotANumber} /\ ToInt(s) <= 777
\* mutant: the bits of set-uid, set-gid and sticky are cut off as well
MutWithSetting(o, s) == (o \div 10000) * 10000 + s
WithSetting(o, s) == Chop(o) + ToInt(s)
\* A mode that the kernel sends has a type, so octalNumber > 0 and the -EINVAL
\* for 0 is not reached.
SetNewFileMode ==
  /\ pc = "toOctal" /\ ~ MoreDigits /\ operation = "mknod"
  /\ ValidMode(setting)
  /\ octalNumber' = WithSetting(octalNumber, setting)
  /\ pc' = "fromOctal" /\ digit' = 0 /\ decimalnum' = 0
  /\ UNCHANGED <<quotient, res, made>> /\ Fixed
Deny ==
  /\ pc = "toOctal" /\ ~ MoreDigits /\ operation = "mknod"
  /\ ~ ValidMode(setting)
  /\ Done(-EACCES)
  /\ Rest /\ Fixed /\ UNCHANGED made

FromOctal ==
  /\ pc = "fromOctal" /\ octalNumber # 0
  /\ decimalnum' = decimalnum + Rem(octalNumber, 10) * Pow(8, digit)
  /\ octalNumber' = Quot(octalNumber, 10) /\ digit' = digit + 1
  /\ UNCHANGED <<pc, quotient, res, made>> /\ Fixed

PermBits(m)  == {i \in 0..8 : (m \div 2^i) % 2 = 1}
NewFile(m)   == [kind |-> m \div 512, perms |-> PermBits(m) \ Umask]
Creatable(m) == S_IFMT(m) \in {FIFO, REG, SOCK}
\* mkfifo and mknod make the file, without the bits of the umask, or fail.
Finish ==
  /\ pc = "fromOctal" /\ octalNumber = 0
  /\ \/ operation = "getattr" /\ Done(0) /\ UNCHANGED made
     \/ /\ operation = "mknod" /\ Creatable(Low16(decimalnum))
        /\ \/ made' = {NewFile(Low16(decimalnum))} /\ Done(0)
           \/ UNCHANGED made /\ Done(-EIO)
     \/ /\ operation = "mknod" /\ ~ Creatable(Low16(decimalnum))
        /\ Done(-EPERM) /\ UNCHANGED made
  /\ Rest /\ Fixed

ModeNext == RefuseDevice \/ StartLoop \/ ToOctal \/ SetPerms \/ SetNewFileMode \/ Deny \/ FromOctal \/ Finish
ModeSpec == ModeInit /\ [][ModeNext]_modeVars

-----------------------------------------------------------------------------
\* A setting that is the octal spelling of permission bits, and the number it
\* stands for.
Octal(s) == s <= 777 /\ \A n \in 0..2 : (s \div 10^n) % 10 < 8
Bits(s)  == 64 * ((s \div 100) % 10) + 8 * ((s \div 10) % 10) + (s % 10)

\* octalNumber stays within an int, for negative settings as well.
ModeTypeOK ==
  /\ mode \in Modes /\ allowed \in 0..7 /\ digit \in Nat
  /\ quotient \in Bits16 /\ decimalnum \in Int
  /\ octalNumber \in Int /\ -(U32 \div 2) <= octalNumber /\ octalNumber <= 177777
  /\ pc \in {"start", "toOctal", "fromOctal", "done"}
  /\ res \in {0, -EPERM, -EIO, -EACCES, -EINVAL}

\* The loops lose nothing: what getattr reports is the mode of the file, type
\* and special bits included, with the owner's bits set to what the user may do
\* and no other permission.
PermsReported ==
  operation = "getattr" /\ pc = "done" => decimalnum = (mode \div 512) * 512 + 64 * allowed

\* If NewFileMode is spelled in octal digits, a file is made of the type and with
\* the special bits it was asked for, and the permissions that the setting
\* spells, as far as the umask leaves them.
CreatedAsSet ==
  \A f \in made : Octal(setting) =>
    f = [kind |-> mode \div 512, perms |-> PermBits(Bits(setting)) \ Umask]

\* "Invalid default file mode for local files has been set. Denying file
\* creation.": a setting that is not an octal mode creates no file.  Not so for
\* 699 and other numbers up to 777 with a digit 8 or 9, nor for numbers from
\* half of U32 on: with 4294967295 (-1) a FIFO asked for with mode 010644 gets
\* the octal number 9999, which is 5265, a FIFO with set-group-ID and 0221; with
\* 4294878297 (-88999) a regular file becomes a FIFO.
InvalidModeDenied == \A f \in made : Octal(setting)
=============================================================================
