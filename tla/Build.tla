-------------------------------- MODULE Build -------------------------------
(***************************************************************************)
(* tools/build.c: the boot block and the five programs become one image,   *)
(* and words of the image are patched so that the boot block finds fsck,   *)
(* the kernel finds MM, FS and INIT, and FS, for MM, finds INIT.           *)
(*                                                                         *)
(* What reads those words is another program, on another machine: what     *)
(* main() of the kernel and load_ram() of FS make of them is at the end,   *)
(* with the memory as the boot block fills it.  A byte of the image is     *)
(* known by where it comes from.                                           *)
(***************************************************************************)
EXTENDS Integers

CONSTANTS Headers,       \* for each program, the headers its file may have
          IMAGE_BYTES    \* 1024 * IMAGE_SIZE

UWORD == 65536           \* values of a UWORD
CLICK == 16
SECTOR_SIZE == 512
PROG_ORG == 1536         \* BASE of the kernel, where sector 1 is loaded
DS_OFFSET == 4
INFO == 2

KERN == 0
MM == 1
FS == 2
INIT == 3
FSCK == 4
PROGRAMS == 0 .. 4
BOOT == 5                \* the boot block
OWN == 6                 \* what build itself writes

\* A header as read_header() reads it, and whether the data begins with the magic number.
Header == [text : 0 .. UWORD - 1, data : 0 .. UWORD - 1, bss : 0 .. UWORD - 1,
           sep : BOOLEAN, magic : BOOLEAN]

\* The kernel's first instructions and its table sizes[] (mpx88.asm) and the table data_org[]
\* of FS (head.asm) are there, whatever else is linked; 1440K are room for any five programs.
ASSUME HeadersAssumption ==
  /\ Headers \in [PROGRAMS -> SUBSET Header]
  /\ \A h \in Headers[KERN] : h.text > DS_OFFSET + 1 /\ h.data >= 16
  /\ \A h \in Headers[FS] : h.data >= 16
  /\ IMAGE_BYTES \in Nat
  /\ \A p \in PROGRAMS : \A h \in Headers[p] :
       SECTOR_SIZE + 5 * (h.text + h.data + h.bss + CLICK) <= IMAGE_BYTES

VARIABLES pc,         \* the function that main() calls next
          num,        \* and its argument
          image,      \* where each byte of the image comes from
          fpos,       \* where the next byte of the image is written
          sizes,
          cum_size,   \* bytes of MINIX
          all_size    \* and of fsck

made == <<pc, num, image, fpos, sizes, cum_size, all_size>>

Byte(program, at) == [of |-> program, at |-> at]
ZeroByte == Byte(OWN, 0)
-----------------------------------------------------------------------------
BuildInit ==
  /\ pc = "create_image" /\ num = KERN /\ image = <<>> /\ fpos = 0
  /\ sizes = [p \in PROGRAMS |-> [text |-> 0, data |-> 0, bss |-> 0, sep |-> FALSE, magic |-> FALSE]]
  /\ cum_size = 0 /\ all_size = 0

\* pexit(): an image that is left in the middle is used by nobody.
pexit == pc' = "failed" /\ UNCHANGED <<num, image, fpos, sizes, cum_size, all_size>>

create_image ==
  /\ pc = "create_image"
  /\ \/ pexit
     \/ /\ pc' = "copy1" /\ fpos' = 0
        /\ image' = [a \in 0 .. IMAGE_BYTES - 1 |-> ZeroByte]
        /\ UNCHANGED <<num, sizes, cum_size, all_size>>

\* wr_out(): the next bytes of the image are n bytes of a program, or zeros.
WithProgram(im, pos, program, n, zeros) ==
  [a \in DOMAIN im |->
     IF a \in pos .. pos + n - 1 THEN Byte(program, a - pos)
     ELSE IF a \in pos + n .. pos + n + zeros - 1 THEN ZeroByte ELSE im[a]]

copy1 ==
  /\ pc = "copy1"
  /\ \/ pexit
     \/ /\ pc' = "copy2"
        /\ image' = WithProgram(image, fpos, BOOT, SECTOR_SIZE, 0)
        /\ fpos' = fpos + SECTOR_SIZE
        /\ UNCHANGED <<num, sizes, cum_size, all_size>>

\* The sizes that are kept: bss is made longer until the next program is on a click.
tot_bytes(h) == (h.text + h.data + h.bss) % UWORD
filler(h) == IF tot_bytes(h) % 16 > 0 THEN 16 - (tot_bytes(h) % 16) ELSE 0

\* Mutant: the zeros are counted in the total only.
Filled_total_only(h) == h

Filled(h) == [h EXCEPT !.bss = (h.bss + filler(h)) % UWORD]

CopyFile(h) ==
  LET total == (tot_bytes(h) + filler(h)) % UWORD
      left_to_read == (h.text + h.data) % UWORD
      file == Filled(h)
  IN  /\ ~(h.sep /\ h.text % 16 # 0)
      /\ sizes' = [sizes EXCEPT ![num] = file]
      /\ cum_size' = IF num < FSCK THEN cum_size + total ELSE cum_size
      /\ all_size' = all_size + total
      /\ image' = WithProgram(image, fpos, num, left_to_read, file.bss)
      /\ fpos' = fpos + left_to_read + file.bss
      /\ pc' = IF num = FSCK THEN "patch1" ELSE "copy2"
      /\ num' = IF num = FSCK THEN num ELSE num + 1

\* A file may be too short or have no header, and then build ends.
copy2 == pc = "copy2" /\ (pexit \/ \E h \in Headers[num] : CopyFile(h))
-----------------------------------------------------------------------------
\* put_byte() for n words from "first" on, low byte first.  read_block() and write_block()
\* seek back to what fseek() returned, which is 0.
WithWords(im, first, n, words) ==
  [a \in DOMAIN im |->
     IF a \in first .. first + 2 * n - 1
       THEN LET word == words[(a - first) \div 2]
            IN  Byte(OWN, IF (a - first) % 2 = 0 THEN word % 256 ELSE word \div 256)
       ELSE im[a]]

Patched(im, next) ==
  image' = im /\ fpos' = 0 /\ pc' = next /\ UNCHANGED <<num, sizes, cum_size, all_size>>

\* The boot block learns how much to load and where fsck is.
fsck_cs == ((PROG_ORG + cum_size) \div CLICK) % UWORD
fsck_ds == IF sizes[FSCK].sep THEN (fsck_cs + sizes[FSCK].text \div CLICK) % UWORD ELSE fsck_cs
sectors == (all_size \div 512) % UWORD

ubuf == [i \in 0 .. 4 |-> CASE i = 0 -> (sectors + 1) % UWORD [] i = 1 -> fsck_ds
                            [] i = 2 -> 0 [] i = 3 -> fsck_cs [] i = 4 -> 43605]

patch1 ==
  /\ pc = "patch1"
  /\ IF cum_size % 16 # 0 THEN pexit
     ELSE Patched(WithWords(image, SECTOR_SIZE - 10, 5, ubuf), "patch2")

\* The magic number is at the beginning of a program's data, and nowhere else.
HasMagic(at, program) ==
  /\ sizes[program].magic
  /\ \A i \in 0 .. 1 : image[at + i] = Byte(program, sizes[program].text + i)

text_clicks(p) == IF sizes[p].sep THEN sizes[p].text \div CLICK ELSE 0
data_bytes(p) ==
  (IF sizes[p].sep THEN 0 ELSE sizes[p].text) + sizes[p].data + sizes[p].bss
data_clicks(p) == data_bytes(p) \div CLICK

\* The kernel learns how large everybody is, and where its data is.
data_offset == SECTOR_SIZE + sizes[KERN].text
all_clicks == [i \in 0 .. 7 |-> IF i % 2 = 0 THEN text_clicks(i \div 2) ELSE data_clicks(i \div 2)]
kernel_ds == [i \in 0 .. 0 |->
  (IF sizes[KERN].sep THEN PROG_ORG + sizes[KERN].text ELSE PROG_ORG) \div CLICK]

patch2 ==
  /\ pc = "patch2"
  /\ IF ~HasMagic(data_offset, KERN) THEN pexit
     ELSE Patched(WithWords(WithWords(image, data_offset, 8, all_clicks),
                            SECTOR_SIZE + DS_OFFSET, 1, kernel_ds), "patch3")

\* FS learns where INIT is, and how large; here its sizes are added up in UWORDs.
Length(p) == sizes[p].text + sizes[p].data + sizes[p].bss
fs_start == PROG_ORG + Length(KERN) + Length(MM)
init_org == fs_start + Length(FS)
mm_data == Length(KERN) + SECTOR_SIZE + sizes[MM].text
fbase == fs_start - PROG_ORG + SECTOR_SIZE + sizes[FS].text
init_words == [i \in 0 .. 2 |-> CASE i = 0 -> (init_org \div CLICK) % UWORD
                                  [] i = 1 -> text_clicks(INIT)
                                  [] i = 2 -> (data_bytes(INIT) % UWORD) \div CLICK]

patch3 ==
  /\ pc = "patch3"
  /\ IF ~HasMagic(mm_data, MM) \/ ~HasMagic(fbase, FS) THEN pexit
     ELSE Patched(WithWords(image, fbase + 4, 3, init_words), "done")

BuildNext == create_image \/ copy1 \/ copy2 \/ patch1 \/ patch2 \/ patch3

BuildSpec == BuildInit /\ [][BuildNext]_made
-----------------------------------------------------------------------------
(* The machine that is booted with the image.  The boot block loads sector *)
(* 1 and the following ones to PROG_ORG and jumps to fsck, which jumps to  *)
(* the kernel.  A word is known only if build wrote it.                    *)

Memory(a) == image[a - PROG_ORG + SECTOR_SIZE]

Known(byte) == IF byte.of = OWN THEN byte.at ELSE -1
Word(a) == Known(Memory(a)) + 256 * Known(Memory(a + 1))
BootWord(a) == Known(image[a]) + 256 * Known(image[a + 1])

\* Where the data of a program is in its data segment: behind the text if they share it.
DataAt(p) == IF sizes[p].sep THEN 0 ELSE sizes[p].text

\* sizes[] of the kernel (mpx88.asm), which loads its DS from the word at DS_OFFSET.
KernelSize(i) == Word(CLICK * Word(PROG_ORG + DS_OFFSET) + DataAt(KERN) + 2 * i)

\* The memory maps of MM, FS and INIT in the kernel.
mm_base == PROG_ORG \div CLICK + KernelSize(0) + KernelSize(1)
TextAt(p) ==
  mm_base + (IF p > MM THEN KernelSize(2) + KernelSize(3) ELSE 0)
          + (IF p > FS THEN KernelSize(4) + KernelSize(5) ELSE 0)
TextLen(p) == KernelSize(2 * p)
DataBase(p) == TextAt(p) + TextLen(p)
DataLen(p) == KernelSize(2 * p + 1)

\* FS gets INIT's origin and sizes from its data_org[] and passes them on to MM.
data_org(i) == Word(CLICK * DataBase(FS) + DataAt(FS) + 2 * i)
-----------------------------------------------------------------------------
\* Does byte k of the program's text, data and bss lie at address a?  data_org[] of FS is patched.
Lies(p, k, a) ==
  Memory(a) = (IF k < sizes[p].text + sizes[p].data THEN Byte(p, k) ELSE ZeroByte)
    \/ (p = FS /\ k - sizes[FS].text \in 4 .. 9)

\* The sizes are those of 16-bit programs: text, data and bss together are less than 64K.
AllFit == \A p \in PROGRAMS : Length(p) < UWORD

\* The segments that the kernel gives to MM, FS and INIT hold their text and their data and
\* bss, to the last byte; FS and MM take INIT for what the kernel takes it for; and CS and DS
\* of fsck are where it is.  This relates build.c to main() of the kernel, load_ram() of FS
\* and do_brk2() of MM, for every choice of sizes and of common or separate spaces.
MapsRight ==
  pc = "done" /\ AllFit =>
    /\ \A p \in {MM, FS, INIT} :
         /\ sizes[p].sep => CLICK * TextLen(p) = sizes[p].text
         /\ CLICK * (TextLen(p) + DataLen(p)) = Length(p)
         /\ \A k \in 0 .. Length(p) - 1 : Lies(p, k, CLICK * TextAt(p) + k)
    /\ data_org(INFO) = TextAt(INIT)
    /\ data_org(INFO + 1) = TextLen(INIT) /\ data_org(INFO + 2) = DataLen(INIT)
    /\ \A k \in 0 .. Length(FSCK) - 1 : Lies(FSCK, k, CLICK * BootWord(508) + k)
    /\ CLICK * BootWord(504) = CLICK * BootWord(508) + (IF sizes[FSCK].sep THEN sizes[FSCK].text ELSE 0)
=============================================================================
