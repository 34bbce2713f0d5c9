---------------------------- MODULE Build_proofs ----------------------------
(***************************************************************************)
(* The proof that the image is put together right (Build): whatever sizes  *)
(* the programs have, the kernel and FS find in the patched words where    *)
(* everything lies.                                                        *)
(*                                                                         *)
(* The inductive invariant follows the steps of main(): the programs that  *)
(* are copied lie one behind the other, each on a click, and each function *)
(* that patches the image adds its words and spares all the rest.          *)
(***************************************************************************)
EXTENDS Build, TLAPS

\* Where a program begins in the image: behind the programs before it.
Place(p) ==
  SECTOR_SIZE + (IF p > 0 THEN Length(0) ELSE 0) + (IF p > 1 THEN Length(1) ELSE 0)
              + (IF p > 2 THEN Length(2) ELSE 0) + (IF p > 3 THEN Length(3) ELSE 0)

Cell(p, k) == IF k < sizes[p].text + sizes[p].data THEN Byte(p, k) ELSE ZeroByte

Laid(p) == \A k \in 0 .. Length(p) - 1 : image[Place(p) + k] = Cell(p, k)

LaidButPatched ==
  \A k \in 0 .. Length(FS) - 1 :
    k - sizes[FS].text \in 4 .. 9 \/ image[Place(FS) + k] = Cell(FS, k)

Numbers(p) ==
  /\ sizes[p].text \in Nat /\ sizes[p].data \in Nat /\ sizes[p].bss \in Nat
  /\ sizes[p].text < UWORD /\ sizes[p].data < UWORD /\ sizes[p].bss < UWORD

\* What copy2() knows of the sizes that it keeps.
Kept(p) ==
  /\ sizes[p].sep => sizes[p].text % 16 = 0
  /\ Length(p) < UWORD => Length(p) % 16 = 0
  /\ SECTOR_SIZE + 5 * Length(p) <= IMAGE_BYTES
  /\ p = KERN => sizes[p].text > 5 /\ sizes[p].data >= 16
  /\ p = FS => sizes[p].data >= 16

Patching == {"patch1", "patch2", "patch3", "done"}
Copied == IF pc = "copy2" THEN 0 .. num - 1 ELSE IF pc \in Patching THEN PROGRAMS ELSE {}

WordIs(a, w) == image[a] = Byte(OWN, w % 256) /\ image[a + 1] = Byte(OWN, w \div 256)

\* What the words of a clicks' place and of a program's text are.
Click(p) == (PROG_ORG + Place(p) - SECTOR_SIZE) \div CLICK
OwnText(p) == IF sizes[p].sep THEN sizes[p].text ELSE 0

BootWords ==
  /\ WordIs(508, Click(FSCK))
  /\ WordIs(504, Click(FSCK) + OwnText(FSCK) \div CLICK)

KernelWords ==
  /\ WordIs(SECTOR_SIZE + DS_OFFSET, (PROG_ORG + OwnText(KERN)) \div CLICK)
  /\ \A p \in 0 .. 3 :
       /\ WordIs(SECTOR_SIZE + sizes[KERN].text + 4 * p, text_clicks(p))
       /\ WordIs(SECTOR_SIZE + sizes[KERN].text + 4 * p + 2, data_clicks(p))

FSWords ==
  LET at == Place(FS) + sizes[FS].text
  IN  /\ WordIs(at + 4, Click(INIT))
      /\ WordIs(at + 6, text_clicks(INIT))
      /\ WordIs(at + 8, data_clicks(INIT))

SoFarFits == \A p \in Copied : Length(p) < UWORD

Started ==
  /\ num \in PROGRAMS /\ fpos \in Nat /\ cum_size \in Nat
  /\ DOMAIN sizes = PROGRAMS /\ \A p \in PROGRAMS : Numbers(p)
  /\ pc \in {"create_image", "copy1", "copy2", "failed"} \cup Patching
  /\ pc \in {"create_image", "copy1"} => num = KERN /\ cum_size = 0 /\ fpos = 0
  /\ pc \in {"copy1", "copy2"} \cup Patching => DOMAIN image = 0 .. IMAGE_BYTES - 1
  /\ \A p \in Copied : Kept(p)

Arranged ==
  /\ pc = "copy2" => fpos = Place(num) /\ cum_size = Place(num) - SECTOR_SIZE
  /\ pc = "patch1" => cum_size = Place(FSCK) - SECTOR_SIZE
  /\ pc \in {"copy2", "patch1", "patch2"} => \A p \in Copied : Laid(p)
  /\ pc = "patch3" => \A p \in 1 .. 4 : Laid(p)
  /\ pc = "done" => LaidButPatched /\ Laid(MM) /\ Laid(INIT) /\ Laid(FSCK)
  /\ pc \in {"patch2", "patch3", "done"} => BootWords
  /\ pc \in {"patch3", "done"} => KernelWords
  /\ pc = "done" => FSWords

BuildInv == Started /\ (SoFarFits => Arranged)
-----------------------------------------------------------------------------
(* Arithmetic of sizes and clicks.                                         *)

\* The numbers in a header.
LEMMA HeaderParts ==
  ASSUME NEW h \in Header
  PROVE  /\ h.text \in Nat /\ h.data \in Nat /\ h.bss \in Nat
         /\ h.text < UWORD /\ h.data < UWORD /\ h.bss < UWORD
<1>0. UWORD \in Nat
  BY DEF UWORD
<1>1. ASSUME NEW n \in 0 .. UWORD - 1 PROVE n \in Nat /\ n < UWORD
  BY <1>0
<1>2. h.text \in 0 .. UWORD - 1 /\ h.data \in 0 .. UWORD - 1 /\ h.bss \in 0 .. UWORD - 1
  BY Zenon DEF Header
<1> QED BY Zenon, <1>1, <1>2

\* What copy2() adds to a program, and how many bytes it counts for it.
LEMMA FillerRight ==
  ASSUME NEW h, h.text \in Nat, h.data \in Nat, h.bss \in Nat, h.bss < UWORD
  PROVE  LET bss == (h.bss + filler(h)) % UWORD
         IN  /\ bss \in Nat /\ bss < UWORD /\ bss <= h.bss + 15
             /\ h.text + h.data + bss < UWORD =>
                  /\ (h.text + h.data + bss) % 16 = 0
                  /\ (tot_bytes(h) + filler(h)) % UWORD = h.text + h.data + bss
<1> DEFINE tot == tot_bytes(h)
           fill == filler(h)
           bss == (h.bss + fill) % UWORD
<1>1. tot \in Nat /\ tot < 65536 /\ tot = (h.text + h.data + h.bss) % 65536
  BY DEF UWORD, tot_bytes
<1>2. fill = (IF tot % 16 > 0 THEN 16 - (tot % 16) ELSE 0)
  BY DEF filler
<1> HIDE DEF tot, fill
<1>3. fill \in Nat /\ fill < 16 /\ (tot + fill) % 16 = 0
  BY <1>1, <1>2
<1>4. bss \in Nat /\ bss < UWORD /\ bss <= h.bss + 15
  BY <1>3 DEF UWORD
<1>5. h.text + h.data + bss < UWORD =>
        (h.text + h.data + bss) % 16 = 0 /\ (tot + fill) % UWORD = h.text + h.data + bss
  <2>1. PICK t \in Nat, d \in Nat, b \in Nat : t = h.text /\ d = h.data /\ b = h.bss
    OBVIOUS
  <2>2. PICK x \in Nat : x = tot
    BY <1>1
  <2>3. PICK y \in Nat : y = fill
    BY <1>3
  <2>4. /\ x = (t + d + b) % 65536 /\ (x + y) % 16 = 0 /\ y < 16 /\ x < 65536
        /\ bss = (b + y) % 65536
    BY <1>1, <1>3, <2>1, <2>2, <2>3 DEF UWORD
  <2>5. PICK z \in Nat : z = (b + y) % 65536
    OBVIOUS
  <2>6. t + d + z < 65536 => (t + d + z) % 16 = 0 /\ (x + y) % 65536 = t + d + z
    BY <2>4, <2>5
  <2> HIDE DEF bss
  <2> QED BY <2>1, <2>2, <2>3, <2>4, <2>5, <2>6 DEF UWORD
<1> QED BY <1>4, <1>5 DEF tot, fill

LEMMA FilledRight ==
  ASSUME NEW h \in Header
  PROVE  /\ Filled(h) = [h EXCEPT !.bss = Filled(h).bss]
         /\ Filled(h).text = h.text /\ Filled(h).data = h.data /\ Filled(h).sep = h.sep
         /\ Filled(h).bss \in Nat /\ Filled(h).bss < UWORD /\ Filled(h).bss <= h.bss + 15
         /\ h.text + h.data + Filled(h).bss < UWORD =>
              /\ (h.text + h.data + Filled(h).bss) % 16 = 0
              /\ (tot_bytes(h) + filler(h)) % UWORD = h.text + h.data + Filled(h).bss
<1>1. /\ h.text \in Nat /\ h.data \in Nat /\ h.bss \in Nat /\ h.bss < UWORD
  BY Zenon, HeaderParts
<1>4. /\ Filled(h) = [h EXCEPT !.bss = Filled(h).bss]
      /\ Filled(h).bss = (h.bss + filler(h)) % UWORD
      /\ Filled(h).text = h.text /\ Filled(h).data = h.data /\ Filled(h).sep = h.sep
  BY Zenon DEF Filled, Header
<1>5. /\ Filled(h).bss \in Nat /\ Filled(h).bss < UWORD /\ Filled(h).bss <= h.bss + 15
      /\ h.text + h.data + Filled(h).bss < UWORD =>
           /\ (h.text + h.data + Filled(h).bss) % 16 = 0
           /\ (tot_bytes(h) + filler(h)) % UWORD = h.text + h.data + Filled(h).bss
  <2>1. h.text \in Nat /\ h.data \in Nat /\ h.bss \in Nat /\ h.bss < UWORD
    BY <1>1
  <2>2. Filled(h).bss = (h.bss + filler(h)) % UWORD
    BY <1>4
  <2> QED BY Zenon, <2>1, <2>2, FillerRight
<1> QED BY Zenon, <1>4, <1>5

\* The headers that may be: what the code relies on, and room for all programs.
LEMMA HeadersFit ==
  ASSUME NEW p \in PROGRAMS, NEW h \in Headers[p]
  PROVE  /\ h \in Header
         /\ SECTOR_SIZE + 5 * (h.text + h.data + h.bss + CLICK) <= IMAGE_BYTES
         /\ p = KERN => h.text > DS_OFFSET + 1 /\ h.data >= 16
         /\ p = FS => h.data >= 16
<1>1. h \in Header
  BY Zenon, HeadersAssumption
<1>2. SECTOR_SIZE + 5 * (h.text + h.data + h.bss + CLICK) <= IMAGE_BYTES
  BY Zenon, HeadersAssumption
<1>3. /\ p = KERN => h.text > DS_OFFSET + 1 /\ h.data >= 16
      /\ p = FS => h.data >= 16
  BY Zenon, HeadersAssumption
<1> QED BY Zenon, <1>1, <1>2, <1>3

\* What copy2() does when it does not end, in numbers: a program of t, d and b bytes to
\* whose bss zeros are added.
FileIs(t, d, b, z, left, total, f) ==
  /\ t < UWORD /\ d < UWORD /\ z < UWORD /\ z <= b + 15
  /\ f.text = t /\ f.data = d /\ f.bss = z /\ (f.sep => t % 16 = 0)
  /\ SECTOR_SIZE + 5 * (t + d + b + CLICK) <= IMAGE_BYTES
  /\ num = KERN => t > DS_OFFSET + 1 /\ d >= 16
  /\ num = FS => d >= 16
  /\ left = (t + d) % UWORD /\ total \in Nat
  /\ t + d + z < UWORD => (t + d + z) % 16 = 0 /\ total = t + d + z

FileCopied(z, left, total, f) ==
  /\ DOMAIN sizes' = PROGRAMS /\ sizes'[num] = f
  /\ \A p \in PROGRAMS : p # num => sizes'[p] = sizes[p]
  /\ cum_size' = IF num < FSCK THEN cum_size + total ELSE cum_size
  /\ image' = WithProgram(image, fpos, num, left, z)
  /\ fpos' = fpos + left + z
  /\ pc' = IF num = FSCK THEN "patch1" ELSE "copy2"
  /\ num' = IF num = FSCK THEN num ELSE num + 1

LEMMA Copy2Does ==
  ASSUME copy2, ~pexit, num \in PROGRAMS, DOMAIN sizes = PROGRAMS
  PROVE  /\ pc = "copy2"
         /\ \E t, d, b, z \in Nat : \E left, total, f :
              FileIs(t, d, b, z, left, total, f) /\ FileCopied(z, left, total, f)
<1>1. PICK h \in Headers[num] : CopyFile(h)
  BY Zenon DEF copy2
<1>2. /\ h \in Header /\ SECTOR_SIZE + 5 * (h.text + h.data + h.bss + CLICK) <= IMAGE_BYTES
      /\ num = KERN => h.text > DS_OFFSET + 1 /\ h.data >= 16
      /\ num = FS => h.data >= 16
  BY Zenon, HeadersFit
<1>3. /\ h.text \in Nat /\ h.data \in Nat /\ h.bss \in Nat
      /\ h.text < UWORD /\ h.data < UWORD /\ h.bss < UWORD
  BY Zenon, <1>2, HeaderParts
<1>4. /\ Filled(h).text = h.text /\ Filled(h).data = h.data /\ Filled(h).sep = h.sep
      /\ Filled(h).bss \in Nat /\ Filled(h).bss < UWORD /\ Filled(h).bss <= h.bss + 15
      /\ h.text + h.data + Filled(h).bss < UWORD =>
           /\ (h.text + h.data + Filled(h).bss) % 16 = 0
           /\ (tot_bytes(h) + filler(h)) % UWORD = h.text + h.data + Filled(h).bss
  BY Zenon, <1>2, FilledRight
<1>5. (tot_bytes(h) + filler(h)) % UWORD \in Nat
  <2>1. tot_bytes(h) \in Nat
    BY <1>3 DEF tot_bytes, UWORD
  <2>2. filler(h) \in Nat
    BY <2>1 DEF filler
  <2> QED BY <2>1, <2>2 DEF UWORD
<1>6. sizes' = [sizes EXCEPT ![num] = Filled(h)] /\ (h.sep => h.text % 16 = 0)
  BY Zenon, <1>1 DEF CopyFile
<1>7. /\ DOMAIN sizes' = PROGRAMS /\ sizes'[num] = Filled(h)
      /\ \A p \in PROGRAMS : p # num => sizes'[p] = sizes[p]
  BY Zenon, <1>6
<1>8. FileIs(h.text, h.data, h.bss, Filled(h).bss, (h.text + h.data) % UWORD,
             (tot_bytes(h) + filler(h)) % UWORD, Filled(h))
  BY Zenon, <1>2, <1>3, <1>4, <1>5, <1>6 DEF FileIs
<1>9. FileCopied(Filled(h).bss, (h.text + h.data) % UWORD,
                 (tot_bytes(h) + filler(h)) % UWORD, Filled(h))
  BY Zenon, <1>1, <1>7 DEF CopyFile, FileCopied
<1> QED BY Zenon, <1>3, <1>4, <1>8, <1>9 DEF copy2

\* What is known of a program stays known while its sizes stay.
LEMMA KeptStays ==
  ASSUME NEW p, Kept(p), Length(p)' = Length(p), sizes'[p] = sizes[p]
  PROVE  Kept(p)'
BY Zenon DEF Kept

\* While the sizes stay, so do the places of the programs.
LEMMA PlacesStay ==
  ASSUME sizes' = sizes
  PROVE  \A p : /\ Place(p)' = Place(p) /\ Length(p)' = Length(p) /\ Numbers(p)' = Numbers(p)
                /\ Kept(p)' = Kept(p) /\ Click(p)' = Click(p) /\ OwnText(p)' = OwnText(p)
                /\ text_clicks(p)' = text_clicks(p) /\ data_clicks(p)' = data_clicks(p)
BY ZenonT(60) DEF Place, Length, Numbers, Kept, Click, OwnText, text_clicks, data_clicks, data_bytes

LEMMA LaidStays ==
  ASSUME sizes' = sizes, NEW p, Laid(p),
         \A k \in 0 .. Length(p) - 1 : image'[Place(p) + k] = image[Place(p) + k]
  PROVE  Laid(p)'
BY Zenon, PlacesStay DEF Laid, Cell

\* A function that patches keeps what has no part in it.
LEMMA PatchedStarted ==
  ASSUME BuildInv, pc \in Patching, NEW im, NEW next \in Patching, Patched(im, next),
         DOMAIN im = 0 .. IMAGE_BYTES - 1
  PROVE  /\ Started' /\ sizes' = sizes /\ image' = im /\ pc' = next /\ cum_size' = cum_size
         /\ SoFarFits' = SoFarFits /\ Copied = PROGRAMS /\ Copied' = PROGRAMS
<1>1. /\ sizes' = sizes /\ image' = im /\ pc' = next /\ cum_size' = cum_size /\ num' = num
      /\ fpos' = 0
  BY Zenon DEF Patched
<1>2. Copied = PROGRAMS /\ Copied' = PROGRAMS
  BY <1>1 DEF Copied, Patching
<1>3. SoFarFits' = SoFarFits
  BY Zenon, <1>1, <1>2, PlacesStay DEF SoFarFits
<1>4. \A p \in PROGRAMS : Kept(p)' /\ Numbers(p)'
  BY Zenon, <1>1, <1>2, PlacesStay DEF BuildInv, Started
<1>5. num \in PROGRAMS /\ cum_size \in Nat /\ DOMAIN sizes = PROGRAMS
  BY Zenon DEF BuildInv, Started
<1>6. pc' \in Patching /\ pc' # "create_image" /\ pc' # "copy1"
  BY <1>1 DEF Patching
<1>7. Started'
  BY <1>1, <1>2, <1>4, <1>5, <1>6 DEF Started
<1> QED BY <1>1, <1>2, <1>3, <1>7

USE DEF KERN, MM, FS, INIT, FSCK, PROGRAMS, UWORD, CLICK, SECTOR_SIZE, PROG_ORG, DS_OFFSET, INFO

\* What is counted in clicks is counted without a rest.
LEMMA ClicksRight ==
  ASSUME NEW p \in PROGRAMS, Numbers(p), Kept(p), Length(p) < UWORD
  PROVE  /\ Length(p) \in Nat /\ Length(p) % 16 = 0
         /\ OwnText(p) \in Nat /\ OwnText(p) <= Length(p) /\ OwnText(p) % 16 = 0
         /\ text_clicks(p) \in Nat /\ 16 * text_clicks(p) = OwnText(p)
         /\ data_clicks(p) \in Nat /\ 16 * data_clicks(p) = Length(p) - OwnText(p)
         /\ OwnText(p) \div 16 = text_clicks(p)
<1>1. PICK t \in Nat, d \in Nat, b \in Nat : t = sizes[p].text /\ d = sizes[p].data /\ b = sizes[p].bss
  BY DEF Numbers
<1>2. Length(p) = t + d + b
  BY <1>1 DEF Length
<1>3. t + d + b < 65536 /\ (t + d + b) % 16 = 0 /\ (sizes[p].sep => t % 16 = 0)
  BY <1>1, <1>2 DEF Kept
<1>4. CASE sizes[p].sep
  <2>1. OwnText(p) = t /\ text_clicks(p) = t \div 16 /\ data_clicks(p) = (d + b) \div 16
    BY <1>1, <1>4 DEF OwnText, text_clicks, data_clicks, data_bytes
  <2>2. t % 16 = 0 /\ (d + b) % 16 = 0
    BY <1>3, <1>4
  <2>3. 16 * (t \div 16) = t /\ 16 * ((d + b) \div 16) = d + b /\ t \div 16 \in Nat /\ (d + b) \div 16 \in Nat
    BY <2>2
  <2> QED BY <1>2, <1>3, <2>1, <2>2, <2>3
<1>5. CASE ~sizes[p].sep
  <2>1. OwnText(p) = 0 /\ text_clicks(p) = 0 /\ data_clicks(p) = (t + d + b) \div 16
    BY <1>1, <1>5 DEF OwnText, text_clicks, data_clicks, data_bytes
  <2>2. 16 * ((t + d + b) \div 16) = t + d + b /\ (t + d + b) \div 16 \in Nat
    BY <1>3
  <2> QED BY <1>2, <1>3, <2>1, <2>2
<1> QED BY <1>4, <1>5

\* The programs that fit lie one behind the other, on clicks, and inside the image.
PlacesKnown(n) ==
  /\ Place(n) \in Nat /\ Place(n) >= SECTOR_SIZE /\ (Place(n) - SECTOR_SIZE) % 16 = 0
  /\ Place(n) <= SECTOR_SIZE + 4 * UWORD
  /\ 5 * (Place(n) - SECTOR_SIZE) <= n * (IMAGE_BYTES - SECTOR_SIZE)
  /\ \A p \in 0 .. n - 1 :
       /\ Place(p) \in Nat /\ Place(p) >= SECTOR_SIZE /\ (Place(p) - SECTOR_SIZE) % 16 = 0
       /\ Length(p) \in Nat /\ Place(p) + Length(p) <= Place(n)

AllNumbers == \A p \in PROGRAMS : Numbers(p)
FitUpTo(n) == \A p \in 0 .. n - 1 : Kept(p) /\ Length(p) < UWORD

LEMMA PlacesRight ==
  ASSUME NEW n \in PROGRAMS, AllNumbers, FitUpTo(n)
  PROVE  PlacesKnown(n)
<1>1. \A p \in PROGRAMS : Length(p) \in Nat
  BY DEF AllNumbers, Numbers, Length
<1>2. \A p \in 0 .. n - 1 : Length(p) % 16 = 0 /\ Length(p) < 65536
  BY DEF FitUpTo, Kept
<1>3. /\ Place(0) = 512 /\ Place(1) = 512 + Length(0) /\ Place(2) = 512 + Length(0) + Length(1)
      /\ Place(3) = 512 + Length(0) + Length(1) + Length(2)
      /\ Place(4) = 512 + Length(0) + Length(1) + Length(2) + Length(3)
  BY <1>1 DEF Place
<1>4. PICK l0 \in Nat, l1 \in Nat, l2 \in Nat, l3 \in Nat :
        l0 = Length(0) /\ l1 = Length(1) /\ l2 = Length(2) /\ l3 = Length(3)
  BY <1>1
<1>5. /\ n > 0 => l0 % 16 = 0 /\ l0 < 65536
      /\ n > 1 => l1 % 16 = 0 /\ l1 < 65536
      /\ n > 2 => l2 % 16 = 0 /\ l2 < 65536
      /\ n > 3 => l3 % 16 = 0 /\ l3 < 65536
  BY <1>2, <1>4
<1>6. /\ n > 1 => (l0 + l1) % 16 = 0
      /\ n > 2 => (l0 + l1 + l2) % 16 = 0
      /\ n > 3 => (l0 + l1 + l2 + l3) % 16 = 0
  BY <1>5
<1>7. /\ Place(n) \in Nat /\ Place(n) >= 512 /\ (Place(n) - 512) % 16 = 0
      /\ Place(n) <= 512 + 4 * 65536
  BY <1>3, <1>4, <1>5, <1>6
<1>8. ASSUME NEW p \in 0 .. n - 1
      PROVE  /\ Place(p) \in Nat /\ Place(p) >= 512 /\ (Place(p) - 512) % 16 = 0
             /\ Length(p) \in Nat /\ Place(p) + Length(p) <= Place(n)
  <2>1. p \in 0 .. 3 /\ p < n
    OBVIOUS
  <2>2. CASE p = 0
    BY <1>3, <1>4, <1>5, <1>6, <2>1, <2>2
  <2>3. CASE p = 1
    BY <1>3, <1>4, <1>5, <1>6, <2>1, <2>3
  <2>4. CASE p = 2
    BY <1>3, <1>4, <1>5, <1>6, <2>1, <2>4
  <2>5. CASE p = 3
    BY <1>3, <1>4, <1>5, <1>6, <2>1, <2>5
  <2> QED BY <2>1, <2>2, <2>3, <2>4, <2>5
<1>9. 5 * (Place(n) - 512) <= n * (IMAGE_BYTES - 512)
  <2>1. IMAGE_BYTES \in Nat
    BY HeadersAssumption
  <2>2. /\ n > 0 => 512 + 5 * l0 <= IMAGE_BYTES
        /\ n > 1 => 512 + 5 * l1 <= IMAGE_BYTES
        /\ n > 2 => 512 + 5 * l2 <= IMAGE_BYTES
        /\ n > 3 => 512 + 5 * l3 <= IMAGE_BYTES
    BY <1>4 DEF FitUpTo, Kept
  <2>3. CASE n = 0
    BY <1>3, <2>1, <2>3
  <2>4. CASE n = 1
    BY <1>3, <1>4, <2>1, <2>2, <2>4
  <2>5. CASE n = 2
    BY <1>3, <1>4, <2>1, <2>2, <2>5
  <2>6. CASE n = 3
    BY <1>3, <1>4, <2>1, <2>2, <2>6
  <2>7. CASE n = 4
    BY <1>3, <1>4, <2>1, <2>2, <2>7
  <2> QED BY <2>3, <2>4, <2>5, <2>6, <2>7
<1> QED BY <1>7, <1>8, <1>9 DEF PlacesKnown
-----------------------------------------------------------------------------
(* What the operations on the image do.                                    *)

\* The words that are put are there, and all other bytes are as before.
Inserted(im, new, first, n, words) ==
  /\ DOMAIN new = 0 .. IMAGE_BYTES - 1
  /\ \A a \in 0 .. IMAGE_BYTES - 1 : a < first \/ a >= first + 2 * n => new[a] = im[a]
  /\ \A i \in 0 .. n - 1 :
       /\ new[first + 2 * i] = Byte(OWN, words[i] % 256)
       /\ new[first + 2 * i + 1] = Byte(OWN, words[i] \div 256)

LEMMA WordsPut ==
  ASSUME NEW im, NEW n \in Nat, NEW first \in Nat, DOMAIN im = 0 .. IMAGE_BYTES - 1,
         first + 2 * n <= IMAGE_BYTES, NEW words
  PROVE  Inserted(im, WithWords(im, first, n, words), first, n, words)
<1> DEFINE new == WithWords(im, first, n, words)
<1>1. IMAGE_BYTES \in Nat
  BY HeadersAssumption
<1>2. DOMAIN new = 0 .. IMAGE_BYTES - 1
  BY DEF WithWords
<1>3. \A a \in 0 .. IMAGE_BYTES - 1 : a < first \/ a >= first + 2 * n => new[a] = im[a]
  BY <1>1 DEF WithWords
<1>4. ASSUME NEW i \in 0 .. n - 1
      PROVE  /\ new[first + 2 * i] = Byte(OWN, words[i] % 256)
             /\ new[first + 2 * i + 1] = Byte(OWN, words[i] \div 256)
  <2>1. /\ first + 2 * i \in 0 .. IMAGE_BYTES - 1 /\ first + 2 * i \in first .. first + 2 * n - 1
        /\ (first + 2 * i) - first = 2 * i /\ (2 * i) % 2 = 0 /\ (2 * i) \div 2 = i
    BY <1>1
  <2>2. /\ first + 2 * i + 1 \in 0 .. IMAGE_BYTES - 1 /\ first + 2 * i + 1 \in first .. first + 2 * n - 1
        /\ (first + 2 * i + 1) - first = 2 * i + 1 /\ (2 * i + 1) % 2 = 1 /\ (2 * i + 1) \div 2 = i
    BY <1>1
  <2>3. new[first + 2 * i] = Byte(OWN, words[i] % 256)
    BY <2>1 DEF WithWords
  <2>4. new[first + 2 * i + 1] = Byte(OWN, words[i] \div 256)
    BY <2>2 DEF WithWords
  <2> QED BY <2>3, <2>4
<1> QED BY <1>2, <1>3, <1>4 DEF Inserted

\* A program is written behind the one before, and everything else stays.
Behind(im, new, pos, program, n, zeros) ==
  /\ \A a \in 0 .. IMAGE_BYTES - 1 : a < pos => new[a] = im[a]
  /\ \A k \in 0 .. n + zeros - 1 : pos + k < IMAGE_BYTES =>
       new[pos + k] = IF k < n THEN Byte(program, k) ELSE ZeroByte

LEMMA ProgramPut ==
  ASSUME NEW im, NEW pos \in Nat, NEW program, NEW n \in Nat, NEW zeros \in Nat,
         DOMAIN im = 0 .. IMAGE_BYTES - 1
  PROVE  Behind(im, WithProgram(im, pos, program, n, zeros), pos, program, n, zeros)
<1> DEFINE new == WithProgram(im, pos, program, n, zeros)
<1>1. IMAGE_BYTES \in Nat
  BY HeadersAssumption
<1>3. \A a \in 0 .. IMAGE_BYTES - 1 : a < pos => new[a] = im[a]
  BY <1>1 DEF WithProgram
<1>4. ASSUME NEW k \in 0 .. n + zeros - 1, pos + k < IMAGE_BYTES
      PROVE  new[pos + k] = IF k < n THEN Byte(program, k) ELSE ZeroByte
  <2>1. pos + k \in DOMAIN im /\ (pos + k) - pos = k
    BY <1>1, <1>4
  <2>2. k < n <=> pos + k \in pos .. pos + n - 1
    BY <1>4
  <2>3. ~(k < n) => pos + k \in pos + n .. pos + n + zeros - 1
    BY <1>4
  <2> QED BY <2>1, <2>2, <2>3 DEF WithProgram
<1> QED BY <1>3, <1>4 DEF Behind

\* A word that was put is what is read.
LEMMA WordRead ==
  ASSUME NEW a \in Nat, NEW w \in Nat, WordIs(a, w)
  PROVE  Known(image[a]) + 256 * Known(image[a + 1]) = w
BY DEF WordIs, Known, Byte
-----------------------------------------------------------------------------
(* The invariant.                                                          *)

\* An image that is given up is not looked at.
LEMMA PexitStep ==
  ASSUME BuildInv, pexit
  PROVE  BuildInv'
<1>1. Copied' = {}
  BY DEF pexit, Copied, Patching
<1>2. Started'
  BY <1>1 DEF BuildInv, Started, pexit, Patching, Numbers
<1>3. Arranged'
  BY DEF Arranged, pexit
<1> QED BY <1>2, <1>3 DEF BuildInv

LEMMA BuildInitInv == BuildInit => BuildInv
<1> SUFFICES ASSUME BuildInit PROVE BuildInv
  OBVIOUS
<1>1. Copied = {}
  BY DEF BuildInit, Copied, Patching
<1>2. Started
  BY <1>1 DEF BuildInit, Started, Patching, Numbers
<1>3. Arranged
  BY DEF BuildInit, Arranged
<1> QED BY <1>2, <1>3 DEF BuildInv

LEMMA CreateStep ==
  ASSUME BuildInv, create_image
  PROVE  BuildInv'
<1>1. CASE pexit
  BY <1>1, PexitStep
<1>2. CASE ~pexit
  <2>1. /\ pc' = "copy1" /\ fpos' = 0 /\ DOMAIN image' = 0 .. IMAGE_BYTES - 1
        /\ UNCHANGED <<num, sizes, cum_size, all_size>>
    BY <1>2 DEF create_image
  <2>2. Copied' = {}
    BY <2>1 DEF Copied, Patching
  <2>3. Started'
    BY <2>1, <2>2 DEF create_image, BuildInv, Started, Patching, Numbers
  <2>4. Arranged'
    BY <2>1 DEF Arranged
  <2> QED BY <2>3, <2>4 DEF BuildInv
<1> QED BY <1>1, <1>2

LEMMA Copy1Step ==
  ASSUME BuildInv, copy1
  PROVE  BuildInv'
<1>1. CASE pexit
  BY <1>1, PexitStep
<1>2. CASE ~pexit
  <2>1. /\ pc = "copy1" /\ pc' = "copy2" /\ fpos' = fpos + 512
        /\ image' = WithProgram(image, fpos, BOOT, 512, 0)
        /\ UNCHANGED <<num, sizes, cum_size, all_size>>
    BY <1>2 DEF copy1
  <2>2. /\ num = 0 /\ cum_size = 0 /\ fpos = 0 /\ DOMAIN image = 0 .. IMAGE_BYTES - 1
        /\ DOMAIN sizes = PROGRAMS /\ \A p \in PROGRAMS : Numbers(p)
    BY <2>1 DEF BuildInv, Started
  <2>3. DOMAIN image' = 0 .. IMAGE_BYTES - 1
    BY <2>1, <2>2 DEF WithProgram
  <2>4. Copied' = {}
    BY <2>1, <2>2 DEF Copied
  <2>5. Started'
    BY <2>1, <2>2, <2>3, <2>4 DEF Started, Patching, Numbers
  <2>6. Place(num)' = 512
    BY <2>1, <2>2 DEF Place
  <2>7. Arranged'
    BY <2>1, <2>2, <2>4, <2>6 DEF Arranged
  <2> QED BY <2>5, <2>7 DEF BuildInv
<1> QED BY <1>1, <1>2

\* copy2() puts the next program behind the others, whose sizes and bytes stay.
LEMMA Copy2Step ==
  ASSUME BuildInv, copy2
  PROVE  BuildInv'
<1>1. CASE pexit
  BY <1>1, PexitStep
<1>2. CASE ~pexit
  <2> PICK n \in 0 .. 4 : n = num
    BY DEF BuildInv, Started
  <2>1. /\ pc = "copy2" /\ fpos \in Nat /\ cum_size \in Nat
        /\ DOMAIN sizes = PROGRAMS /\ \A p \in PROGRAMS : Numbers(p)
        /\ DOMAIN image = 0 .. IMAGE_BYTES - 1
        /\ Copied = 0 .. n - 1 /\ \A p \in 0 .. n - 1 : Kept(p)
    BY DEF BuildInv, Started, copy2, Copied
  <2> PICK t \in Nat, d \in Nat, b \in Nat, z \in Nat :
        \E left, total, f : FileIs(t, d, b, z, left, total, f) /\ FileCopied(z, left, total, f)
    BY <1>2, <2>1, Copy2Does
  <2>2. PICK left, total, f : FileIs(t, d, b, z, left, total, f) /\ FileCopied(z, left, total, f)
    OBVIOUS
  <2>3. /\ t < 65536 /\ d < 65536 /\ z < 65536 /\ z <= b + 15
        /\ f.text = t /\ f.data = d /\ f.bss = z /\ (f.sep => t % 16 = 0)
        /\ 512 + 5 * (t + d + b + 16) <= IMAGE_BYTES
        /\ n = 0 => t > 5 /\ d >= 16
        /\ n = 2 => d >= 16
        /\ left = (t + d) % 65536 /\ total \in Nat
        /\ t + d + z < 65536 => (t + d + z) % 16 = 0 /\ total = t + d + z
    BY <2>2 DEF FileIs
  <2>4. /\ DOMAIN sizes' = PROGRAMS /\ sizes'[n] = f
        /\ \A p \in PROGRAMS : p # n => sizes'[p] = sizes[p]
    BY <2>2 DEF FileCopied
  <2>5. /\ cum_size' = IF n < 4 THEN cum_size + total ELSE cum_size
        /\ image' = WithProgram(image, fpos, n, left, z)
        /\ fpos' = fpos + left + z
        /\ pc' = IF n = 4 THEN "patch1" ELSE "copy2"
        /\ num' = IF n = 4 THEN n ELSE n + 1
    BY <2>2 DEF FileCopied
  <2>6. /\ sizes'[n].text = t /\ sizes'[n].data = d /\ sizes'[n].bss = z
        /\ sizes'[n].sep => t % 16 = 0
    BY <2>3, <2>4
  <2>7. Numbers(n)' /\ Length(n)' = t + d + z
    BY <2>3, <2>6 DEF Numbers, Length
  <2>8. Kept(n)'
    <3>1. Length(n)' < 65536 => Length(n)' % 16 = 0
      BY <2>3, <2>7
    <3>2. 512 + 5 * Length(n)' <= IMAGE_BYTES
      <4>1. PICK l \in Nat : l = Length(n)' /\ l = t + d + z
        BY <2>7
      <4>2. IMAGE_BYTES \in Nat
        BY HeadersAssumption
      <4>3. 512 + 5 * l <= IMAGE_BYTES
        BY <2>3, <4>1, <4>2
      <4> QED BY <4>1, <4>3
    <3>3. /\ n = 0 => sizes'[n].text > 5 /\ sizes'[n].data >= 16
          /\ n = 2 => sizes'[n].data >= 16
      BY <2>3, <2>6
    <3> QED BY <2>6, <3>1, <3>2, <3>3 DEF Kept
  <2>9. \A p \in PROGRAMS : p # n => Numbers(p)' /\ Length(p)' = Length(p)
    <3> SUFFICES ASSUME NEW p \in PROGRAMS, p # n PROVE Numbers(p)' /\ Length(p)' = Length(p)
      BY Zenon
    <3>1. sizes'[p] = sizes[p] /\ Numbers(p)
      BY Zenon, <2>1, <2>4
    <3> QED BY <3>1 DEF Numbers, Length
  <2>10. \A p \in 0 .. n : Place(p)' = Place(p)
    BY <2>9 DEF Place
  <2>11. \A p \in 0 .. n - 1 : Kept(p)'
    <3> SUFFICES ASSUME NEW p \in 0 .. n - 1 PROVE Kept(p)'
      OBVIOUS
    <3>1. p \in PROGRAMS /\ p # n
      OBVIOUS
    <3>2. Length(p)' = Length(p) /\ sizes'[p] = sizes[p] /\ Kept(p)
      <4>1. Kept(p)
        BY <2>1
      <4>2. Length(p)' = Length(p)
        BY <2>9, <3>1
      <4>3. sizes'[p] = sizes[p]
        BY <2>4, <3>1
      <4> QED BY <4>1, <4>2, <4>3
    <3> QED BY <3>2, KeptStays
  <2>12. Copied' = 0 .. n
    <3>1. CASE n = 4
      BY <2>5, <3>1 DEF Copied, Patching
    <3>2. CASE n < 4
      <4>1. pc' = "copy2" /\ num' = n + 1 /\ (n + 1) - 1 = n
        BY <2>5, <3>2
      <4>2. Copied' = 0 .. num' - 1
        BY <4>1 DEF Copied
      <4>3. num' - 1 = n
        BY <4>1
      <4> QED BY <4>2, <4>3
    <3> QED BY <3>1, <3>2
  <2>13. DOMAIN image' = 0 .. IMAGE_BYTES - 1
    BY <2>1, <2>5 DEF WithProgram
  <2>14. Started'
    <3>1. fpos' \in Nat /\ cum_size' \in Nat /\ num' \in 0 .. 4
      BY <2>1, <2>3, <2>5
    <3>2. \A p \in PROGRAMS : Numbers(p)'
      BY <2>7, <2>9
    <3>3. \A p \in 0 .. n : Kept(p)'
      BY <2>8, <2>11
    <3>4. pc' \in {"copy2", "patch1"}
      BY <2>5
    <3> QED BY <2>4, <2>12, <2>13, <3>1, <3>2, <3>3, <3>4 DEF Started, Patching
  <2>15. ASSUME SoFarFits' PROVE Arranged'
    <3>1. \A p \in 0 .. n : Length(p)' < 65536
      BY <2>12, <2>15 DEF SoFarFits
    <3>2. SoFarFits /\ \A p \in 0 .. n - 1 : Length(p) < 65536
      BY <2>1, <2>9, <3>1 DEF SoFarFits
    <3>3. fpos = Place(n) /\ cum_size = Place(n) - 512 /\ \A p \in 0 .. n - 1 : Laid(p)
      BY <2>1, <3>2 DEF BuildInv, Arranged
    <3>4. /\ Place(n) \in Nat /\ Place(n) >= 512
          /\ 5 * (Place(n) - 512) <= n * (IMAGE_BYTES - 512)
          /\ \A p \in 0 .. n - 1 :
               Place(p) \in Nat /\ Length(p) \in Nat /\ Place(p) + Length(p) <= Place(n)
      <4>1. AllNumbers /\ FitUpTo(n) /\ n \in PROGRAMS
        BY <2>1, <3>2 DEF AllNumbers, FitUpTo
      <4>2. PlacesKnown(n)
        BY <4>1, PlacesRight
      <4> QED BY <4>2 DEF PlacesKnown
    <3>5. left = t + d /\ total = t + d + z /\ t + d + z < 65536
      BY <2>3, <2>7, <3>1
    <3>6. IMAGE_BYTES \in Nat /\ Place(n) + t + d + z <= IMAGE_BYTES
      <4>1. PICK w \in Nat, pl \in Nat : w = IMAGE_BYTES /\ pl = Place(n)
        BY <3>4, HeadersAssumption
      <4>2. 512 + 5 * (t + d + z) <= w /\ pl >= 512 /\ 5 * (pl - 512) <= n * (w - 512)
        <5>1. 512 + 5 * (t + d + b + 16) <= w /\ z <= b + 15
          BY <2>3, <4>1
        <5>2. pl >= 512 /\ 5 * (pl - 512) <= n * (w - 512)
          BY <3>4, <4>1
        <5> QED BY <5>1, <5>2
      <4>3. CASE n = 0
        BY <4>1, <4>2, <4>3
      <4>4. CASE n = 1
        BY <4>1, <4>2, <4>4
      <4>5. CASE n = 2
        BY <4>1, <4>2, <4>5
      <4>6. CASE n = 3
        BY <4>1, <4>2, <4>6
      <4>7. CASE n = 4
        BY <4>1, <4>2, <4>7
      <4> QED BY <4>1, <4>3, <4>4, <4>5, <4>6, <4>7
    <3>7. /\ \A a \in 0 .. IMAGE_BYTES - 1 : a < fpos => image'[a] = image[a]
          /\ \A k \in 0 .. t + d + z - 1 :
               image'[fpos + k] = IF k < t + d THEN Byte(n, k) ELSE ZeroByte
      <4>1. t + d \in Nat /\ image' = WithProgram(image, fpos, n, t + d, z)
        BY <2>5, <3>5
      <4>2. /\ \A a \in 0 .. IMAGE_BYTES - 1 : a < fpos => image'[a] = image[a]
            /\ \A k \in 0 .. (t + d) + z - 1 : fpos + k < IMAGE_BYTES =>
                 image'[fpos + k] = IF k < t + d THEN Byte(n, k) ELSE ZeroByte
        <5>1. fpos \in Nat /\ DOMAIN image = 0 .. IMAGE_BYTES - 1
          BY <2>1
        <5>2. PICK m \in Nat : m = t + d
          OBVIOUS
        <5>3. image' = WithProgram(image, fpos, n, m, z)
          BY <4>1, <5>2
        <5>4. Behind(image, image', fpos, n, m, z)
          BY <5>1, <5>3, ProgramPut
        <5>5. /\ \A a \in 0 .. IMAGE_BYTES - 1 : a < fpos => image'[a] = image[a]
              /\ \A k \in 0 .. m + z - 1 : fpos + k < IMAGE_BYTES =>
                   image'[fpos + k] = IF k < m THEN Byte(n, k) ELSE ZeroByte
          BY <5>4 DEF Behind
        <5> QED BY <5>2, <5>5
      <4>3. \A k \in 0 .. t + d + z - 1 : fpos + k < IMAGE_BYTES
        <5>1. PICK pl \in Nat, w \in Nat : pl = fpos /\ w = IMAGE_BYTES /\ pl + t + d + z <= w
          BY <3>3, <3>4, <3>6
        <5> QED BY <5>1
      <4> QED BY <4>2, <4>3
    <3>8. Laid(n)'
      <4>1. Place(n)' = fpos
        BY <2>10, <3>3
      <4> QED BY <2>6, <2>7, <3>7, <4>1 DEF Laid, Cell
    <3>9. ASSUME NEW p \in 0 .. n - 1 PROVE Laid(p)'
      <4>1. p \in PROGRAMS /\ p # n /\ p \in 0 .. n
        OBVIOUS
      <4>2. /\ Place(p)' = Place(p) /\ Length(p)' = Length(p) /\ sizes'[p] = sizes[p] /\ Laid(p)
            /\ Place(p) \in Nat /\ Length(p) \in Nat /\ Place(p) + Length(p) <= fpos
        BY <2>4, <2>9, <2>10, <3>3, <3>4, <4>1
      <4>3. \A k \in 0 .. Length(p) - 1 : image'[Place(p) + k] = image[Place(p) + k]
        <5>1. PICK pl \in Nat, l \in Nat : pl = Place(p) /\ l = Length(p) /\ pl + l <= fpos
          BY <4>2
        <5>2. \A k \in 0 .. l - 1 : pl + k \in 0 .. IMAGE_BYTES - 1 /\ pl + k < fpos
          <6>1. PICK w \in Nat, q \in Nat : w = IMAGE_BYTES /\ q = fpos /\ q <= w
            BY <3>3, <3>4, <3>6
          <6> QED BY <5>1, <6>1
        <5> QED BY <3>7, <5>1, <5>2
      <4> QED BY Zenon, <4>2, <4>3 DEF Laid, Cell
    <3>10. n < 4 => Place(num)' = Place(n) + t + d + z
      <4> SUFFICES ASSUME n < 4 PROVE Place(num)' = Place(n) + t + d + z
        OBVIOUS
      <4>1. num' = n + 1
        BY <2>5
      <4>2. PICK l0 \in Nat, l1 \in Nat, l2 \in Nat, l3 \in Nat :
              l0 = Length(0)' /\ l1 = Length(1)' /\ l2 = Length(2)' /\ l3 = Length(3)'
        <5>1. \A p \in PROGRAMS : Length(p)' \in Nat
          BY <2>7, <2>9 DEF Numbers, Length
        <5> QED BY <5>1
      <4>3. /\ Place(num)' = 512 + (IF n + 1 > 0 THEN l0 ELSE 0) + (IF n + 1 > 1 THEN l1 ELSE 0)
                                  + (IF n + 1 > 2 THEN l2 ELSE 0) + (IF n + 1 > 3 THEN l3 ELSE 0)
            /\ Place(n)' = 512 + (IF n > 0 THEN l0 ELSE 0) + (IF n > 1 THEN l1 ELSE 0)
                                + (IF n > 2 THEN l2 ELSE 0) + (IF n > 3 THEN l3 ELSE 0)
        BY <4>1, <4>2 DEF Place
      <4>4. /\ n = 0 => l0 = t + d + z
            /\ n = 1 => l1 = t + d + z
            /\ n = 2 => l2 = t + d + z
            /\ n = 3 => l3 = t + d + z
        BY <2>7, <4>2
      <4>5. Place(n)' = Place(n)
        BY <2>10
      <4> QED BY <4>3, <4>4, <4>5
    <3>11. \A p \in 0 .. n : Laid(p)'
      BY <3>8, <3>9
    <3>12. pc' \in {"copy2", "patch1"} /\ \A p \in Copied' : Laid(p)'
      BY <2>5, <2>12, <3>11
    <3>13. pc' = "copy2" => fpos' = Place(num)' /\ cum_size' = Place(num)' - 512
      <4> SUFFICES ASSUME pc' = "copy2" PROVE fpos' = Place(num)' /\ cum_size' = Place(num)' - 512
        OBVIOUS
      <4>1. n < 4 /\ fpos' = fpos + left + z /\ cum_size' = cum_size + total
        BY <2>5
      <4>2. PICK pl \in Nat : pl = Place(n)
        BY <3>4
      <4>3. Place(num)' = pl + t + d + z /\ fpos' = pl + (t + d) + z /\ cum_size' = pl - 512 + (t + d + z)
        BY <3>3, <3>5, <3>10, <4>1, <4>2
      <4> QED BY <4>3
    <3>14. pc' = "patch1" => cum_size' = Place(FSCK)' - 512
      <4> SUFFICES ASSUME pc' = "patch1" PROVE cum_size' = Place(4)' - 512
        OBVIOUS
      <4>1. n = 4 /\ cum_size' = cum_size /\ Place(4)' = Place(4)
        BY <2>5, <2>10
      <4> QED BY <3>3, <4>1
    <3> QED BY Zenon, <3>12, <3>13, <3>14 DEF Arranged
  <2> QED BY <2>14, <2>15 DEF BuildInv
<1> QED BY <1>1, <1>2
-----------------------------------------------------------------------------
(* The three functions that patch the image.                               *)

InsideImage(p) ==
  /\ Place(p) \in Nat /\ Place(p) >= SECTOR_SIZE /\ (Place(p) - SECTOR_SIZE) % 16 = 0
  /\ Length(p) \in Nat /\ Place(p) + Length(p) <= IMAGE_BYTES

\* All programs lie behind the boot block, in the image, one behind the other.
LEMMA AllInside ==
  ASSUME AllNumbers, FitUpTo(5)
  PROVE  \A p \in PROGRAMS : PlacesKnown(p) /\ InsideImage(p)
<1> SUFFICES ASSUME NEW n \in 0 .. 4 PROVE PlacesKnown(n) /\ InsideImage(n)
  OBVIOUS
<1>1. n \in PROGRAMS /\ FitUpTo(n)
  BY DEF FitUpTo
<1>2. PlacesKnown(n)
  BY <1>1, PlacesRight
<1>3. /\ Place(n) \in Nat /\ Place(n) >= 512 /\ (Place(n) - 512) % 16 = 0
      /\ 5 * (Place(n) - 512) <= n * (IMAGE_BYTES - 512)
  BY <1>2 DEF PlacesKnown
<1>4. Length(n) \in Nat
  BY DEF AllNumbers, Numbers, Length
<1>5. 512 + 5 * Length(n) <= IMAGE_BYTES
  BY DEF FitUpTo, Kept
<1>6. PICK l \in Nat, w \in Nat, pl \in Nat : l = Length(n) /\ w = IMAGE_BYTES /\ pl = Place(n)
  BY <1>3, <1>4, HeadersAssumption
<1>7. 512 + 5 * l <= w /\ pl >= 512 /\ 5 * (pl - 512) <= n * (w - 512)
  BY <1>3, <1>5, <1>6
<1>8. pl + l <= w
  <2>1. CASE n = 0
    BY <1>7, <2>1
  <2>2. CASE n = 1
    BY <1>7, <2>2
  <2>3. CASE n = 2
    BY <1>7, <2>3
  <2>4. CASE n = 3
    BY <1>7, <2>4
  <2>5. CASE n = 4
    BY <1>7, <2>5
  <2> QED BY <2>1, <2>2, <2>3, <2>4, <2>5
<1> QED BY <1>2, <1>3, <1>4, <1>6, <1>8 DEF InsideImage

\* What is known when a function begins to patch.
AllCopied ==
  /\ DOMAIN image = 0 .. IMAGE_BYTES - 1 /\ Copied = PROGRAMS /\ AllNumbers
  /\ \A p \in PROGRAMS : Kept(p)
AllPlaced == Arranged /\ FitUpTo(5) /\ \A p \in PROGRAMS : PlacesKnown(p) /\ InsideImage(p)

LEMMA Patches ==
  ASSUME BuildInv, pc \in Patching
  PROVE  AllCopied /\ (SoFarFits => AllPlaced)
<1>1. Copied = PROGRAMS
  BY DEF Copied, Patching
<1>2. /\ DOMAIN image = 0 .. IMAGE_BYTES - 1 /\ AllNumbers /\ \A p \in PROGRAMS : Kept(p)
      /\ SoFarFits => Arranged
  BY <1>1 DEF BuildInv, Started, AllNumbers
<1>3. SoFarFits => FitUpTo(5)
  BY <1>1, <1>2 DEF SoFarFits, FitUpTo
<1> QED BY <1>1, <1>2, <1>3, AllInside DEF AllCopied, AllPlaced

\* patch1() tells the boot block where fsck is.
LEMMA Patch1Step ==
  ASSUME BuildInv, patch1
  PROVE  BuildInv'
<1>1. CASE pexit
  BY <1>1, PexitStep
<1>2. CASE ~pexit
  <2>1. pc = "patch1" /\ Patched(WithWords(image, 512 - 10, 5, ubuf), "patch2")
    BY <1>2 DEF patch1
  <2> DEFINE new == WithWords(image, 502, 5, ubuf)
  <2>2. pc \in Patching /\ Patched(new, "patch2") /\ "patch2" \in Patching
    BY <2>1 DEF Patching
  <2>3. DOMAIN image = 0 .. IMAGE_BYTES - 1 /\ AllNumbers /\ \A p \in PROGRAMS : Kept(p)
    <3>1. AllCopied
      BY <2>2, Patches
    <3> QED BY <3>1 DEF AllCopied
  <2>4. 512 <= IMAGE_BYTES
    <3>1. Length(0) \in Nat
      <4>1. Numbers(0)
        BY <2>3 DEF AllNumbers
      <4> QED BY <4>1 DEF Numbers, Length
    <3>2. 512 + 5 * Length(0) <= IMAGE_BYTES
      BY <2>3 DEF Kept
    <3>3. PICK l \in Nat, w \in Nat : l = Length(0) /\ w = IMAGE_BYTES
      BY <3>1, HeadersAssumption
    <3> QED BY <3>2, <3>3
  <2>5. Inserted(image, new, 502, 5, ubuf)
    BY <2>3, <2>4, WordsPut
  <2>6. DOMAIN new = 0 .. IMAGE_BYTES - 1
    BY <2>5 DEF Inserted
  <2> HIDE DEF new
  <2>7. Started' /\ sizes' = sizes /\ image' = new /\ pc' = "patch2" /\ SoFarFits' = SoFarFits /\ Copied' = PROGRAMS
    BY <2>2, <2>6, PatchedStarted
  <2>8. ASSUME SoFarFits PROVE Arranged'
    <3>1. Arranged /\ FitUpTo(5) /\ \A p \in PROGRAMS : PlacesKnown(p) /\ InsideImage(p)
      <4>1. AllPlaced
        BY <2>2, <2>8, Patches
      <4> QED BY <4>1 DEF AllPlaced
    <3>2. cum_size = Place(4) - 512 /\ \A p \in PROGRAMS : Laid(p)
      <4>1. AllCopied
        BY <2>2, Patches
      <4>2. Copied = PROGRAMS
        BY <4>1 DEF AllCopied
      <4> QED BY <2>1, <3>1, <4>2 DEF Arranged
    <3>3. fsck_cs = Click(4) /\ Click(4) \in Nat /\ Click(4) < 20000
      <4>1. Place(4) \in Nat /\ Place(4) >= 512 /\ Place(4) <= 512 + 4 * 65536
        BY <3>1 DEF PlacesKnown
      <4>2. PICK pl \in Nat : pl = Place(4) - 512 /\ pl <= 4 * 65536
        BY <4>1
      <4>3. (1536 + pl) \div 16 \in Nat /\ (1536 + pl) \div 16 < 20000
        BY <4>2
      <4>4. ((1536 + pl) \div 16) % 65536 = (1536 + pl) \div 16
        BY <4>3
      <4>5. fsck_cs = ((1536 + pl) \div 16) % 65536
        BY <3>2, <4>2 DEF fsck_cs
      <4>6. Click(4) = (1536 + pl) \div 16
        <5>1. 1536 + Place(4) - 512 = 1536 + pl
          BY <4>1, <4>2
        <5> QED BY <5>1 DEF Click
      <4> QED BY <4>3, <4>4, <4>5, <4>6
    <3>4. fsck_ds = Click(4) + OwnText(4) \div 16 /\ OwnText(4) \div 16 \in Nat
      <4>1. PICK t \in Nat, cs \in Nat : t = sizes[4].text /\ t < 65536 /\ cs = Click(4) /\ cs < 20000
        BY <2>3, <3>3 DEF AllNumbers, Numbers
      <4>2. (cs + t \div 16) % 65536 = cs + t \div 16 /\ t \div 16 \in Nat
        BY <4>1
      <4>3. cs + 0 \div 16 = cs /\ 0 \div 16 \in Nat
        OBVIOUS
      <4>4. fsck_ds = IF sizes[4].sep THEN (cs + t \div 16) % 65536 ELSE cs
        BY <3>3, <4>1 DEF fsck_ds
      <4>5. OwnText(4) = IF sizes[4].sep THEN t ELSE 0
        BY <4>1 DEF OwnText
      <4> QED BY <4>1, <4>2, <4>3, <4>4, <4>5
    <3>5. ubuf[3] = Click(4) /\ ubuf[1] = Click(4) + OwnText(4) \div 16
      <4>1. ubuf[3] = fsck_cs /\ ubuf[1] = fsck_ds
        BY DEF ubuf
      <4> QED BY <3>3, <3>4, <4>1
    <3>6. BootWords'
      <4>1. /\ new[502 + 2 * 3] = Byte(OWN, ubuf[3] % 256) /\ new[502 + 2 * 3 + 1] = Byte(OWN, ubuf[3] \div 256)
            /\ new[502 + 2 * 1] = Byte(OWN, ubuf[1] % 256) /\ new[502 + 2 * 1 + 1] = Byte(OWN, ubuf[1] \div 256)
        <5>1. 3 \in 0 .. 5 - 1 /\ 1 \in 0 .. 5 - 1
          OBVIOUS
        <5> QED BY <2>5, <5>1 DEF Inserted
      <4>2. Click(4)' = Click(4) /\ OwnText(4)' = OwnText(4)
        BY <2>7, PlacesStay
      <4>3. 502 + 2 * 3 = 508 /\ 502 + 2 * 3 + 1 = 508 + 1 /\ 502 + 2 * 1 = 504 /\ 502 + 2 * 1 + 1 = 504 + 1
        OBVIOUS
      <4>4. /\ new[508] = Byte(OWN, ubuf[3] % 256) /\ new[508 + 1] = Byte(OWN, ubuf[3] \div 256)
            /\ new[504] = Byte(OWN, ubuf[1] % 256) /\ new[504 + 1] = Byte(OWN, ubuf[1] \div 256)
        BY <4>1, <4>3
      <4> QED BY <2>7, <3>5, <4>2, <4>4 DEF BootWords, WordIs
    <3>7. \A p \in PROGRAMS : Laid(p)'
      <4> SUFFICES ASSUME NEW p \in PROGRAMS PROVE Laid(p)'
        OBVIOUS
      <4>1. \A k \in 0 .. Length(p) - 1 : image'[Place(p) + k] = image[Place(p) + k]
        <5>1. PICK pl \in Nat, l \in Nat, w \in Nat :
                pl = Place(p) /\ l = Length(p) /\ w = IMAGE_BYTES /\ pl >= 512 /\ pl + l <= w
          BY <3>1, HeadersAssumption DEF InsideImage
        <5>2. \A a \in 0 .. w - 1 : a < 502 \/ a >= 502 + 2 * 5 => new[a] = image[a]
          BY <2>5, <5>1 DEF Inserted
        <5> QED BY <2>7, <5>1, <5>2
      <4>2. Laid(p)
        BY <3>2
      <4> QED BY <2>7, <4>1, <4>2, LaidStays
    <3> QED BY <2>7, <3>6, <3>7 DEF Arranged
  <2> QED BY <2>7, <2>8 DEF BuildInv
<1> QED BY <1>1, <1>2

\* The words of the boot block stay while its bytes do.
LEMMA BootStays ==
  ASSUME BootWords, sizes' = sizes, \A a \in 0 .. 511 : image'[a] = image[a]
  PROVE  BootWords'
<1>1. Click(4)' = Click(4) /\ OwnText(4)' = OwnText(4)
  BY PlacesStay
<1>2. /\ image'[508] = image[508] /\ image'[508 + 1] = image[508 + 1]
      /\ image'[504] = image[504] /\ image'[504 + 1] = image[504 + 1]
  <2>1. 508 \in 0 .. 511 /\ 508 + 1 \in 0 .. 511 /\ 504 \in 0 .. 511 /\ 504 + 1 \in 0 .. 511
    OBVIOUS
  <2> QED BY <2>1
<1> QED BY <1>1, <1>2 DEF BootWords, WordIs

\* The words that the kernel reads lie in its text and data.
LEMMA KernelInside ==
  ASSUME AllCopied, AllPlaced
  PROVE  \E t, l, w \in Nat :
           /\ t = sizes[0].text /\ l = Length(0) /\ w = IMAGE_BYTES
           /\ t > 5 /\ t + 16 <= l /\ 512 + l <= w
           /\ \A p \in 1 .. 4 : Place(p) \in Nat /\ Length(p) \in Nat
                                /\ 512 + l <= Place(p) /\ Place(p) + Length(p) <= w
<1>1. Numbers(0)
  BY DEF AllCopied, AllNumbers
<1>2. sizes[0].text > 5 /\ sizes[0].data >= 16
  BY DEF AllCopied, Kept
<1>3. PICK t \in Nat, d \in Nat, b \in Nat : t = sizes[0].text /\ d = sizes[0].data /\ b = sizes[0].bss
  BY <1>1 DEF Numbers
<1>4. Length(0) = t + d + b
  BY <1>3 DEF Length
<1>5. \A p \in PROGRAMS : PlacesKnown(p) /\ InsideImage(p)
  BY DEF AllPlaced
<1>6. Place(0) = 512
  BY DEF Place
<1>7. PICK w \in Nat : w = IMAGE_BYTES
  BY HeadersAssumption
<1>8. 512 + (t + d + b) <= w
  BY <1>4, <1>5, <1>6, <1>7 DEF InsideImage
<1>9. ASSUME NEW p \in 1 .. 4
      PROVE  /\ Place(p) \in Nat /\ Length(p) \in Nat
             /\ 512 + (t + d + b) <= Place(p) /\ Place(p) + Length(p) <= w
  <2>1. p \in PROGRAMS /\ 0 \in 0 .. p - 1
    OBVIOUS
  <2>2. Place(p) \in Nat /\ Length(p) \in Nat /\ Place(p) + Length(p) <= w
    BY <1>5, <1>7, <2>1 DEF InsideImage
  <2>3. Place(0) + Length(0) <= Place(p)
    BY <1>5, <2>1 DEF PlacesKnown
  <2> QED BY <1>4, <1>6, <2>2, <2>3
<1>10. t + d + b \in Nat /\ t + 16 <= t + d + b /\ t > 5
  BY <1>2, <1>3
<1> QED BY <1>3, <1>4, <1>7, <1>8, <1>9, <1>10

\* patch2() tells the kernel how large everybody is, and spares the programs behind it.
LEMMA Patch2Step ==
  ASSUME BuildInv, patch2
  PROVE  BuildInv'
<1>1. CASE pexit
  BY <1>1, PexitStep
<1>2. CASE ~pexit
  <2> DEFINE mid == WithWords(image, data_offset, 8, all_clicks)
             new == WithWords(mid, 516, 1, kernel_ds)
  <2>1. pc = "patch2" /\ Patched(WithWords(mid, 512 + 4, 1, kernel_ds), "patch3")
    BY <1>2 DEF patch2
  <2>2. pc \in Patching /\ Patched(new, "patch3") /\ "patch3" \in Patching
    BY <2>1 DEF Patching
  <2>3. AllCopied /\ DOMAIN image = 0 .. IMAGE_BYTES - 1
    BY <2>2, Patches DEF AllCopied
  <2>4. DOMAIN new = 0 .. IMAGE_BYTES - 1
    BY <2>3 DEF WithWords
  <2> HIDE DEF new
  <2>5. Started' /\ sizes' = sizes /\ image' = new /\ pc' = "patch3" /\ SoFarFits' = SoFarFits /\ Copied' = PROGRAMS
    BY <2>2, <2>4, PatchedStarted
  <2>6. ASSUME SoFarFits PROVE Arranged'
    <3>1. AllPlaced /\ Arranged
      BY <2>2, <2>6, Patches DEF AllPlaced
    <3>2. PICK t \in Nat, l \in Nat, w \in Nat :
           /\ t = sizes[0].text /\ l = Length(0) /\ w = IMAGE_BYTES
           /\ t > 5 /\ t + 16 <= l /\ 512 + l <= w
           /\ \A p \in 1 .. 4 : Place(p) \in Nat /\ Length(p) \in Nat
                                /\ 512 + l <= Place(p) /\ Place(p) + Length(p) <= w
      BY <2>3, <3>1, KernelInside
    <3>3. data_offset = 512 + t /\ 512 + t \in Nat /\ (512 + t) + 2 * 8 <= IMAGE_BYTES /\ 516 + 2 * 1 <= IMAGE_BYTES
      BY <3>2 DEF data_offset
    <3>4. Inserted(image, mid, 512 + t, 8, all_clicks)
      BY <2>3, <3>3, WordsPut
    <3>5. DOMAIN mid = 0 .. IMAGE_BYTES - 1
      BY <3>4 DEF Inserted
    <3>6. Inserted(mid, new, 516, 1, kernel_ds)
      BY <3>3, <3>5, WordsPut DEF new
    <3> HIDE DEF mid
    <3>7. /\ \A a \in 0 .. w - 1 : a < 512 + t \/ a >= 512 + t + 16 => mid[a] = image[a]
          /\ \A i \in 0 .. 7 : /\ mid[512 + t + 2 * i] = Byte(OWN, all_clicks[i] % 256)
                               /\ mid[512 + t + 2 * i + 1] = Byte(OWN, all_clicks[i] \div 256)
      BY <3>2, <3>4 DEF Inserted
    <3>8. /\ \A a \in 0 .. w - 1 : a < 516 \/ a >= 518 => new[a] = mid[a]
          /\ new[516] = Byte(OWN, kernel_ds[0] % 256) /\ new[516 + 1] = Byte(OWN, kernel_ds[0] \div 256)
      <4>1. 0 \in 0 .. 1 - 1 /\ 516 + 2 * 0 = 516 /\ 516 + 2 * 1 = 518
        OBVIOUS
      <4> QED BY <3>2, <3>6, <4>1 DEF Inserted
    <3>9. \A a \in 0 .. w - 1 : a < 516 \/ a >= 512 + t + 16 => new[a] = image[a]
      BY <3>2, <3>7, <3>8
    <3>10. \A p \in 1 .. 4 : Laid(p)'
      <4> SUFFICES ASSUME NEW p \in 1 .. 4 PROVE Laid(p)'
        OBVIOUS
      <4>1. Laid(p)
        BY <2>1, <2>3, <3>1 DEF Arranged, AllCopied
      <4>2. \A k \in 0 .. Length(p) - 1 : image'[Place(p) + k] = image[Place(p) + k]
        <5>1. PICK pl \in Nat, m \in Nat : pl = Place(p) /\ m = Length(p) /\ 512 + l <= pl /\ pl + m <= w
          BY <3>2
        <5> QED BY <2>5, <3>2, <3>9, <5>1
      <4> QED BY <2>5, <4>1, <4>2, LaidStays
    <3>11. BootWords'
      <4>1. BootWords
        BY <2>1, <3>1 DEF Arranged
      <4>2. \A a \in 0 .. 511 : image'[a] = image[a]
        BY <2>5, <3>2, <3>9
      <4> QED BY <2>5, <4>1, <4>2, BootStays
    <3>12. KernelWords'
      <4>1. kernel_ds[0] = (1536 + OwnText(0)) \div 16
        BY DEF kernel_ds, OwnText
      <4>2. ASSUME NEW p \in 0 .. 3
            PROVE  /\ new[512 + t + 4 * p] = Byte(OWN, text_clicks(p) % 256)
                   /\ new[512 + t + 4 * p + 1] = Byte(OWN, text_clicks(p) \div 256)
                   /\ new[512 + t + 4 * p + 2] = Byte(OWN, data_clicks(p) % 256)
                   /\ new[512 + t + 4 * p + 2 + 1] = Byte(OWN, data_clicks(p) \div 256)
        <5>1. /\ 2 * p \in 0 .. 7 /\ (2 * p) % 2 = 0 /\ (2 * p) \div 2 = p
              /\ 2 * p + 1 \in 0 .. 7 /\ (2 * p + 1) % 2 = 1 /\ (2 * p + 1) \div 2 = p
          BY <4>2
        <5>2. all_clicks[2 * p] = text_clicks(p) /\ all_clicks[2 * p + 1] = data_clicks(p)
          BY <5>1 DEF all_clicks
        <5>3. /\ mid[512 + t + 2 * (2 * p)] = Byte(OWN, text_clicks(p) % 256)
              /\ mid[512 + t + 2 * (2 * p) + 1] = Byte(OWN, text_clicks(p) \div 256)
              /\ mid[512 + t + 2 * (2 * p + 1)] = Byte(OWN, data_clicks(p) % 256)
              /\ mid[512 + t + 2 * (2 * p + 1) + 1] = Byte(OWN, data_clicks(p) \div 256)
          BY <3>7, <5>1, <5>2
        <5>4. /\ 2 * (2 * p) = 4 * p /\ 2 * (2 * p + 1) = 4 * p + 2
              /\ 512 + t + 2 * (2 * p + 1) = 512 + t + 4 * p + 2
          BY <4>2
        <5>5. \A i \in 0 .. 15 : new[512 + t + i] = mid[512 + t + i]
          BY <3>2, <3>8
        <5>6. /\ 512 + t + 4 * p + 1 = 512 + t + (4 * p + 1) /\ 4 * p + 1 \in 0 .. 15
              /\ 512 + t + 4 * p + 2 = 512 + t + (4 * p + 2) /\ 4 * p + 2 \in 0 .. 15
              /\ 512 + t + 4 * p + 2 + 1 = 512 + t + (4 * p + 3) /\ 4 * p + 3 \in 0 .. 15
              /\ 4 * p \in 0 .. 15
          BY <4>2
        <5> QED BY <5>3, <5>4, <5>5, <5>6
      <4>3. /\ OwnText(0)' = OwnText(0) /\ sizes'[0].text = t
            /\ \A p : text_clicks(p)' = text_clicks(p) /\ data_clicks(p)' = data_clicks(p)
        BY <2>5, <3>2, PlacesStay
      <4> QED BY <2>5, <3>8, <4>1, <4>2, <4>3 DEF KernelWords, WordIs
    <3> QED BY <2>5, <3>10, <3>11, <3>12 DEF Arranged
  <2> QED BY <2>5, <2>6 DEF BuildInv
<1> QED BY <1>1, <1>2

\* FS, and the words that it reads, lie between MM and INIT.
LEMMA FSInside ==
  ASSUME AllCopied, AllPlaced
  PROVE  \E a, t, l, w \in Nat :
           /\ a = Place(2) /\ t = sizes[2].text /\ l = Length(2) /\ w = IMAGE_BYTES
           /\ t + 16 <= l /\ fbase = a + t
           /\ Place(1) \in Nat /\ Length(1) \in Nat /\ Place(1) + Length(1) <= a
           /\ a + l <= w
           /\ \A p \in 3 .. 4 : Place(p) \in Nat /\ Length(p) \in Nat
                                /\ a + l <= Place(p) /\ Place(p) + Length(p) <= w
<1>1. Numbers(2) /\ sizes[2].data >= 16
  BY DEF AllCopied, AllNumbers, Kept
<1>2. PICK t \in Nat, d \in Nat, b \in Nat : t = sizes[2].text /\ d = sizes[2].data /\ b = sizes[2].bss
  BY <1>1 DEF Numbers
<1>3. Length(2) = t + d + b /\ d >= 16
  BY <1>1, <1>2 DEF Length
<1>4. \A p \in PROGRAMS : PlacesKnown(p) /\ InsideImage(p)
  BY DEF AllPlaced
<1>5. PICK w \in Nat, a \in Nat : w = IMAGE_BYTES /\ a = Place(2)
  BY <1>4, HeadersAssumption DEF InsideImage
<1>6. a + (t + d + b) <= w
  BY <1>3, <1>4, <1>5 DEF InsideImage
<1>7. Place(1) \in Nat /\ Length(1) \in Nat /\ Place(1) + Length(1) <= a
  <2>1. PlacesKnown(2)
    BY <1>4
  <2> QED BY <1>5, <2>1 DEF PlacesKnown
<1>8. ASSUME NEW p \in 3 .. 4
      PROVE  /\ Place(p) \in Nat /\ Length(p) \in Nat
             /\ a + (t + d + b) <= Place(p) /\ Place(p) + Length(p) <= w
  <2>1. p \in PROGRAMS /\ 2 \in 0 .. p - 1
    OBVIOUS
  <2>2. Place(p) \in Nat /\ Length(p) \in Nat /\ Place(p) + Length(p) <= w
    BY <1>4, <1>5, <2>1 DEF InsideImage
  <2>3. Place(2) + Length(2) <= Place(p)
    BY <1>4, <2>1 DEF PlacesKnown
  <2> QED BY <1>3, <1>5, <2>2, <2>3
<1>9. fbase = a + t
  <2>1. PICK l0 \in Nat, l1 \in Nat : l0 = Length(0) /\ l1 = Length(1)
    BY <1>4 DEF InsideImage
  <2>2. a = 512 + l0 + l1
    BY <1>5, <2>1 DEF Place
  <2>3. fbase = (1536 + l0 + l1) - 1536 + 512 + t
    BY <1>2, <2>1 DEF fbase, fs_start
  <2> QED BY <2>2, <2>3
<1>10. t + d + b \in Nat /\ t + 16 <= t + d + b
  BY <1>2, <1>3
<1> QED BY <1>2, <1>3, <1>5, <1>6, <1>7, <1>8, <1>9, <1>10

\* Where the kernel's words are, they stay while the kernel's bytes do.
LEMMA KernelStays ==
  ASSUME KernelWords, sizes' = sizes, NEW t \in Nat, NEW l \in Nat, t = sizes[0].text,
         t > 5, t + 16 <= l, \A a \in 0 .. 511 + l : image'[a] = image[a]
  PROVE  KernelWords'
<1>1. /\ OwnText(0)' = OwnText(0) /\ sizes'[0].text = t
      /\ \A p : text_clicks(p)' = text_clicks(p) /\ data_clicks(p)' = data_clicks(p)
  BY PlacesStay
<1>2. image'[512 + 4] = image[512 + 4] /\ image'[512 + 4 + 1] = image[512 + 4 + 1]
  <2>1. 512 + 4 \in 0 .. 511 + l /\ 512 + 4 + 1 \in 0 .. 511 + l
    OBVIOUS
  <2> QED BY <2>1
<1>3. ASSUME NEW p \in 0 .. 3
      PROVE  /\ image'[512 + t + 4 * p] = image[512 + t + 4 * p]
             /\ image'[512 + t + 4 * p + 1] = image[512 + t + 4 * p + 1]
             /\ image'[512 + t + 4 * p + 2] = image[512 + t + 4 * p + 2]
             /\ image'[512 + t + 4 * p + 2 + 1] = image[512 + t + 4 * p + 2 + 1]
  <2>1. /\ 512 + t + 4 * p \in 0 .. 511 + l /\ 512 + t + 4 * p + 1 \in 0 .. 511 + l
        /\ 512 + t + 4 * p + 2 \in 0 .. 511 + l /\ 512 + t + 4 * p + 2 + 1 \in 0 .. 511 + l
    OBVIOUS
  <2> QED BY <2>1
<1>4. WordIs(512 + 4, (1536 + OwnText(0)) \div 16)'
  BY <1>1, <1>2 DEF KernelWords, WordIs
<1>5. ASSUME NEW p \in 0 .. 3
      PROVE  WordIs(512 + t + 4 * p, text_clicks(p))' /\ WordIs(512 + t + 4 * p + 2, data_clicks(p))'
  <2>1. WordIs(512 + t + 4 * p, text_clicks(p)) /\ WordIs(512 + t + 4 * p + 2, data_clicks(p))
    BY DEF KernelWords
  <2> QED BY <1>1, <1>3, <2>1 DEF WordIs
<1> QED BY <1>1, <1>4, <1>5 DEF KernelWords

\* What init_words tells FS of INIT: all of it is below 64K clicks.
LEMMA InitWordsRight ==
  ASSUME AllCopied, AllPlaced
  PROVE  init_words[0] = Click(3) /\ init_words[1] = text_clicks(3) /\ init_words[2] = data_clicks(3)
<1>1. PlacesKnown(3) /\ \A p \in PROGRAMS : InsideImage(p)
  BY DEF AllPlaced
<1>2. PICK l0 \in Nat, l1 \in Nat, l2 \in Nat : l0 = Length(0) /\ l1 = Length(1) /\ l2 = Length(2)
  BY <1>1 DEF InsideImage
<1>3. Place(3) = 512 + l0 + l1 + l2 /\ 512 + l0 + l1 + l2 <= 512 + 4 * 65536
  BY <1>1, <1>2 DEF Place, PlacesKnown
<1>4. init_org = 1536 + l0 + l1 + l2
  BY <1>2 DEF init_org, fs_start
<1>5. Click(3) = (1536 + l0 + l1 + l2) \div 16
  <2>1. 1536 + Place(3) - 512 = 1536 + l0 + l1 + l2
    BY <1>3
  <2> QED BY <2>1 DEF Click
<1>6. ((1536 + l0 + l1 + l2) \div 16) % 65536 = (1536 + l0 + l1 + l2) \div 16
  <2>1. PICK s \in Nat : s = 1536 + l0 + l1 + l2 /\ s < 300000
    BY <1>3
  <2>2. (s \div 16) \in Nat /\ s \div 16 < 65536
    BY <2>1
  <2>3. (s \div 16) % 65536 = s \div 16
    BY <2>2
  <2> QED BY <2>1, <2>3
<1>7. init_words[0] = (init_org \div 16) % 65536
  BY DEF init_words
<1>8. (data_bytes(3) % 65536) \div 16 = data_clicks(3)
  <2>1. Numbers(3) /\ Length(3) < 65536
    BY DEF AllCopied, AllNumbers, AllPlaced, FitUpTo
  <2>2. PICK t \in Nat, d \in Nat, b \in Nat : t = sizes[3].text /\ d = sizes[3].data /\ b = sizes[3].bss
    BY <2>1 DEF Numbers
  <2>3. PICK x \in Nat : x = data_bytes(3) /\ x <= t + d + b
    BY <2>2 DEF data_bytes
  <2>4. x < 65536
    BY <2>1, <2>2, <2>3 DEF Length
  <2>5. x % 65536 = x
    BY <2>4
  <2> QED BY <2>3, <2>5 DEF data_clicks
<1>9. init_words[1] = text_clicks(3) /\ init_words[2] = (data_bytes(3) % 65536) \div 16
  BY DEF init_words
<1> QED BY <1>4, <1>5, <1>6, <1>7, <1>8, <1>9

\* patch3() tells FS of INIT, in the first bytes of the data of FS.
LEMMA Patch3Step ==
  ASSUME BuildInv, patch3
  PROVE  BuildInv'
<1>1. CASE pexit
  BY <1>1, PexitStep
<1>2. CASE ~pexit
  <2> DEFINE new == WithWords(image, fbase + 4, 3, init_words)
  <2>1. pc = "patch3" /\ Patched(new, "done")
    BY <1>2 DEF patch3
  <2>2. pc \in Patching /\ "done" \in Patching
    BY <2>1 DEF Patching
  <2>3. AllCopied /\ DOMAIN image = 0 .. IMAGE_BYTES - 1
    BY <2>2, Patches DEF AllCopied
  <2>4. DOMAIN new = 0 .. IMAGE_BYTES - 1
    BY <2>3 DEF WithWords
  <2> HIDE DEF new
  <2>5. Started' /\ sizes' = sizes /\ image' = new /\ pc' = "done" /\ SoFarFits' = SoFarFits /\ Copied' = PROGRAMS
    BY <2>1, <2>2, <2>4, PatchedStarted
  <2>6. ASSUME SoFarFits PROVE Arranged'
    <3>1. AllPlaced /\ Arranged
      BY <2>2, <2>6, Patches DEF AllPlaced
    <3>2. BootWords /\ KernelWords /\ \A p \in 1 .. 4 : Laid(p)
      BY <2>1, <3>1 DEF Arranged
    <3>3. PICK a \in Nat, t \in Nat, l \in Nat, w \in Nat :
           /\ a = Place(2) /\ t = sizes[2].text /\ l = Length(2) /\ w = IMAGE_BYTES
           /\ t + 16 <= l /\ fbase = a + t
           /\ Place(1) \in Nat /\ Length(1) \in Nat /\ Place(1) + Length(1) <= a
           /\ a + l <= w
           /\ \A p \in 3 .. 4 : Place(p) \in Nat /\ Length(p) \in Nat
                                /\ a + l <= Place(p) /\ Place(p) + Length(p) <= w
      BY <2>3, <3>1, FSInside
    <3>4. PICK kt \in Nat, kl \in Nat :
           /\ kt = sizes[0].text /\ kl = Length(0) /\ kt > 5 /\ kt + 16 <= kl /\ 512 + kl <= a
      <4>1. \E kt, kl, kw \in Nat :
              /\ kt = sizes[0].text /\ kl = Length(0) /\ kw = IMAGE_BYTES
              /\ kt > 5 /\ kt + 16 <= kl /\ 512 + kl <= kw
              /\ \A p \in 1 .. 4 : Place(p) \in Nat /\ Length(p) \in Nat
                                   /\ 512 + kl <= Place(p) /\ Place(p) + Length(p) <= kw
        BY <2>3, <3>1, KernelInside
      <4> QED BY <3>3, <4>1
    <3>5. Inserted(image, new, a + t + 4, 3, init_words)
      <4>1. PICK first \in Nat : first = a + t + 4 /\ first = fbase + 4 /\ first + 2 * 3 <= IMAGE_BYTES
        BY <3>3
      <4>2. Inserted(image, WithWords(image, first, 3, init_words), first, 3, init_words)
        BY <2>3, <4>1, WordsPut
      <4> QED BY <4>1, <4>2 DEF new
    <3>6. \A x \in 0 .. w - 1 : x < a + t + 4 \/ x >= a + t + 10 => new[x] = image[x]
      <4>1. a + t + 4 + 2 * 3 = a + t + 10
        OBVIOUS
      <4> QED BY <3>3, <3>5, <4>1 DEF Inserted
    <3>7. \A p \in {1, 3, 4} : Laid(p)'
      <4> SUFFICES ASSUME NEW p \in {1, 3, 4} PROVE Laid(p)'
        OBVIOUS
      <4>1. \A k \in 0 .. Length(p) - 1 : image'[Place(p) + k] = image[Place(p) + k]
        <5>1. PICK pl \in Nat, m \in Nat : pl = Place(p) /\ m = Length(p)
                                           /\ (pl + m <= a \/ (a + l <= pl /\ pl + m <= w))
          BY <3>3
        <5> QED BY <2>5, <3>3, <3>6, <5>1
      <4>2. Laid(p)
        BY <3>2
      <4> QED BY <2>5, <4>1, <4>2, LaidStays
    <3>8. LaidButPatched'
      <4>1. Place(2)' = a /\ Length(2)' = l /\ sizes'[2] = sizes[2]
        BY <2>5, <3>3, PlacesStay
      <4>2. ASSUME NEW k \in 0 .. l - 1, ~(k - t \in 4 .. 9)
            PROVE  image'[a + k] = Cell(2, k)
        <5>1. a + k \in 0 .. w - 1 /\ (a + k < a + t + 4 \/ a + k >= a + t + 10)
          BY <3>3, <4>2
        <5>2. new[a + k] = image[a + k]
          BY <3>6, <5>1
        <5>3. image[a + k] = Cell(2, k)
          BY <3>2, <3>3 DEF Laid
        <5> QED BY <2>5, <5>2, <5>3
      <4>3. \A k : Cell(2, k)' = Cell(2, k)
        BY <4>1 DEF Cell
      <4> QED BY <3>3, <4>1, <4>2, <4>3 DEF LaidButPatched
    <3>9. BootWords'
      <4>1. \A x \in 0 .. 511 : image'[x] = image[x]
        BY <2>5, <3>3, <3>4, <3>6, SMTT(30)
      <4> QED BY <2>5, <3>2, <4>1, BootStays
    <3>10. KernelWords'
      <4>1. \A x \in 0 .. 511 + kl : image'[x] = image[x]
        BY <2>5, <3>3, <3>4, <3>6
      <4> QED BY <2>5, <3>2, <3>4, <4>1, KernelStays
    <3>11. FSWords'
      <4>1. init_words[0] = Click(3) /\ init_words[1] = text_clicks(3) /\ init_words[2] = data_clicks(3)
        BY <2>3, <3>1, InitWordsRight
      <4>2. /\ Place(2)' = a /\ sizes'[2].text = t /\ Click(3)' = Click(3)
            /\ text_clicks(3)' = text_clicks(3) /\ data_clicks(3)' = data_clicks(3)
        BY <2>5, <3>3, PlacesStay
      <4>3. \A i \in 0 .. 2 : /\ new[a + t + 4 + 2 * i] = Byte(OWN, init_words[i] % 256)
                              /\ new[a + t + 4 + 2 * i + 1] = Byte(OWN, init_words[i] \div 256)
        <5>1. 0 .. 3 - 1 = 0 .. 2
          OBVIOUS
        <5> QED BY Zenon, <3>5, <5>1 DEF Inserted
      <4>4. /\ a + t + 4 + 2 * 0 = a + t + 4 /\ a + t + 4 + 2 * 1 = a + t + 6
            /\ a + t + 4 + 2 * 2 = a + t + 8
        OBVIOUS
      <4>5. /\ new[a + t + 4] = Byte(OWN, Click(3) % 256)
            /\ new[a + t + 4 + 1] = Byte(OWN, Click(3) \div 256)
            /\ new[a + t + 6] = Byte(OWN, text_clicks(3) % 256)
            /\ new[a + t + 6 + 1] = Byte(OWN, text_clicks(3) \div 256)
            /\ new[a + t + 8] = Byte(OWN, data_clicks(3) % 256)
            /\ new[a + t + 8 + 1] = Byte(OWN, data_clicks(3) \div 256)
        BY <4>1, <4>3, <4>4
      <4> QED BY <2>5, <4>2, <4>5 DEF FSWords, WordIs
    <3> QED BY <2>5, <3>7, <3>8, <3>9, <3>10, <3>11 DEF Arranged
  <2> QED BY <2>5, <2>6 DEF BuildInv
<1> QED BY <1>1, <1>2

\* The invariant holds in whatever order main() gets to the functions.
THEOREM BuildInvariant == BuildSpec => []BuildInv
<1>1. BuildInit => BuildInv
  BY BuildInitInv
<1>2. BuildInv /\ [BuildNext]_made => BuildInv'
  <2> SUFFICES ASSUME BuildInv, [BuildNext]_made PROVE BuildInv'
    OBVIOUS
  <2>1. CASE create_image
    BY <2>1, CreateStep
  <2>2. CASE copy1
    BY <2>2, Copy1Step
  <2>3. CASE copy2
    BY <2>3, Copy2Step
  <2>4. CASE patch1
    BY <2>4, Patch1Step
  <2>5. CASE patch2
    BY <2>5, Patch2Step
  <2>6. CASE patch3
    BY <2>6, Patch3Step
  <2>7. CASE UNCHANGED made
    <3>1. /\ pc' = pc /\ num' = num /\ image' = image /\ fpos' = fpos
          /\ sizes' = sizes /\ cum_size' = cum_size
      BY <2>7 DEF made
    <3>2. Copied' = Copied
      BY Zenon, <3>1 DEF Copied
    <3>3. Started' = Started /\ SoFarFits' = SoFarFits
      <4> HIDE DEF KERN, MM, FS, INIT, FSCK, PROGRAMS, UWORD, CLICK, SECTOR_SIZE, PROG_ORG, DS_OFFSET, INFO
      <4> QED BY Zenon, <3>1, <3>2, PlacesStay DEF Started, SoFarFits
    <3>4. /\ \A p : Laid(p) => Laid(p)'
          /\ LaidButPatched => LaidButPatched'
      <4>1. \A p : Laid(p) => Laid(p)'
        <5> SUFFICES ASSUME NEW p, Laid(p) PROVE Laid(p)'
          OBVIOUS
        <5>1. \A k \in 0 .. Length(p) - 1 : image'[Place(p) + k] = image[Place(p) + k]
          BY <3>1
        <5> QED BY <3>1, <5>1, LaidStays
      <4>2. Place(2)' = Place(2) /\ Length(2)' = Length(2) /\ \A k : Cell(2, k)' = Cell(2, k)
        <5>1. \A k : Cell(2, k)' = Cell(2, k)
          BY <3>1 DEF Cell
        <5> QED BY <3>1, <5>1, PlacesStay
      <4>3. LaidButPatched => LaidButPatched'
        BY <3>1, <4>2 DEF LaidButPatched
      <4> QED BY <4>1, <4>3
    <3>5. (BootWords => BootWords') /\ (KernelWords => KernelWords') /\ (FSWords => FSWords')
      <4>2. \A p : /\ Place(p)' = Place(p) /\ Click(p)' = Click(p) /\ OwnText(p)' = OwnText(p)
                   /\ text_clicks(p)' = text_clicks(p) /\ data_clicks(p)' = data_clicks(p)
        BY <3>1, PlacesStay
      <4>3. BootWords => BootWords'
        BY <3>1, <4>2 DEF BootWords, WordIs
      <4>4. KernelWords => KernelWords'
        BY <3>1, <4>2 DEF KernelWords, WordIs
      <4>5. FSWords => FSWords'
        BY <3>1, <4>2 DEF FSWords, WordIs
      <4> QED BY <4>3, <4>4, <4>5
    <3>6. \A p : Place(p)' = Place(p)
      <4> HIDE DEF KERN, MM, FS, INIT, FSCK, PROGRAMS, UWORD, CLICK, SECTOR_SIZE, PROG_ORG, DS_OFFSET, INFO
      <4> QED BY Zenon, <3>1, PlacesStay
    <3>7. Arranged => Arranged'
      BY <3>1, <3>2, <3>4, <3>5, <3>6 DEF Arranged
    <3> QED BY <3>3, <3>7 DEF BuildInv
  <2> QED BY <2>1, <2>2, <2>3, <2>4, <2>5, <2>6, <2>7 DEF BuildNext
<1> QED BY <1>1, <1>2, PTL DEF BuildSpec
-----------------------------------------------------------------------------
(* What the kernel and FS find in the image.                               *)

\* A word of the image is where the boot block loads it to.
LEMMA WordAt ==
  ASSUME NEW a \in Nat, NEW w \in Nat, WordIs(a, w)
  PROVE  Word(1024 + a) = w
<1>1. (1024 + a) - 1536 + 512 = a /\ (1024 + a + 1) - 1536 + 512 = a + 1
  OBVIOUS
<1>2. Memory(1024 + a) = image[a] /\ Memory(1024 + a + 1) = image[a + 1]
  BY <1>1 DEF Memory
<1>3. Known(image[a]) + 256 * Known(image[a + 1]) = w
  BY WordRead
<1> QED BY <1>2, <1>3 DEF Word

\* The invariant, when build is done and all programs have fitted.
AllDone ==
  /\ AllPlaced /\ AllNumbers /\ KernelWords /\ FSWords /\ BootWords
  /\ LaidButPatched /\ Laid(1) /\ Laid(3) /\ Laid(4)

LEMMA DoneRight ==
  ASSUME BuildInv, pc = "done", AllFit
  PROVE  AllDone
<1>1. pc \in Patching
  BY DEF Patching
<1>2. SoFarFits
  <2>1. Copied = PROGRAMS
    BY <1>1 DEF Copied
  <2> QED BY <2>1 DEF SoFarFits, AllFit
<1>3. AllCopied /\ AllPlaced
  BY <1>1, <1>2, Patches
<1> QED BY <1>3 DEF AllDone, AllCopied, AllPlaced, Arranged

\* What is said of a program in clicks.
InClicks(p) ==
  /\ Length(p) \in Nat
  /\ OwnText(p) \in Nat /\ OwnText(p) <= Length(p) /\ OwnText(p) % 16 = 0
  /\ text_clicks(p) \in Nat /\ 16 * text_clicks(p) = OwnText(p)
  /\ data_clicks(p) \in Nat /\ 16 * data_clicks(p) = Length(p) - OwnText(p)
  /\ OwnText(p) \div 16 = text_clicks(p)

LEMMA AllInClicks ==
  ASSUME AllDone
  PROVE  \A p \in PROGRAMS : InClicks(p)
<1> SUFFICES ASSUME NEW p \in 0 .. 4 PROVE InClicks(p)
  OBVIOUS
<1>1. p \in PROGRAMS /\ Numbers(p) /\ Kept(p) /\ Length(p) < UWORD
  BY DEF AllDone, AllPlaced, AllNumbers, FitUpTo
<1> QED BY <1>1, ClicksRight DEF InClicks

\* The data of a program begins behind its text, in its own space or not.
LEMMA OwnAndData ==
  ASSUME NEW p, Numbers(p)
  PROVE  OwnText(p) + DataAt(p) = sizes[p].text
BY DEF OwnText, DataAt, Numbers

\* The kernel finds its table of sizes, and reads in it what build put there.
LEMMA KernelSizesRight ==
  ASSUME AllDone, NEW p \in 0 .. 3
  PROVE  KernelSize(2 * p) = text_clicks(p) /\ KernelSize(2 * p + 1) = data_clicks(p)
<1>1. InClicks(0) /\ InClicks(p) /\ Numbers(0)
  BY AllInClicks DEF AllDone, AllNumbers
<1>2. PICK o \in Nat, t \in Nat : o = OwnText(0) /\ t = sizes[0].text /\ o % 16 = 0 /\ o + DataAt(0) = t
  BY <1>1, OwnAndData DEF InClicks, Numbers
<1>3. PICK ds \in Nat : ds = (1536 + o) \div 16 /\ 16 * ds = 1536 + o
  BY <1>2
<1>4. Word(1536 + 4) = ds
  <2>1. WordIs(512 + 4, ds)
    BY <1>2, <1>3 DEF AllDone, KernelWords
  <2>2. Word(1024 + 516) = ds
    BY <2>1, WordAt
  <2> QED BY <2>2
<1>5. DataAt(0) = t - o
  BY <1>1, <1>2 DEF DataAt, OwnText, Numbers
<1>6. \A i \in 0 .. 7 : KernelSize(i) = Word(1536 + t + 2 * i)
  <2> SUFFICES ASSUME NEW i \in 0 .. 7 PROVE KernelSize(i) = Word(1536 + t + 2 * i)
    OBVIOUS
  <2>1. 16 * ds + (t - o) + 2 * i = 1536 + t + 2 * i
    BY <1>3
  <2> QED BY <1>4, <1>5, <2>1 DEF KernelSize
<1>7. PICK tc \in Nat, dc \in Nat : tc = text_clicks(p) /\ dc = data_clicks(p)
  BY <1>1 DEF InClicks
<1>8. WordIs(512 + t + 4 * p, tc) /\ WordIs(512 + t + 4 * p + 2, dc)
  BY <1>2, <1>7 DEF AllDone, KernelWords
<1>9. 512 + t + 4 * p \in Nat /\ 512 + t + 4 * p + 2 \in Nat
  OBVIOUS
<1>10. Word(1024 + (512 + t + 4 * p)) = tc /\ Word(1024 + (512 + t + 4 * p + 2)) = dc
  BY <1>8, <1>9, WordAt
<1>11. /\ 1024 + (512 + t + 4 * p) = 1536 + t + 2 * (2 * p)
       /\ 1024 + (512 + t + 4 * p + 2) = 1536 + t + 2 * (2 * p + 1)
       /\ 2 * p \in 0 .. 7 /\ 2 * p + 1 \in 0 .. 7
  OBVIOUS
<1> QED BY <1>6, <1>7, <1>10, <1>11

\* Where the kernel takes a program to be is where the boot block has loaded it.
LEMMA TextAtRight ==
  ASSUME AllDone, NEW p \in 1 .. 3
  PROVE  /\ TextAt(p) \in Nat /\ CLICK * TextAt(p) = 1024 + Place(p)
         /\ TextLen(p) = text_clicks(p) /\ DataLen(p) = data_clicks(p)
<1>1. \A q \in 0 .. 3 : KernelSize(2 * q) = text_clicks(q) /\ KernelSize(2 * q + 1) = data_clicks(q)
  BY KernelSizesRight
<1>2. \A q \in 0 .. 4 : InClicks(q)
  BY AllInClicks
<1>3. PICK t0 \in Nat, d0 \in Nat, t1 \in Nat, d1 \in Nat, t2 \in Nat, d2 \in Nat :
        /\ t0 = text_clicks(0) /\ d0 = data_clicks(0) /\ t1 = text_clicks(1) /\ d1 = data_clicks(1)
        /\ t2 = text_clicks(2) /\ d2 = data_clicks(2)
  <2>1. \A q \in 0 .. 4 : text_clicks(q) \in Nat /\ data_clicks(q) \in Nat
    BY Zenon, <1>2 DEF InClicks
  <2>2. 0 \in 0 .. 4 /\ 1 \in 0 .. 4 /\ 2 \in 0 .. 4
    OBVIOUS
  <2> QED BY Zenon, <2>1, <2>2
<1>4. \A q \in 0 .. 2 : Length(q) = 16 * text_clicks(q) + 16 * data_clicks(q)
  <2> SUFFICES ASSUME NEW q \in 0 .. 2
               PROVE  Length(q) = 16 * text_clicks(q) + 16 * data_clicks(q)
    OBVIOUS
  <2>1. InClicks(q)
    BY <1>2
  <2>2. PICK l \in Nat, o \in Nat, x \in Nat, y \in Nat :
          l = Length(q) /\ o = OwnText(q) /\ x = text_clicks(q) /\ y = data_clicks(q)
          /\ 16 * x = o /\ 16 * y = l - o
    BY <2>1 DEF InClicks
  <2> QED BY <2>2
<1>5. /\ Length(0) = 16 * t0 + 16 * d0 /\ Length(1) = 16 * t1 + 16 * d1
      /\ Length(2) = 16 * t2 + 16 * d2
  BY <1>3, <1>4
<1>6. /\ KernelSize(0) = t0 /\ KernelSize(1) = d0 /\ KernelSize(2) = t1 /\ KernelSize(3) = d1
      /\ KernelSize(4) = t2 /\ KernelSize(5) = d2
  <2>1. /\ 2 * 0 = 0 /\ 2 * 0 + 1 = 1 /\ 2 * 1 = 2 /\ 2 * 1 + 1 = 3 /\ 2 * 2 = 4 /\ 2 * 2 + 1 = 5
        /\ 0 \in 0 .. 3 /\ 1 \in 0 .. 3 /\ 2 \in 0 .. 3
    OBVIOUS
  <2> QED BY <1>1, <1>3, <2>1
<1>7. mm_base = 96 + t0 + d0
  BY <1>6 DEF mm_base
<1>8. TextAt(p) = 96 + t0 + d0 + (IF p > 1 THEN t1 + d1 ELSE 0) + (IF p > 2 THEN t2 + d2 ELSE 0)
  BY <1>6, <1>7 DEF TextAt
<1>9. Place(p) = 512 + (16 * t0 + 16 * d0) + (IF p > 1 THEN 16 * t1 + 16 * d1 ELSE 0)
                     + (IF p > 2 THEN 16 * t2 + 16 * d2 ELSE 0)
  BY <1>5 DEF Place
<1>10. TextLen(p) = text_clicks(p) /\ DataLen(p) = data_clicks(p)
  BY <1>1 DEF TextLen, DataLen
<1> QED BY <1>8, <1>9, <1>10

\* What is laid in the image is where it belongs in memory.
LEMMA LaidLies ==
  ASSUME NEW p \in 1 .. 4, NEW at \in Nat, at = 1024 + Place(p), Place(p) \in Nat,
         Laid(p) \/ (p = 2 /\ LaidButPatched)
  PROVE  \A k \in 0 .. Length(p) - 1 : Lies(p, k, at + k)
<1> SUFFICES ASSUME NEW k \in 0 .. Length(p) - 1 PROVE Lies(p, k, at + k)
  OBVIOUS
<1>1. Memory(at + k) = image[Place(p) + k]
  <2>1. at + k - 1536 + 512 = Place(p) + k
    OBVIOUS
  <2> QED BY <2>1 DEF Memory
<1>2. image[Place(p) + k] = Cell(p, k) \/ (p = 2 /\ k - sizes[2].text \in 4 .. 9)
  BY DEF Laid, LaidButPatched
<1> QED BY <1>1, <1>2 DEF Lies, Cell

\* FS finds its table data_org[], and in it what build wrote of INIT.
LEMMA DataOrgRight ==
  ASSUME AllDone
  PROVE  data_org(2) = TextAt(3) /\ data_org(3) = TextLen(3) /\ data_org(4) = DataLen(3)
<1>1. /\ TextAt(2) \in Nat /\ 16 * TextAt(2) = 1024 + Place(2) /\ TextLen(2) = text_clicks(2)
      /\ TextAt(3) \in Nat /\ 16 * TextAt(3) = 1024 + Place(3)
      /\ TextLen(3) = text_clicks(3) /\ DataLen(3) = data_clicks(3)
  BY TextAtRight
<1>2. InClicks(2) /\ InClicks(3) /\ Numbers(2) /\ InsideImage(2) /\ InsideImage(3)
  BY AllInClicks DEF AllDone, AllNumbers, AllPlaced
<1>3. PICK a \in Nat, t \in Nat, o \in Nat, tc \in Nat :
        a = Place(2) /\ t = sizes[2].text /\ o = OwnText(2) /\ tc = text_clicks(2) /\ 16 * tc = o
  <2>1. Place(2) \in Nat
    BY <1>2 DEF InsideImage
  <2>2. sizes[2].text \in Nat
    BY <1>2 DEF Numbers
  <2>3. OwnText(2) \in Nat /\ text_clicks(2) \in Nat /\ 16 * text_clicks(2) = OwnText(2)
    BY <1>2 DEF InClicks
  <2> QED BY <2>1, <2>2, <2>3
<1>4. DataAt(2) = t - o
  BY <1>2, <1>3 DEF DataAt, OwnText, Numbers
<1>5. PICK x \in Nat : x = TextAt(2) /\ 16 * x = 1024 + a
  BY <1>1, <1>3
<1>6. DataBase(2) = x + tc
  BY <1>1, <1>3, <1>5 DEF DataBase
<1>7. \A i \in 2 .. 4 : data_org(i) = Word(1024 + (a + t + 2 * i))
  <2> SUFFICES ASSUME NEW i \in 2 .. 4 PROVE data_org(i) = Word(1024 + (a + t + 2 * i))
    OBVIOUS
  <2>1. 16 * (x + tc) + (t - o) + 2 * i = 1024 + (a + t + 2 * i)
    BY <1>3, <1>5
  <2> QED BY <1>4, <1>6, <2>1 DEF data_org
<1>8. Click(3) = TextAt(3)
  <2>1. PICK y \in Nat, z \in Nat : y = TextAt(3) /\ z = Place(3) /\ 16 * y = 1024 + z
    BY <1>1, <1>2 DEF InsideImage
  <2>2. 1536 + z - 512 = 16 * y /\ (16 * y) \div 16 = y
    BY <2>1
  <2> QED BY <2>1, <2>2 DEF Click
<1>9. PICK c \in Nat, tx \in Nat, dx \in Nat :
        c = TextAt(3) /\ c = Click(3) /\ tx = text_clicks(3) /\ dx = data_clicks(3)
  BY <1>1, <1>2, <1>8 DEF InClicks
<1>10. WordIs(a + t + 4, c) /\ WordIs(a + t + 6, tx) /\ WordIs(a + t + 8, dx)
  BY <1>3, <1>9 DEF AllDone, FSWords
<1>11. Word(1024 + (a + t + 4)) = c /\ Word(1024 + (a + t + 6)) = tx /\ Word(1024 + (a + t + 8)) = dx
  <2>1. a + t + 4 \in Nat /\ a + t + 6 \in Nat /\ a + t + 8 \in Nat
    OBVIOUS
  <2> QED BY <1>10, <2>1, WordAt
<1>12. data_org(2) = c /\ data_org(3) = tx /\ data_org(4) = dx
  <2>1. /\ a + t + 2 * 2 = a + t + 4 /\ a + t + 2 * 3 = a + t + 6 /\ a + t + 2 * 4 = a + t + 8
        /\ 2 \in 2 .. 4 /\ 3 \in 2 .. 4 /\ 4 \in 2 .. 4
    OBVIOUS
  <2> QED BY <1>7, <1>11, <2>1
<1> QED BY <1>1, <1>9, <1>12

\* The boot block finds fsck.
LEMMA BootWordsRight ==
  ASSUME AllDone
  PROVE  /\ BootWord(508) \in Nat /\ 16 * BootWord(508) = 1024 + Place(4)
         /\ 16 * BootWord(504) = 16 * BootWord(508) + OwnText(4)
<1>1. InClicks(4) /\ InsideImage(4)
  BY AllInClicks DEF AllDone, AllPlaced
<1>2. PICK a \in Nat, c \in Nat : a = Place(4) /\ c = Click(4) /\ 16 * c = 1024 + a
  <2>1. PICK a \in Nat : a = Place(4) /\ a >= 512 /\ (a - 512) % 16 = 0
    BY <1>1 DEF InsideImage
  <2>2. 16 * ((1536 + a - 512) \div 16) = 1024 + a /\ (1536 + a - 512) \div 16 \in Nat
    BY <2>1
  <2> QED BY <2>1, <2>2 DEF Click
<1>3. PICK o \in Nat, x \in Nat : o = OwnText(4) /\ x = OwnText(4) \div 16 /\ 16 * x = o
  BY <1>1 DEF InClicks
<1>4. c + x \in Nat /\ WordIs(508, c) /\ WordIs(504, c + x)
  BY <1>2, <1>3 DEF AllDone, BootWords
<1>5. BootWord(508) = c /\ BootWord(504) = c + x
  BY <1>4, WordRead DEF BootWord
<1> QED BY <1>2, <1>3, <1>5

\* The property for one program that the kernel finds.
LEMMA SegmentRight ==
  ASSUME AllDone, NEW p \in 1 .. 3
  PROVE  /\ sizes[p].sep => CLICK * TextLen(p) = sizes[p].text
         /\ CLICK * (TextLen(p) + DataLen(p)) = Length(p)
         /\ \A k \in 0 .. Length(p) - 1 : Lies(p, k, CLICK * TextAt(p) + k)
<1>1. /\ TextAt(p) \in Nat /\ 16 * TextAt(p) = 1024 + Place(p)
      /\ TextLen(p) = text_clicks(p) /\ DataLen(p) = data_clicks(p)
  BY TextAtRight
<1>2. InClicks(p) /\ InsideImage(p)
  <2>1. p \in PROGRAMS
    OBVIOUS
  <2> QED BY <2>1, AllInClicks DEF AllDone, AllPlaced
<1>3. sizes[p].sep => 16 * TextLen(p) = sizes[p].text
  BY <1>1, <1>2 DEF InClicks, OwnText
<1>4. 16 * (TextLen(p) + DataLen(p)) = Length(p)
  <2>1. PICK l \in Nat, o \in Nat, x \in Nat, y \in Nat :
          l = Length(p) /\ o = OwnText(p) /\ x = text_clicks(p) /\ y = data_clicks(p)
          /\ 16 * x = o /\ 16 * y = l - o
    BY <1>2 DEF InClicks
  <2> QED BY <1>1, <2>1
<1>5. \A k \in 0 .. Length(p) - 1 : Lies(p, k, 16 * TextAt(p) + k)
  <2>1. PICK at \in Nat : at = 16 * TextAt(p) /\ at = 1024 + Place(p)
    BY <1>1
  <2>2. Place(p) \in Nat
    BY <1>2 DEF InsideImage
  <2>3. p \in 1 .. 4 /\ (Laid(p) \/ (p = 2 /\ LaidButPatched))
    BY DEF AllDone
  <2>4. \A k \in 0 .. Length(p) - 1 : Lies(p, k, at + k)
    BY <2>1, <2>2, <2>3, LaidLies
  <2> QED BY <2>1, <2>4
<1> QED BY <1>3, <1>4, <1>5

\* MapsRight follows from the invariant.
LEMMA MapsImplied ==
  ASSUME BuildInv
  PROVE  MapsRight
<1> SUFFICES ASSUME pc = "done", AllFit PROVE MapsRight
  BY DEF MapsRight
<1>1. AllDone
  BY DoneRight
<1>2. \A p \in {1, 2, 3} :
        /\ sizes[p].sep => CLICK * TextLen(p) = sizes[p].text
        /\ CLICK * (TextLen(p) + DataLen(p)) = Length(p)
        /\ \A k \in 0 .. Length(p) - 1 : Lies(p, k, CLICK * TextAt(p) + k)
  <2> SUFFICES ASSUME NEW p \in 1 .. 3
               PROVE  /\ sizes[p].sep => CLICK * TextLen(p) = sizes[p].text
                      /\ CLICK * (TextLen(p) + DataLen(p)) = Length(p)
                      /\ \A k \in 0 .. Length(p) - 1 : Lies(p, k, CLICK * TextAt(p) + k)
    OBVIOUS
  <2> QED BY <1>1, SegmentRight
<1>3. data_org(2) = TextAt(3) /\ data_org(2 + 1) = TextLen(3) /\ data_org(2 + 2) = DataLen(3)
  <2>1. 2 + 1 = 3 /\ 2 + 2 = 4
    OBVIOUS
  <2> QED BY <1>1, <2>1, DataOrgRight
<1>4. /\ BootWord(508) \in Nat /\ 16 * BootWord(508) = 1024 + Place(4)
      /\ 16 * BootWord(504) = 16 * BootWord(508) + OwnText(4)
  BY <1>1, BootWordsRight
<1>5. \A k \in 0 .. Length(4) - 1 : Lies(4, k, 16 * BootWord(508) + k)
  <2>1. PICK at \in Nat : at = 16 * BootWord(508) /\ at = 1024 + Place(4)
    BY <1>4
  <2>2. Place(4) \in Nat /\ Laid(4)
    BY <1>1 DEF AllDone, AllPlaced, InsideImage
  <2>3. \A k \in 0 .. Length(4) - 1 : Lies(4, k, at + k)
    BY <2>1, <2>2, LaidLies
  <2> QED BY <2>1, <2>3
<1>6. 16 * BootWord(504) = 16 * BootWord(508) + (IF sizes[4].sep THEN sizes[4].text ELSE 0)
  BY <1>4 DEF OwnText
<1> QED BY <1>2, <1>3, <1>5, <1>6 DEF MapsRight

\* Whatever the sizes of the programs and of their data, and whether their spaces are
\* separate: what build() writes and what the kernel, FS and the boot block read agree.
THEOREM MapsInvariant == BuildSpec => []MapsRight
BY BuildInvariant, MapsImplied, PTL
=============================================================================
