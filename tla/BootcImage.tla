----------------------------- MODULE BootcImage -----------------------------
(***************************************************************************)
(* What the signing and sealing commands tell apart in a bootc image, the  *)
(* jobs a user can ask for, and what each of them makes of an image.       *)
(*                                                                         *)
(* The rootfs of a sealed image is signed with a private key; the          *)
(* initramfs carries the public half and refuses any other rootfs.  Any    *)
(* change of the image breaks the seal until it is signed again.           *)
(***************************************************************************)
EXTENDS FiniteSets

CONSTANTS
  Name,         \* image references in the container store, and archive files
  Proc,         \* aib processes; one also stands for the random name
                \* "localhost/aib-<96 bits>" that process may draw
  Dir,          \* directories of files to sign
  Tree,         \* built OS trees (kernel, rootfs, signing_info.json)
  Key,          \* key pairs, named by their public half
  SignedFile,   \* the files signing_info.json lists
  Aboot,        \* the trees with /usr/lib/modules/<kernel>/aboot.img
  Unsignable,   \* the trees without /etc/signing_info.json
  Jobs,         \* the commands users run
  BuildKey,     \* stands for the throwaway keys osbuild seals a build with
  NoImage, NoKey, NoJob, NoFile, Broken, Torn

Ref == Name \cup Proc

\* An image: the tree it was built from; of the initramfs it boots, which is the
\* one packed in aboot.img where there is one, the tree it comes from (Torn when
\* that file is incomplete) and the public key; the key its rootfs is signed
\* with; and the listed files replaced by signed ones.
Image == [tree : Tree, initrd : Tree \cup {Torn}, key : Key,
          seal : Key \cup {Broken}, files : SUBSET SignedFile]

Command == {"prepare-reseal", "extract-for-signing", "inject-signed", "reseal"}

\* A command line.  `key` is --key or --reseal-with-key (NoKey: not given),
\* `oci` is --oci-archive, `dir` the directory of files to sign.
Job == [cmd : Command, src : Name, dst : Name, key : Key \cup {NoKey},
        oci : BOOLEAN, dir : Dir]

ASSUME BootcImageAssumption ==
  /\ Name \cap Proc = {}
  /\ NoImage \notin Image
  /\ NoKey \notin Key
  /\ NoJob \notin Job
  /\ Broken \notin Key
  /\ Torn \notin Tree
  /\ NoFile \notin Tree \cup {Torn}
  /\ BuildKey \in Key
  /\ Aboot \subseteq Tree
  /\ Unsignable \subseteq Tree
  /\ Jobs \subseteq Job
  /\ Jobs # {}
  /\ SignedFile # {}
  /\ \A j \in Jobs : j.cmd = "prepare-reseal" => j.key # NoKey /\ ~j.oci

\* An image as osbuild leaves it: sealed, with nothing signed by a third party.
Fresh(t) == [tree |-> t, initrd |-> t, key |-> BuildKey, seal |-> BuildKey,
             files |-> {}]

\* What podman_bootc_inject_pubkey commits: the initramfs it was handed (of
\* tree i) extended with key k.  aboot-update, when it is run, rebuilds
\* aboot.img from it, and with that drops the signature aboot.img had; an
\* aboot.img that is not rebuilt boots what it did.
WithKey(img, i, k, update) ==
  IF img.tree \in Aboot /\ ~update THEN [img EXCEPT !.seal = Broken]
  ELSE [img EXCEPT !.initrd = i, !.key = k, !.seal = Broken,
                   !.files = IF update THEN {} ELSE @]

\* WithKey of the image's own initramfs, by its own kind.
Rekeyed(img, k) == WithKey(img, img.initrd, k, img.tree \in Aboot)

\* The image after one signed file was copied over the built one.
WithFile(img, f) == [img EXCEPT !.seal = Broken, !.files = @ \cup {f}]

\* rpm-ostree build-chunked-oci --sign-commit: the same content, signed.
Sealed(img, k) == [img EXCEPT !.seal = k]

\* What a command promises to make of the image its source names.
Outcome(j, img) ==
  CASE j.cmd = "prepare-reseal" -> {Rekeyed(img, j.key)}
    [] j.cmd = "inject-signed" /\ j.key = NoKey ->
         {[img EXCEPT !.seal = Broken, !.files = SignedFile]}
    [] j.cmd = "inject-signed" /\ j.key # NoKey ->
         {[img EXCEPT !.seal = j.key, !.files = SignedFile]}
    [] j.cmd = "reseal" /\ j.key # NoKey -> {Sealed(img, j.key)}
    [] j.cmd = "reseal" /\ j.key = NoKey ->
         {Sealed(Rekeyed(img, k), k) : k \in Key}
    [] OTHER -> {}
=============================================================================
