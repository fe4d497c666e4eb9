--------------------------- MODULE MCOciAcquire ---------------------------
(* Two images; the first one's registry or metadata is wrong in one of several    *)
(* ways, or in none.                                                             *)
EXTENDS OciAcquire

Images == <<"nativelink", "ubuntu">>
Digests == {"P", "M", "O", "C", "D", "L", "p", "m", "c", "l"}

Native(arch) == IF arch = "x86_64" THEN <<"amd64", None>> ELSE <<"arm64", "v8">>
OtherPlatform == <<"s390x", None>>
Child(d, platform) == [digest |-> d, platform |-> platform]

Children(shape, platform) ==
  CASE shape = "second" -> <<Child("O", OtherPlatform), Child("M", platform)>>
    [] shape = "two"    -> <<Child("M", platform), Child("O", platform)>>
    [] shape = "twice"  -> <<Child("M", platform), Child("M", NoPlatform)>>
    [] shape = "absent" -> <<Child("M", NoPlatform)>>
    [] OTHER            -> <<Child("M", platform), Child("O", OtherPlatform)>>
Layers(shape) ==
  CASE shape = "empty"  -> <<>>
    [] shape = "shares" -> <<"L", "C", "L">>
    [] shape = "reuses" -> <<"L", "P">>
    [] OTHER            -> <<"L">>

Documents(shape, platform) ==
  LET body == [P |-> Index(Children(shape, platform)),
               M |-> Manifest(IF shape = "drift" THEN "D" ELSE "C", Layers(shape)),
               O |-> Manifest("D", <<"L">>),
               C |-> Config(platform), D |-> Config(OtherPlatform), L |-> Blob,
               p |-> Index(<<Child("m", platform)>>), m |-> Manifest("c", <<"l">>),
               c |-> Config(platform), l |-> Blob]
  IN  [d \in Digests |-> body[d]]

Archive(arch, platform, root, parent, blobs) ==
  [root |-> IF arch = "x86_64" THEN parent ELSE root, annotated |-> arch = "x86_64",
   platform |-> IF arch = "x86_64" THEN NoPlatform ELSE platform,
   blobs |-> [d \in blobs |-> d]]

World(shape, arch, auth) ==
  LET platform == Native(arch)
  IN  [docs |-> Documents(shape, platform), auth |-> auth, arch |-> arch,
       documents |-> <<{"P", "M", "O", "C", "D", "L"}, {"p", "m", "c", "l"}>>,
       contracts |->
         <<[parent |-> "P", platform |-> platform,
            manifest |-> CASE shape = "other" -> "O" [] shape = "untracked" -> None [] OTHER -> "M",
            archive |-> IF shape = "stale" THEN Archive(arch, platform, "M", "P", {"P", "M", "C"})
                        ELSE Archive(arch, platform, "M", "P", {"P", "M", "C", "L"})],
           [parent |-> "p", platform |-> platform, manifest |-> "m",
            archive |-> Archive(arch, platform, "m", "p", {"p", "m", "c", "l"})]>>]

TheWorlds ==
  LET wrong == {"second", "two", "twice", "absent", "empty", "reuses", "drift", "other", "stale",
                "untracked"}
      right == {"good", "shares"}
  IN  {World(s, a, FALSE) : s \in wrong \cup right, a \in {"x86_64", "aarch64"}}
      \cup {World("good", a, TRUE) : a \in {"x86_64", "aarch64"}}
=============================================================================
