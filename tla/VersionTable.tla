---------------------------- MODULE VersionTable ----------------------------
(***************************************************************************)
(* version_db.c: for every QR version the codewords of a symbol, the       *)
(* coordinates of the alignment patterns, and for every error-correction   *)
(* level (M, L, H, Q) the small blocks: their size, their data codewords   *)
(* and how many there are.  Blocks that are left over are one codeword     *)
(* longer.                                                                 *)
(***************************************************************************)
EXTENDS Naturals, Sequences

\* struct quirc_version_info and struct quirc_rs_params.
V(data_bytes, apat, ecc) ==
  [data_bytes |-> data_bytes, apat |-> apat,
   ecc |-> [l \in 0..3 |-> [bs |-> ecc[l + 1][1], dw |-> ecc[l + 1][2], ns |-> ecc[l + 1][3]]]]

VersionsTo14 == <<
  V(26, <<>>, <<<<26, 16, 1>>, <<26, 19, 1>>, <<26, 9, 1>>, <<26, 13, 1>>>>),
  V(44, <<6, 18>>, <<<<44, 28, 1>>, <<44, 34, 1>>, <<44, 16, 1>>, <<44, 22, 1>>>>),
  V(70, <<6, 22>>, <<<<70, 44, 1>>, <<70, 55, 1>>, <<35, 13, 2>>, <<35, 17, 2>>>>),
  V(100, <<6, 26>>, <<<<50, 32, 2>>, <<100, 80, 1>>, <<25, 9, 4>>, <<50, 24, 2>>>>),
  V(134, <<6, 30>>, <<<<67, 43, 2>>, <<134, 108, 1>>, <<33, 11, 2>>, <<33, 15, 2>>>>),
  V(172, <<6, 34>>, <<<<43, 27, 4>>, <<86, 68, 2>>, <<43, 15, 4>>, <<43, 19, 4>>>>),
  V(196, <<6, 22, 38>>, <<<<49, 31, 4>>, <<98, 78, 2>>, <<39, 13, 4>>, <<32, 14, 2>>>>),
  V(242, <<6, 24, 42>>, <<<<60, 38, 2>>, <<121, 97, 2>>, <<40, 14, 4>>, <<40, 18, 4>>>>),
  V(292, <<6, 26, 46>>, <<<<58, 36, 3>>, <<146, 116, 2>>, <<36, 12, 4>>, <<36, 16, 4>>>>),
  V(346, <<6, 28, 50>>, <<<<69, 43, 4>>, <<86, 68, 2>>, <<43, 15, 6>>, <<43, 19, 6>>>>),
  V(404, <<6, 30, 54>>, <<<<80, 50, 1>>, <<101, 81, 4>>, <<36, 12, 3>>, <<50, 22, 4>>>>),
  V(466, <<6, 32, 58>>, <<<<58, 36, 6>>, <<116, 92, 2>>, <<42, 14, 7>>, <<46, 20, 4>>>>),
  V(532, <<6, 34, 62>>, <<<<59, 37, 8>>, <<133, 107, 4>>, <<33, 11, 12>>, <<44, 20, 8>>>>),
  V(581, <<6, 26, 46, 66>>, <<<<64, 40, 4>>, <<145, 115, 3>>, <<36, 12, 11>>, <<36, 16, 11>>>>)>>

VersionsTo28 == <<
  V(655, <<6, 26, 48, 70>>, <<<<65, 41, 5>>, <<109, 87, 5>>, <<36, 12, 11>>, <<54, 24, 5>>>>),
  V(733, <<6, 26, 50, 74>>, <<<<73, 45, 7>>, <<122, 98, 5>>, <<45, 15, 3>>, <<43, 19, 15>>>>),
  V(815, <<6, 30, 54, 78>>, <<<<74, 46, 10>>, <<135, 107, 1>>, <<42, 14, 2>>, <<50, 22, 1>>>>),
  V(901, <<6, 30, 56, 82>>, <<<<69, 43, 9>>, <<150, 120, 5>>, <<42, 14, 2>>, <<50, 22, 17>>>>),
  V(991, <<6, 30, 58, 86>>, <<<<70, 44, 3>>, <<141, 113, 3>>, <<39, 13, 9>>, <<47, 21, 17>>>>),
  V(1085, <<6, 34, 62, 90>>, <<<<67, 41, 3>>, <<135, 107, 3>>, <<43, 15, 15>>, <<54, 24, 15>>>>),
  V(1156, <<6, 28, 50, 72, 92>>, <<<<68, 42, 17>>, <<144, 116, 4>>, <<46, 16, 19>>, <<50, 22, 17>>>>),
  V(1258, <<6, 26, 50, 74, 98>>, <<<<74, 46, 17>>, <<139, 111, 2>>, <<37, 13, 34>>, <<54, 24, 7>>>>),
  V(1364, <<6, 30, 54, 78, 102>>, <<<<75, 47, 4>>, <<151, 121, 4>>, <<45, 15, 16>>, <<54, 24, 11>>>>),
  V(1474, <<6, 28, 54, 80, 106>>, <<<<73, 45, 6>>, <<147, 117, 6>>, <<46, 16, 30>>, <<54, 24, 11>>>>),
  V(1588, <<6, 32, 58, 84, 110>>, <<<<75, 47, 8>>, <<132, 106, 8>>, <<45, 15, 22>>, <<54, 24, 7>>>>),
  V(1706, <<6, 30, 58, 86, 114>>, <<<<74, 46, 19>>, <<142, 114, 10>>, <<46, 16, 33>>, <<50, 22, 28>>>>),
  V(1828, <<6, 34, 62, 90, 118>>, <<<<73, 45, 22>>, <<152, 122, 8>>, <<45, 15, 12>>, <<53, 23, 8>>>>),
  V(1921, <<6, 26, 50, 74, 98, 122>>, <<<<73, 45, 3>>, <<147, 117, 3>>, <<45, 15, 11>>, <<54, 24, 4>>>>)>>

VersionsTo40 == <<
  V(2051, <<6, 30, 54, 78, 102, 126>>, <<<<73, 45, 21>>, <<146, 116, 7>>, <<45, 15, 19>>, <<53, 23, 1>>>>),
  V(2185, <<6, 26, 52, 78, 104, 130>>, <<<<75, 47, 19>>, <<145, 115, 5>>, <<45, 15, 23>>, <<54, 24, 15>>>>),
  V(2323, <<6, 30, 56, 82, 108, 134>>, <<<<74, 46, 2>>, <<145, 115, 13>>, <<45, 15, 23>>, <<54, 24, 42>>>>),
  V(2465, <<6, 34, 60, 86, 112, 138>>, <<<<74, 46, 10>>, <<145, 115, 17>>, <<45, 15, 19>>, <<54, 24, 10>>>>),
  V(2611, <<6, 30, 58, 86, 114, 142>>, <<<<74, 46, 14>>, <<145, 115, 17>>, <<45, 15, 11>>, <<54, 24, 29>>>>),
  V(2761, <<6, 34, 62, 90, 118, 146>>, <<<<74, 46, 14>>, <<145, 115, 13>>, <<46, 16, 59>>, <<54, 24, 44>>>>),
  V(2876, <<6, 30, 54, 78, 102, 126, 150>>, <<<<75, 47, 12>>, <<151, 121, 12>>, <<45, 15, 22>>, <<54, 24, 39>>>>),
  V(3034, <<6, 24, 50, 76, 102, 128, 154>>, <<<<75, 47, 6>>, <<151, 121, 6>>, <<45, 15, 2>>, <<54, 24, 46>>>>),
  V(3196, <<6, 28, 54, 80, 106, 132, 158>>, <<<<74, 46, 29>>, <<152, 122, 17>>, <<45, 15, 24>>, <<54, 24, 49>>>>),
  V(3362, <<6, 32, 58, 84, 110, 136, 162>>, <<<<74, 46, 13>>, <<152, 122, 4>>, <<45, 15, 42>>, <<54, 24, 48>>>>),
  V(3532, <<6, 26, 54, 82, 110, 138, 166>>, <<<<75, 47, 40>>, <<147, 117, 20>>, <<45, 15, 10>>, <<54, 24, 43>>>>),
  V(3706, <<6, 30, 58, 86, 114, 142, 170>>, <<<<75, 47, 18>>, <<148, 118, 19>>, <<45, 15, 20>>, <<54, 24, 34>>>>)>>

quirc_version_db == VersionsTo14 \o VersionsTo28 \o VersionsTo40
MaxVersion == Len(quirc_version_db)
=============================================================================
