---------------------------- MODULE Crc32Table ------------------------------
(***************************************************************************)
(* crc32_table of crc32.h.  The table is eight tables of 256 words behind  *)
(* each other; crc32_table_k is the one from index 256 * k on.  Each word  *)
(* is written as its two halves, the high one first.                       *)
(***************************************************************************)
EXTENDS Integers, Sequences

\* Word i of such a table, i from 0.
TableWord(halves, i) == <<halves[2 * i + 1], halves[2 * i + 2]>>

crc32_table_0 == <<
  \h0, \h0, \h7707, \h3096, \hee0e, \h612c, \h9909, \h51ba, \h76d, \hc419, \h706a, \hf48f, \he963, \ha535, \h9e64, \h95a3, \hedb, \h8832, \h79dc, \hb8a4,
  \he0d5, \he91e, \h97d2, \hd988, \h9b6, \h4c2b, \h7eb1, \h7cbd, \he7b8, \h2d07, \h90bf, \h1d91, \h1db7, \h1064, \h6ab0, \h20f2, \hf3b9, \h7148, \h84be, \h41de,
  \h1ada, \hd47d, \h6ddd, \he4eb, \hf4d4, \hb551, \h83d3, \h85c7, \h136c, \h9856, \h646b, \ha8c0, \hfd62, \hf97a, \h8a65, \hc9ec, \h1401, \h5c4f, \h6306, \h6cd9,
  \hfa0f, \h3d63, \h8d08, \hdf5, \h3b6e, \h20c8, \h4c69, \h105e, \hd560, \h41e4, \ha267, \h7172, \h3c03, \he4d1, \h4b04, \hd447, \hd20d, \h85fd, \ha50a, \hb56b,
  \h35b5, \ha8fa, \h42b2, \h986c, \hdbbb, \hc9d6, \hacbc, \hf940, \h32d8, \h6ce3, \h45df, \h5c75, \hdcd6, \hdcf, \habd1, \h3d59, \h26d9, \h30ac, \h51de, \h3a,
  \hc8d7, \h5180, \hbfd0, \h6116, \h21b4, \hf4b5, \h56b3, \hc423, \hcfba, \h9599, \hb8bd, \ha50f, \h2802, \hb89e, \h5f05, \h8808, \hc60c, \hd9b2, \hb10b, \he924,
  \h2f6f, \h7c87, \h5868, \h4c11, \hc161, \h1dab, \hb666, \h2d3d, \h76dc, \h4190, \h1db, \h7106, \h98d2, \h20bc, \hefd5, \h102a, \h71b1, \h8589, \h6b6, \hb51f,
  \h9fbf, \he4a5, \he8b8, \hd433, \h7807, \hc9a2, \hf00, \hf934, \h9609, \ha88e, \he10e, \h9818, \h7f6a, \hdbb, \h86d, \h3d2d, \h9164, \h6c97, \he663, \h5c01,
  \h6b6b, \h51f4, \h1c6c, \h6162, \h8565, \h30d8, \hf262, \h4e, \h6c06, \h95ed, \h1b01, \ha57b, \h8208, \hf4c1, \hf50f, \hc457, \h65b0, \hd9c6, \h12b7, \he950,
  \h8bbe, \hb8ea, \hfcb9, \h887c, \h62dd, \h1ddf, \h15da, \h2d49, \h8cd3, \h7cf3, \hfbd4, \h4c65, \h4db2, \h6158, \h3ab5, \h51ce, \ha3bc, \h74, \hd4bb, \h30e2,
  \h4adf, \ha541, \h3dd8, \h95d7, \ha4d1, \hc46d, \hd3d6, \hf4fb, \h4369, \he96a, \h346e, \hd9fc, \had67, \h8846, \hda60, \hb8d0, \h4404, \h2d73, \h3303, \h1de5,
  \haa0a, \h4c5f, \hdd0d, \h7cc9, \h5005, \h713c, \h2702, \h41aa, \hbe0b, \h1010, \hc90c, \h2086, \h5768, \hb525, \h206f, \h85b3, \hb966, \hd409, \hce61, \he49f,
  \h5ede, \hf90e, \h29d9, \hc998, \hb0d0, \h9822, \hc7d7, \ha8b4, \h59b3, \h3d17, \h2eb4, \hd81, \hb7bd, \h5c3b, \hc0ba, \h6cad, \hedb8, \h8320, \h9abf, \hb3b6,
  \h3b6, \he20c, \h74b1, \hd29a, \head5, \h4739, \h9dd2, \h77af, \h4db, \h2615, \h73dc, \h1683, \he363, \hb12, \h9464, \h3b84, \hd6d, \h6a3e, \h7a6a, \h5aa8,
  \he40e, \hcf0b, \h9309, \hff9d, \ha00, \hae27, \h7d07, \h9eb1, \hf00f, \h9344, \h8708, \ha3d2, \h1e01, \hf268, \h6906, \hc2fe, \hf762, \h575d, \h8065, \h67cb,
  \h196c, \h3671, \h6e6b, \h6e7, \hfed4, \h1b76, \h89d3, \h2be0, \h10da, \h7a5a, \h67dd, \h4acc, \hf9b9, \hdf6f, \h8ebe, \heff9, \h17b7, \hbe43, \h60b0, \h8ed5,
  \hd6d6, \ha3e8, \ha1d1, \h937e, \h38d8, \hc2c4, \h4fdf, \hf252, \hd1bb, \h67f1, \ha6bc, \h5767, \h3fb5, \h6dd, \h48b2, \h364b, \hd80d, \h2bda, \haf0a, \h1b4c,
  \h3603, \h4af6, \h4104, \h7a60, \hdf60, \hefc3, \ha867, \hdf55, \h316e, \h8eef, \h4669, \hbe79, \hcb61, \hb38c, \hbc66, \h831a, \h256f, \hd2a0, \h5268, \he236,
  \hcc0c, \h7795, \hbb0b, \h4703, \h2202, \h16b9, \h5505, \h262f, \hc5ba, \h3bbe, \hb2bd, \hb28, \h2bb4, \h5a92, \h5cb3, \h6a04, \hc2d7, \hffa7, \hb5d0, \hcf31,
  \h2cd9, \h9e8b, \h5bde, \hae1d, \h9b64, \hc2b0, \hec63, \hf226, \h756a, \ha39c, \h26d, \h930a, \h9c09, \h6a9, \heb0e, \h363f, \h7207, \h6785, \h500, \h5713,
  \h95bf, \h4a82, \he2b8, \h7a14, \h7bb1, \h2bae, \hcb6, \h1b38, \h92d2, \h8e9b, \he5d5, \hbe0d, \h7cdc, \hefb7, \hbdb, \hdf21, \h86d3, \hd2d4, \hf1d4, \he242,
  \h68dd, \hb3f8, \h1fda, \h836e, \h81be, \h16cd, \hf6b9, \h265b, \h6fb0, \h77e1, \h18b7, \h4777, \h8808, \h5ae6, \hff0f, \h6a70, \h6606, \h3bca, \h1101, \hb5c,
  \h8f65, \h9eff, \hf862, \hae69, \h616b, \hffd3, \h166c, \hcf45, \ha00a, \he278, \hd70d, \hd2ee, \h4e04, \h8354, \h3903, \hb3c2, \ha767, \h2661, \hd060, \h16f7,
  \h4969, \h474d, \h3e6e, \h77db, \haed1, \h6a4a, \hd9d6, \h5adc, \h40df, \hb66, \h37d8, \h3bf0, \ha9bc, \hae53, \hdebb, \h9ec5, \h47b2, \hcf7f, \h30b5, \hffe9,
  \hbdbd, \hf21c, \hcaba, \hc28a, \h53b3, \h9330, \h24b4, \ha3a6, \hbad0, \h3605, \hcdd7, \h693, \h54de, \h5729, \h23d9, \h67bf, \hb366, \h7a2e, \hc461, \h4ab8,
  \h5d68, \h1b02, \h2a6f, \h2b94, \hb40b, \hbe37, \hc30c, \h8ea1, \h5a05, \hdf1b, \h2d02, \hef8d>>

crc32_table_1 == <<
  \h0, \h0, \h191b, \h3141, \h3236, \h6282, \h2b2d, \h53c3, \h646c, \hc504, \h7d77, \hf445, \h565a, \ha786, \h4f41, \h96c7, \hc8d9, \h8a08, \hd1c2, \hbb49,
  \hfaef, \he88a, \he3f4, \hd9cb, \hacb5, \h4f0c, \hb5ae, \h7e4d, \h9e83, \h2d8e, \h8798, \h1ccf, \h4ac2, \h1251, \h53d9, \h2310, \h78f4, \h70d3, \h61ef, \h4192,
  \h2eae, \hd755, \h37b5, \he614, \h1c98, \hb5d7, \h583, \h8496, \h821b, \h9859, \h9b00, \ha918, \hb02d, \hfadb, \ha936, \hcb9a, \he677, \h5d5d, \hff6c, \h6c1c,
  \hd441, \h3fdf, \hcd5a, \he9e, \h9584, \h24a2, \h8c9f, \h15e3, \ha7b2, \h4620, \hbea9, \h7761, \hf1e8, \he1a6, \he8f3, \hd0e7, \hc3de, \h8324, \hdac5, \hb265,
  \h5d5d, \haeaa, \h4446, \h9feb, \h6f6b, \hcc28, \h7670, \hfd69, \h3931, \h6bae, \h202a, \h5aef, \hb07, \h92c, \h121c, \h386d, \hdf46, \h36f3, \hc65d, \h7b2,
  \hed70, \h5471, \hf46b, \h6530, \hbb2a, \hf3f7, \ha231, \hc2b6, \h891c, \h9175, \h9007, \ha034, \h179f, \hbcfb, \he84, \h8dba, \h25a9, \hde79, \h3cb2, \hef38,
  \h73f3, \h79ff, \h6ae8, \h48be, \h41c5, \h1b7d, \h58de, \h2a3c, \hf079, \h4f05, \he962, \h7e44, \hc24f, \h2d87, \hdb54, \h1cc6, \h9415, \h8a01, \h8d0e, \hbb40,
  \ha623, \he883, \hbf38, \hd9c2, \h38a0, \hc50d, \h21bb, \hf44c, \ha96, \ha78f, \h138d, \h96ce, \h5ccc, \h9, \h45d7, \h3148, \h6efa, \h628b, \h77e1, \h53ca,
  \hbabb, \h5d54, \ha3a0, \h6c15, \h888d, \h3fd6, \h9196, \he97, \hded7, \h9850, \hc7cc, \ha911, \hece1, \hfad2, \hf5fa, \hcb93, \h7262, \hd75c, \h6b79, \he61d,
  \h4054, \hb5de, \h594f, \h849f, \h160e, \h1258, \hf15, \h2319, \h2438, \h70da, \h3d23, \h419b, \h65fd, \h6ba7, \h7ce6, \h5ae6, \h57cb, \h925, \h4ed0, \h3864,
  \h191, \haea3, \h188a, \h9fe2, \h33a7, \hcc21, \h2abc, \hfd60, \had24, \he1af, \hb43f, \hd0ee, \h9f12, \h832d, \h8609, \hb26c, \hc948, \h24ab, \hd053, \h15ea,
  \hfb7e, \h4629, \he265, \h7768, \h2f3f, \h79f6, \h3624, \h48b7, \h1d09, \h1b74, \h412, \h2a35, \h4b53, \hbcf2, \h5248, \h8db3, \h7965, \hde70, \h607e, \hef31,
  \he7e6, \hf3fe, \hfefd, \hc2bf, \hd5d0, \h917c, \hcccb, \ha03d, \h838a, \h36fa, \h9a91, \h7bb, \hb1bc, \h5478, \ha8a7, \h6539, \h3b83, \h984b, \h2298, \ha90a,
  \h9b5, \hfac9, \h10ae, \hcb88, \h5fef, \h5d4f, \h46f4, \h6c0e, \h6dd9, \h3fcd, \h74c2, \he8c, \hf35a, \h1243, \hea41, \h2302, \hc16c, \h70c1, \hd877, \h4180,
  \h9736, \hd747, \h8e2d, \he606, \ha500, \hb5c5, \hbc1b, \h8484, \h7141, \h8a1a, \h685a, \hbb5b, \h4377, \he898, \h5a6c, \hd9d9, \h152d, \h4f1e, \hc36, \h7e5f,
  \h271b, \h2d9c, \h3e00, \h1cdd, \hb998, \h12, \ha083, \h3153, \h8bae, \h6290, \h92b5, \h53d1, \hddf4, \hc516, \hc4ef, \hf457, \hefc2, \ha794, \hf6d9, \h96d5,
  \hae07, \hbce9, \hb71c, \h8da8, \h9c31, \hde6b, \h852a, \hef2a, \hca6b, \h79ed, \hd370, \h48ac, \hf85d, \h1b6f, \he146, \h2a2e, \h66de, \h36e1, \h7fc5, \h7a0,
  \h54e8, \h5463, \h4df3, \h6522, \h2b2, \hf3e5, \h1ba9, \hc2a4, \h3084, \h9167, \h299f, \ha026, \he4c5, \haeb8, \hfdde, \h9ff9, \hd6f3, \hcc3a, \hcfe8, \hfd7b,
  \h80a9, \h6bbc, \h99b2, \h5afd, \hb29f, \h93e, \hab84, \h387f, \h2c1c, \h24b0, \h3507, \h15f1, \h1e2a, \h4632, \h731, \h7773, \h4870, \he1b4, \h516b, \hd0f5,
  \h7a46, \h8336, \h635d, \hb277, \hcbfa, \hd74e, \hd2e1, \he60f, \hf9cc, \hb5cc, \he0d7, \h848d, \haf96, \h124a, \hb68d, \h230b, \h9da0, \h70c8, \h84bb, \h4189,
  \h323, \h5d46, \h1a38, \h6c07, \h3115, \h3fc4, \h280e, \he85, \h674f, \h9842, \h7e54, \ha903, \h5579, \hfac0, \h4c62, \hcb81, \h8138, \hc51f, \h9823, \hf45e,
  \hb30e, \ha79d, \haa15, \h96dc, \he554, \h1b, \hfc4f, \h315a, \hd762, \h6299, \hce79, \h53d8, \h49e1, \h4f17, \h50fa, \h7e56, \h7bd7, \h2d95, \h62cc, \h1cd4,
  \h2d8d, \h8a13, \h3496, \hbb52, \h1fbb, \he891, \h6a0, \hd9d0, \h5e7e, \hf3ec, \h4765, \hc2ad, \h6c48, \h916e, \h7553, \ha02f, \h3a12, \h36e8, \h2309, \h7a9,
  \h824, \h546a, \h113f, \h652b, \h96a7, \h79e4, \h8fbc, \h48a5, \ha491, \h1b66, \hbd8a, \h2a27, \hf2cb, \hbce0, \hebd0, \h8da1, \hc0fd, \hde62, \hd9e6, \hef23,
  \h14bc, \he1bd, \hda7, \hd0fc, \h268a, \h833f, \h3f91, \hb27e, \h70d0, \h24b9, \h69cb, \h15f8, \h42e6, \h463b, \h5bfd, \h777a, \hdc65, \h6bb5, \hc57e, \h5af4,
  \hee53, \h937, \hf748, \h3876, \hb809, \haeb1, \ha112, \h9ff0, \h8a3f, \hcc33, \h9324, \hfd72>>

crc32_table_2 == <<
  \h0, \h0, \h1c2, \h6a37, \h384, \hd46e, \h246, \hbe59, \h709, \ha8dc, \h6cb, \hc2eb, \h48d, \h7cb2, \h54f, \h1685, \he13, \h51b8, \hfd1, \h3b8f,
  \hd97, \h85d6, \hc55, \hefe1, \h91a, \hf964, \h8d8, \h9353, \ha9e, \h2d0a, \hb5c, \h473d, \h1c26, \ha370, \h1de4, \hc947, \h1fa2, \h771e, \h1e60, \h1d29,
  \h1b2f, \hbac, \h1aed, \h619b, \h18ab, \hdfc2, \h1969, \hb5f5, \h1235, \hf2c8, \h13f7, \h98ff, \h11b1, \h26a6, \h1073, \h4c91, \h153c, \h5a14, \h14fe, \h3023,
  \h16b8, \h8e7a, \h177a, \he44d, \h384d, \h46e0, \h398f, \h2cd7, \h3bc9, \h928e, \h3a0b, \hf8b9, \h3f44, \hee3c, \h3e86, \h840b, \h3cc0, \h3a52, \h3d02, \h5065,
  \h365e, \h1758, \h379c, \h7d6f, \h35da, \hc336, \h3418, \ha901, \h3157, \hbf84, \h3095, \hd5b3, \h32d3, \h6bea, \h3311, \h1dd, \h246b, \he590, \h25a9, \h8fa7,
  \h27ef, \h31fe, \h262d, \h5bc9, \h2362, \h4d4c, \h22a0, \h277b, \h20e6, \h9922, \h2124, \hf315, \h2a78, \hb428, \h2bba, \hde1f, \h29fc, \h6046, \h283e, \ha71,
  \h2d71, \h1cf4, \h2cb3, \h76c3, \h2ef5, \hc89a, \h2f37, \ha2ad, \h709a, \h8dc0, \h7158, \he7f7, \h731e, \h59ae, \h72dc, \h3399, \h7793, \h251c, \h7651, \h4f2b,
  \h7417, \hf172, \h75d5, \h9b45, \h7e89, \hdc78, \h7f4b, \hb64f, \h7d0d, \h816, \h7ccf, \h6221, \h7980, \h74a4, \h7842, \h1e93, \h7a04, \ha0ca, \h7bc6, \hcafd,
  \h6cbc, \h2eb0, \h6d7e, \h4487, \h6f38, \hfade, \h6efa, \h90e9, \h6bb5, \h866c, \h6a77, \hec5b, \h6831, \h5202, \h69f3, \h3835, \h62af, \h7f08, \h636d, \h153f,
  \h612b, \hab66, \h60e9, \hc151, \h65a6, \hd7d4, \h6464, \hbde3, \h6622, \h3ba, \h67e0, \h698d, \h48d7, \hcb20, \h4915, \ha117, \h4b53, \h1f4e, \h4a91, \h7579,
  \h4fde, \h63fc, \h4e1c, \h9cb, \h4c5a, \hb792, \h4d98, \hdda5, \h46c4, \h9a98, \h4706, \hf0af, \h4540, \h4ef6, \h4482, \h24c1, \h41cd, \h3244, \h400f, \h5873,
  \h4249, \he62a, \h438b, \h8c1d, \h54f1, \h6850, \h5533, \h267, \h5775, \hbc3e, \h56b7, \hd609, \h53f8, \hc08c, \h523a, \haabb, \h507c, \h14e2, \h51be, \h7ed5,
  \h5ae2, \h39e8, \h5b20, \h53df, \h5966, \hed86, \h58a4, \h87b1, \h5deb, \h9134, \h5c29, \hfb03, \h5e6f, \h455a, \h5fad, \h2f6d, \he135, \h1b80, \he0f7, \h71b7,
  \he2b1, \hcfee, \he373, \ha5d9, \he63c, \hb35c, \he7fe, \hd96b, \he5b8, \h6732, \he47a, \hd05, \hef26, \h4a38, \heee4, \h200f, \heca2, \h9e56, \hed60, \hf461,
  \he82f, \he2e4, \he9ed, \h88d3, \hebab, \h368a, \hea69, \h5cbd, \hfd13, \hb8f0, \hfcd1, \hd2c7, \hfe97, \h6c9e, \hff55, \h6a9, \hfa1a, \h102c, \hfbd8, \h7a1b,
  \hf99e, \hc442, \hf85c, \hae75, \hf300, \he948, \hf2c2, \h837f, \hf084, \h3d26, \hf146, \h5711, \hf409, \h4194, \hf5cb, \h2ba3, \hf78d, \h95fa, \hf64f, \hffcd,
  \hd978, \h5d60, \hd8ba, \h3757, \hdafc, \h890e, \hdb3e, \he339, \hde71, \hf5bc, \hdfb3, \h9f8b, \hddf5, \h21d2, \hdc37, \h4be5, \hd76b, \hcd8, \hd6a9, \h66ef,
  \hd4ef, \hd8b6, \hd52d, \hb281, \hd062, \ha404, \hd1a0, \hce33, \hd3e6, \h706a, \hd224, \h1a5d, \hc55e, \hfe10, \hc49c, \h9427, \hc6da, \h2a7e, \hc718, \h4049,
  \hc257, \h56cc, \hc395, \h3cfb, \hc1d3, \h82a2, \hc011, \he895, \hcb4d, \hafa8, \hca8f, \hc59f, \hc8c9, \h7bc6, \hc90b, \h11f1, \hcc44, \h774, \hcd86, \h6d43,
  \hcfc0, \hd31a, \hce02, \hb92d, \h91af, \h9640, \h906d, \hfc77, \h922b, \h422e, \h93e9, \h2819, \h96a6, \h3e9c, \h9764, \h54ab, \h9522, \heaf2, \h94e0, \h80c5,
  \h9fbc, \hc7f8, \h9e7e, \hadcf, \h9c38, \h1396, \h9dfa, \h79a1, \h98b5, \h6f24, \h9977, \h513, \h9b31, \hbb4a, \h9af3, \hd17d, \h8d89, \h3530, \h8c4b, \h5f07,
  \h8e0d, \he15e, \h8fcf, \h8b69, \h8a80, \h9dec, \h8b42, \hf7db, \h8904, \h4982, \h88c6, \h23b5, \h839a, \h6488, \h8258, \hebf, \h801e, \hb0e6, \h81dc, \hdad1,
  \h8493, \hcc54, \h8551, \ha663, \h8717, \h183a, \h86d5, \h720d, \ha9e2, \hd0a0, \ha820, \hba97, \haa66, \h4ce, \haba4, \h6ef9, \haeeb, \h787c, \haf29, \h124b,
  \had6f, \hac12, \hacad, \hc625, \ha7f1, \h8118, \ha633, \heb2f, \ha475, \h5576, \ha5b7, \h3f41, \ha0f8, \h29c4, \ha13a, \h43f3, \ha37c, \hfdaa, \ha2be, \h979d,
  \hb5c4, \h73d0, \hb406, \h19e7, \hb640, \ha7be, \hb782, \hcd89, \hb2cd, \hdb0c, \hb30f, \hb13b, \hb149, \hf62, \hb08b, \h6555, \hbbd7, \h2268, \hba15, \h485f,
  \hb853, \hf606, \hb991, \h9c31, \hbcde, \h8ab4, \hbd1c, \he083, \hbf5a, \h5eda, \hbe98, \h34ed>>

crc32_table_3 == <<
  \h0, \h0, \hb8bc, \h6765, \haa09, \hc88b, \h12b5, \hafee, \h8f62, \h9757, \h37de, \hf032, \h256b, \h5fdc, \h9dd7, \h38b9, \hc5b4, \h28ef, \h7d08, \h4f8a,
  \h6fbd, \he064, \hd701, \h8701, \h4ad6, \hbfb8, \hf26a, \hd8dd, \he0df, \h7733, \h5863, \h1056, \h5019, \h579f, \he8a5, \h30fa, \hfa10, \h9f14, \h42ac, \hf871,
  \hdf7b, \hc0c8, \h67c7, \ha7ad, \h7572, \h843, \hcdce, \h6f26, \h95ad, \h7f70, \h2d11, \h1815, \h3fa4, \hb7fb, \h8718, \hd09e, \h1acf, \he827, \ha273, \h8f42,
  \hb0c6, \h20ac, \h87a, \h47c9, \ha032, \haf3e, \h188e, \hc85b, \ha3b, \h67b5, \hb287, \hd0, \h2f50, \h3869, \h97ec, \h5f0c, \h8559, \hf0e2, \h3de5, \h9787,
  \h6586, \h87d1, \hdd3a, \he0b4, \hcf8f, \h4f5a, \h7733, \h283f, \heae4, \h1086, \h5258, \h77e3, \h40ed, \hd80d, \hf851, \hbf68, \hf02b, \hf8a1, \h4897, \h9fc4,
  \h5a22, \h302a, \he29e, \h574f, \h7f49, \h6ff6, \hc7f5, \h893, \hd540, \ha77d, \h6dfc, \hc018, \h359f, \hd04e, \h8d23, \hb72b, \h9f96, \h18c5, \h272a, \h7fa0,
  \hbafd, \h4719, \h241, \h207c, \h10f4, \h8f92, \ha848, \he8f7, \h9b14, \h583d, \h23a8, \h3f58, \h311d, \h90b6, \h89a1, \hf7d3, \h1476, \hcf6a, \hacca, \ha80f,
  \hbe7f, \h7e1, \h6c3, \h6084, \h5ea0, \h70d2, \he61c, \h17b7, \hf4a9, \hb859, \h4c15, \hdf3c, \hd1c2, \he785, \h697e, \h80e0, \h7bcb, \h2f0e, \hc377, \h486b,
  \hcb0d, \hfa2, \h73b1, \h68c7, \h6104, \hc729, \hd9b8, \ha04c, \h446f, \h98f5, \hfcd3, \hff90, \hee66, \h507e, \h56da, \h371b, \heb9, \h274d, \hb605, \h4028,
  \ha4b0, \hefc6, \h1c0c, \h88a3, \h81db, \hb01a, \h3967, \hd77f, \h2bd2, \h7891, \h936e, \h1ff4, \h3b26, \hf703, \h839a, \h9066, \h912f, \h3f88, \h2993, \h58ed,
  \hb444, \h6054, \hcf8, \h731, \h1e4d, \ha8df, \ha6f1, \hcfba, \hfe92, \hdfec, \h462e, \hb889, \h549b, \h1767, \hec27, \h7002, \h71f0, \h48bb, \hc94c, \h2fde,
  \hdbf9, \h8030, \h6345, \he755, \h6b3f, \ha09c, \hd383, \hc7f9, \hc136, \h6817, \h798a, \hf72, \he45d, \h37cb, \h5ce1, \h50ae, \h4e54, \hff40, \hf6e8, \h9825,
  \hae8b, \h8873, \h1637, \hef16, \h482, \h40f8, \hbc3e, \h279d, \h21e9, \h1f24, \h9955, \h7841, \h8be0, \hd7af, \h335c, \hb0ca, \hed59, \hb63b, \h55e5, \hd15e,
  \h4750, \h7eb0, \hffec, \h19d5, \h623b, \h216c, \hda87, \h4609, \hc832, \he9e7, \h708e, \h8e82, \h28ed, \h9ed4, \h9051, \hf9b1, \h82e4, \h565f, \h3a58, \h313a,
  \ha78f, \h983, \h1f33, \h6ee6, \hd86, \hc108, \hb53a, \ha66d, \hbd40, \he1a4, \h5fc, \h86c1, \h1749, \h292f, \haff5, \h4e4a, \h3222, \h76f3, \h8a9e, \h1196,
  \h982b, \hbe78, \h2097, \hd91d, \h78f4, \hc94b, \hc048, \hae2e, \hd2fd, \h1c0, \h6a41, \h66a5, \hf796, \h5e1c, \h4f2a, \h3979, \h5d9f, \h9697, \he523, \hf1f2,
  \h4d6b, \h1905, \hf5d7, \h7e60, \he762, \hd18e, \h5fde, \hb6eb, \hc209, \h8e52, \h7ab5, \he937, \h6800, \h46d9, \hd0bc, \h21bc, \h88df, \h31ea, \h3063, \h568f,
  \h22d6, \hf961, \h9a6a, \h9e04, \h7bd, \ha6bd, \hbf01, \hc1d8, \hadb4, \h6e36, \h1508, \h953, \h1d72, \h4e9a, \ha5ce, \h29ff, \hb77b, \h8611, \hfc7, \he174,
  \h9210, \hd9cd, \h2aac, \hbea8, \h3819, \h1146, \h80a5, \h7623, \hd8c6, \h6675, \h607a, \h110, \h72cf, \haefe, \hca73, \hc99b, \h57a4, \hf122, \hef18, \h9647,
  \hfdad, \h39a9, \h4511, \h5ecc, \h764d, \hee06, \hcef1, \h8963, \hdc44, \h268d, \h64f8, \h41e8, \hf92f, \h7951, \h4193, \h1e34, \h5326, \hb1da, \heb9a, \hd6bf,
  \hb3f9, \hc6e9, \hb45, \ha18c, \h19f0, \he62, \ha14c, \h6907, \h3c9b, \h51be, \h8427, \h36db, \h9692, \h9935, \h2e2e, \hfe50, \h2654, \hb999, \h9ee8, \hdefc,
  \h8c5d, \h7112, \h34e1, \h1677, \ha936, \h2ece, \h118a, \h49ab, \h33f, \he645, \hbb83, \h8120, \he3e0, \h9176, \h5b5c, \hf613, \h49e9, \h59fd, \hf155, \h3e98,
  \h6c82, \h621, \hd43e, \h6144, \hc68b, \hceaa, \h7e37, \ha9cf, \hd67f, \h4138, \h6ec3, \h265d, \h7c76, \h89b3, \hc4ca, \heed6, \h591d, \hd66f, \he1a1, \hb10a,
  \hf314, \h1ee4, \h4ba8, \h7981, \h13cb, \h69d7, \hab77, \heb2, \hb9c2, \ha15c, \h17e, \hc639, \h9ca9, \hfe80, \h2415, \h99e5, \h36a0, \h360b, \h8e1c, \h516e,
  \h8666, \h16a7, \h3eda, \h71c2, \h2c6f, \hde2c, \h94d3, \hb949, \h904, \h81f0, \hb1b8, \he695, \ha30d, \h497b, \h1bb1, \h2e1e, \h43d2, \h3e48, \hfb6e, \h592d,
  \he9db, \hf6c3, \h5167, \h91a6, \hccb0, \ha91f, \h740c, \hce7a, \h66b9, \h6194, \hde05, \h6f1>>

crc32_table_4 == <<
  \h0, \h0, \h3d60, \h29b0, \h7ac0, \h5360, \h47a0, \h7ad0, \hf580, \ha6c0, \hc8e0, \h8f70, \h8f40, \hf5a0, \hb220, \hdc10, \h3070, \h4bc1, \hd10, \h6271,
  \h4ab0, \h18a1, \h77d0, \h3111, \hc5f0, \hed01, \hf890, \hc4b1, \hbf30, \hbe61, \h8250, \h97d1, \h60e0, \h9782, \h5d80, \hbe32, \h1a20, \hc4e2, \h2740, \hed52,
  \h9560, \h3142, \ha800, \h18f2, \hefa0, \h6222, \hd2c0, \h4b92, \h5090, \hdc43, \h6df0, \hf5f3, \h2a50, \h8f23, \h1730, \ha693, \ha510, \h7a83, \h9870, \h5333,
  \hdfd0, \h29e3, \he2b0, \h53, \hc1c1, \h2f04, \hfca1, \h6b4, \hbb01, \h7c64, \h8661, \h55d4, \h3441, \h89c4, \h921, \ha074, \h4e81, \hdaa4, \h73e1, \hf314,
  \hf1b1, \h64c5, \hccd1, \h4d75, \h8b71, \h37a5, \hb611, \h1e15, \h431, \hc205, \h3951, \hebb5, \h7ef1, \h9165, \h4391, \hb8d5, \ha121, \hb886, \h9c41, \h9136,
  \hdbe1, \hebe6, \he681, \hc256, \h54a1, \h1e46, \h69c1, \h37f6, \h2e61, \h4d26, \h1301, \h6496, \h9151, \hf347, \hac31, \hdaf7, \heb91, \ha027, \hd6f1, \h8997,
  \h64d1, \h5587, \h59b1, \h7c37, \h1e11, \h6e7, \h2371, \h2f57, \h58f3, \h5849, \h6593, \h71f9, \h2233, \hb29, \h1f53, \h2299, \had73, \hfe89, \h9013, \hd739,
  \hd7b3, \hade9, \head3, \h8459, \h6883, \h1388, \h55e3, \h3a38, \h1243, \h40e8, \h2f23, \h6958, \h9d03, \hb548, \ha063, \h9cf8, \he7c3, \he628, \hdaa3, \hcf98,
  \h3813, \hcfcb, \h573, \he67b, \h42d3, \h9cab, \h7fb3, \hb51b, \hcd93, \h690b, \hf0f3, \h40bb, \hb753, \h3a6b, \h8a33, \h13db, \h863, \h840a, \h3503, \hadba,
  \h72a3, \hd76a, \h4fc3, \hfeda, \hfde3, \h22ca, \hc083, \hb7a, \h8723, \h71aa, \hba43, \h581a, \h9932, \h774d, \ha452, \h5efd, \he3f2, \h242d, \hde92, \hd9d,
  \h6cb2, \hd18d, \h51d2, \hf83d, \h1672, \h82ed, \h2b12, \hab5d, \ha942, \h3c8c, \h9422, \h153c, \hd382, \h6fec, \heee2, \h465c, \h5cc2, \h9a4c, \h61a2, \hb3fc,
  \h2602, \hc92c, \h1b62, \he09c, \hf9d2, \he0cf, \hc4b2, \hc97f, \h8312, \hb3af, \hbe72, \h9a1f, \hc52, \h460f, \h3132, \h6fbf, \h7692, \h156f, \h4bf2, \h3cdf,
  \hc9a2, \hab0e, \hf4c2, \h82be, \hb362, \hf86e, \h8e02, \hd1de, \h3c22, \hdce, \h142, \h247e, \h46e2, \h5eae, \h7b82, \h771e, \hb1e6, \hb092, \h8c86, \h9922,
  \hcb26, \he3f2, \hf646, \hca42, \h4466, \h1652, \h7906, \h3fe2, \h3ea6, \h4532, \h3c6, \h6c82, \h8196, \hfb53, \hbcf6, \hd2e3, \hfb56, \ha833, \hc636, \h8183,
  \h7416, \h5d93, \h4976, \h7423, \hed6, \hef3, \h33b6, \h2743, \hd106, \h2710, \hec66, \hea0, \habc6, \h7470, \h96a6, \h5dc0, \h2486, \h81d0, \h19e6, \ha860,
  \h5e46, \hd2b0, \h6326, \hfb00, \he176, \h6cd1, \hdc16, \h4561, \h9bb6, \h3fb1, \ha6d6, \h1601, \h14f6, \hca11, \h2996, \he3a1, \h6e36, \h9971, \h5356, \hb0c1,
  \h7027, \h9f96, \h4d47, \hb626, \hae7, \hccf6, \h3787, \he546, \h85a7, \h3956, \hb8c7, \h10e6, \hff67, \h6a36, \hc207, \h4386, \h4057, \hd457, \h7d37, \hfde7,
  \h3a97, \h8737, \h7f7, \hae87, \hb5d7, \h7297, \h88b7, \h5b27, \hcf17, \h21f7, \hf277, \h847, \h10c7, \h814, \h2da7, \h21a4, \h6a07, \h5b74, \h5767, \h72c4,
  \he547, \haed4, \hd827, \h8764, \h9f87, \hfdb4, \ha2e7, \hd404, \h20b7, \h43d5, \h1dd7, \h6a65, \h5a77, \h10b5, \h6717, \h3905, \hd537, \he515, \he857, \hcca5,
  \haff7, \hb675, \h9297, \h9fc5, \he915, \he8db, \hd475, \hc16b, \h93d5, \hbbbb, \haeb5, \h920b, \h1c95, \h4e1b, \h21f5, \h67ab, \h6655, \h1d7b, \h5b35, \h34cb,
  \hd965, \ha31a, \he405, \h8aaa, \ha3a5, \hf07a, \h9ec5, \hd9ca, \h2ce5, \h5da, \h1185, \h2c6a, \h5625, \h56ba, \h6b45, \h7f0a, \h89f5, \h7f59, \hb495, \h56e9,
  \hf335, \h2c39, \hce55, \h589, \h7c75, \hd999, \h4115, \hf029, \h6b5, \h8af9, \h3bd5, \ha349, \hb985, \h3498, \h84e5, \h1d28, \hc345, \h67f8, \hfe25, \h4e48,
  \h4c05, \h9258, \h7165, \hbbe8, \h36c5, \hc138, \hba5, \he888, \h28d4, \hc7df, \h15b4, \hee6f, \h5214, \h94bf, \h6f74, \hbd0f, \hdd54, \h611f, \he034, \h48af,
  \ha794, \h327f, \h9af4, \h1bcf, \h18a4, \h8c1e, \h25c4, \ha5ae, \h6264, \hdf7e, \h5f04, \hf6ce, \hed24, \h2ade, \hd044, \h36e, \h97e4, \h79be, \haa84, \h500e,
  \h4834, \h505d, \h7554, \h79ed, \h32f4, \h33d, \hf94, \h2a8d, \hbdb4, \hf69d, \h80d4, \hdf2d, \hc774, \ha5fd, \hfa14, \h8c4d, \h7844, \h1b9c, \h4524, \h322c,
  \h284, \h48fc, \h3fe4, \h614c, \h8dc4, \hbd5c, \hb0a4, \h94ec, \hf704, \hee3c, \hca64, \hc78c>>

crc32_table_5 == <<
  \h0, \h0, \hcb5c, \hd3a5, \h4dc8, \ha10b, \h8694, \h72ae, \h9b91, \h4216, \h50cd, \h91b3, \hd659, \he31d, \h1d05, \h30b8, \hec53, \h826d, \h270f, \h51c8,
  \ha19b, \h2366, \h6ac7, \hf0c3, \h77c2, \hc07b, \hbc9e, \h13de, \h3a0a, \h6170, \hf156, \hb2d5, \h3d6, \h29b, \hc88a, \hd13e, \h4e1e, \ha390, \h8542, \h7035,
  \h9847, \h408d, \h531b, \h9328, \hd58f, \he186, \h1ed3, \h3223, \hef85, \h80f6, \h24d9, \h5353, \ha24d, \h21fd, \h6911, \hf258, \h7414, \hc2e0, \hbf48, \h1145,
  \h39dc, \h63eb, \hf280, \hb04e, \h7ac, \h536, \hccf0, \hd693, \h4a64, \ha43d, \h8138, \h7798, \h9c3d, \h4720, \h5761, \h9485, \hd1f5, \he62b, \h1aa9, \h358e,
  \hebff, \h875b, \h20a3, \h54fe, \ha637, \h2650, \h6d6b, \hf5f5, \h706e, \hc54d, \hbb32, \h16e8, \h3da6, \h6446, \hf6fa, \hb7e3, \h47a, \h7ad, \hcf26, \hd408,
  \h49b2, \ha6a6, \h82ee, \h7503, \h9feb, \h45bb, \h54b7, \h961e, \hd223, \he4b0, \h197f, \h3715, \he829, \h85c0, \h2375, \h5665, \ha5e1, \h24cb, \h6ebd, \hf76e,
  \h73b8, \hc7d6, \hb8e4, \h1473, \h3e70, \h66dd, \hf52c, \hb578, \hf58, \ha6c, \hc404, \hd9c9, \h4290, \hab67, \h89cc, \h78c2, \h94c9, \h487a, \h5f95, \h9bdf,
  \hd901, \he971, \h125d, \h3ad4, \he30b, \h8801, \h2857, \h5ba4, \haec3, \h290a, \h659f, \hfaaf, \h789a, \hca17, \hb3c6, \h19b2, \h3552, \h6b1c, \hfe0e, \hb8b9,
  \hc8e, \h8f7, \hc7d2, \hdb52, \h4146, \ha9fc, \h8a1a, \h7a59, \h971f, \h4ae1, \h5c43, \h9944, \hdad7, \hebea, \h118b, \h384f, \he0dd, \h8a9a, \h2b81, \h593f,
  \had15, \h2b91, \h6649, \hf834, \h7b4c, \hc88c, \hb010, \h1b29, \h3684, \h6987, \hfdd8, \hba22, \h8f4, \hf5a, \hc3a8, \hdcff, \h453c, \hae51, \h8e60, \h7df4,
  \h9365, \h4d4c, \h5839, \h9ee9, \hdead, \hec47, \h15f1, \h3fe2, \he4a7, \h8d37, \h2ffb, \h5e92, \ha96f, \h2c3c, \h6233, \hff99, \h7f36, \hcf21, \hb46a, \h1c84,
  \h32fe, \h6e2a, \hf9a2, \hbd8f, \hb22, \hdc1, \hc07e, \hde64, \h46ea, \hacca, \h8db6, \h7f6f, \h90b3, \h4fd7, \h5bef, \h9c72, \hdd7b, \heedc, \h1627, \h3d79,
  \he771, \h8fac, \h2c2d, \h5c09, \haab9, \h2ea7, \h61e5, \hfd02, \h7ce0, \hcdba, \hb7bc, \h1e1f, \h3128, \h6cb1, \hfa74, \hbf14, \h1eb0, \h14d8, \hd5ec, \hc77d,
  \h5378, \hb5d3, \h9824, \h6676, \h8521, \h56ce, \h4e7d, \h856b, \hc8e9, \hf7c5, \h3b5, \h2460, \hf2e3, \h96b5, \h39bf, \h4510, \hbf2b, \h37be, \h7477, \he41b,
  \h6972, \hd4a3, \ha22e, \h706, \h24ba, \h75a8, \hefe6, \ha60d, \h1d66, \h1643, \hd63a, \hc5e6, \h50ae, \hb748, \h9bf2, \h64ed, \h86f7, \h5455, \h4dab, \h87f0,
  \hcb3f, \hf55e, \h63, \h26fb, \hf135, \h942e, \h3a69, \h478b, \hbcfd, \h3525, \h77a1, \he680, \h6aa4, \hd638, \ha1f8, \h59d, \h276c, \h7733, \hec30, \ha496,
  \h191c, \h11ee, \hd240, \hc24b, \h54d4, \hb0e5, \h9f88, \h6340, \h828d, \h53f8, \h49d1, \h805d, \hcf45, \hf2f3, \h419, \h2156, \hf54f, \h9383, \h3e13, \h4026,
  \hb887, \h3288, \h73db, \he12d, \h6ede, \hd195, \ha582, \h230, \h2316, \h709e, \he84a, \ha33b, \h1aca, \h1375, \hd196, \hc0d0, \h5702, \hb27e, \h9c5e, \h61db,
  \h815b, \h5163, \h4a07, \h82c6, \hcc93, \hf068, \h7cf, \h23cd, \hf699, \h9118, \h3dc5, \h42bd, \hbb51, \h3013, \h700d, \he3b6, \h6d08, \hd30e, \ha654, \hab,
  \h20c0, \h7205, \heb9c, \ha1a0, \h11e8, \h1eb4, \hdab4, \hcd11, \h5c20, \hbfbf, \h977c, \h6c1a, \h8a79, \h5ca2, \h4125, \h8f07, \hc7b1, \hfda9, \hced, \h2e0c,
  \hfdbb, \h9cd9, \h36e7, \h4f7c, \hb073, \h3dd2, \h7b2f, \hee77, \h662a, \hdecf, \had76, \hd6a, \h2be2, \h7fc4, \he0be, \hac61, \h123e, \h1c2f, \hd962, \hcf8a,
  \h5ff6, \hbd24, \h94aa, \h6e81, \h89af, \h5e39, \h42f3, \h8d9c, \hc467, \hff32, \hf3b, \h2c97, \hfe6d, \h9e42, \h3531, \h4de7, \hb3a5, \h3f49, \h78f9, \hecec,
  \h65fc, \hdc54, \haea0, \hff1, \h2834, \h7d5f, \he368, \haefa, \h1644, \h1b82, \hdd18, \hc827, \h5b8c, \hba89, \h90d0, \h692c, \h8dd5, \h5994, \h4689, \h8a31,
  \hc01d, \hf89f, \hb41, \h2b3a, \hfa17, \h99ef, \h314b, \h4a4a, \hb7df, \h38e4, \h7c83, \heb41, \h6186, \hdbf9, \haada, \h85c, \h2c4e, \h7af2, \he712, \ha957,
  \h1592, \h1919, \hdece, \hcabc, \h585a, \hb812, \h9306, \h6bb7, \h8e03, \h5b0f, \h455f, \h88aa, \hc3cb, \hfa04, \h897, \h29a1, \hf9c1, \h9b74, \h329d, \h48d1,
  \hb409, \h3a7f, \h7f55, \he9da, \h6250, \hd962, \ha90c, \hac7, \h2f98, \h7869, \he4c4, \habcc>>

crc32_table_6 == <<
  \h0, \h0, \ha677, \hbb4, \h979f, \h1129, \h31e8, \h1a9d, \hf44f, \h2413, \h5238, \h2fa7, \h63d0, \h353a, \hc5a7, \h3e8e, \h33ef, \h4e67, \h9598, \h45d3,
  \ha470, \h5f4e, \h207, \h54fa, \hc7a0, \h6a74, \h61d7, \h61c0, \h503f, \h7b5d, \hf648, \h70e9, \h67de, \h9cce, \hc1a9, \h977a, \hf041, \h8de7, \h5636, \h8653,
  \h9391, \hb8dd, \h35e6, \hb369, \h40e, \ha9f4, \ha279, \ha240, \h5431, \hd2a9, \hf246, \hd91d, \hc3ae, \hc380, \h65d9, \hc834, \ha07e, \hf6ba, \h609, \hfd0e,
  \h37e1, \he793, \h9196, \hec27, \hcfbd, \h399c, \h69ca, \h3228, \h5822, \h28b5, \hfe55, \h2301, \h3bf2, \h1d8f, \h9d85, \h163b, \hac6d, \hca6, \ha1a, \h712,
  \hfc52, \h77fb, \h5a25, \h7c4f, \h6bcd, \h66d2, \hcdba, \h6d66, \h81d, \h53e8, \hae6a, \h585c, \h9f82, \h42c1, \h39f5, \h4975, \ha863, \ha552, \he14, \haee6,
  \h3ffc, \hb47b, \h998b, \hbfcf, \h5c2c, \h8141, \hfa5b, \h8af5, \hcbb3, \h9068, \h6dc4, \h9bdc, \h9b8c, \heb35, \h3dfb, \he081, \hc13, \hfa1c, \haa64, \hf1a8,
  \h6fc3, \hcf26, \hc9b4, \hc492, \hf85c, \hde0f, \h5e2b, \hd5bb, \h440b, \h7579, \he27c, \h7ecd, \hd394, \h6450, \h75e3, \h6fe4, \hb044, \h516a, \h1633, \h5ade,
  \h27db, \h4043, \h81ac, \h4bf7, \h77e4, \h3b1e, \hd193, \h30aa, \he07b, \h2a37, \h460c, \h2183, \h83ab, \h1f0d, \h25dc, \h14b9, \h1434, \he24, \hb243, \h590,
  \h23d5, \he9b7, \h85a2, \he203, \hb44a, \hf89e, \h123d, \hf32a, \hd79a, \hcda4, \h71ed, \hc610, \h4005, \hdc8d, \he672, \hd739, \h103a, \ha7d0, \hb64d, \hac64,
  \h87a5, \hb6f9, \h21d2, \hbd4d, \he475, \h83c3, \h4202, \h8877, \h73ea, \h92ea, \hd59d, \h995e, \h8bb6, \h4ce5, \h2dc1, \h4751, \h1c29, \h5dcc, \hba5e, \h5678,
  \h7ff9, \h68f6, \hd98e, \h6342, \he866, \h79df, \h4e11, \h726b, \hb859, \h282, \h1e2e, \h936, \h2fc6, \h13ab, \h89b1, \h181f, \h4c16, \h2691, \hea61, \h2d25,
  \hdb89, \h37b8, \h7dfe, \h3c0c, \hec68, \hd02b, \h4a1f, \hdb9f, \h7bf7, \hc102, \hdd80, \hcab6, \h1827, \hf438, \hbe50, \hff8c, \h8fb8, \he511, \h29cf, \heea5,
  \hdf87, \h9e4c, \h79f0, \h95f8, \h4818, \h8f65, \hee6f, \h84d1, \h2bc8, \hba5f, \h8dbf, \hb1eb, \hbc57, \hab76, \h1a20, \ha0c2, \h8816, \heaf2, \h2e61, \he146,
  \h1f89, \hfbdb, \hb9fe, \hf06f, \h7c59, \hcee1, \hda2e, \hc555, \hebc6, \hdfc8, \h4db1, \hd47c, \hbbf9, \ha495, \h1d8e, \haf21, \h2c66, \hb5bc, \h8a11, \hbe08,
  \h4fb6, \h8086, \he9c1, \h8b32, \hd829, \h91af, \h7e5e, \h9a1b, \hefc8, \h763c, \h49bf, \h7d88, \h7857, \h6715, \hde20, \h6ca1, \h1b87, \h522f, \hbdf0, \h599b,
  \h8c18, \h4306, \h2a6f, \h48b2, \hdc27, \h385b, \h7a50, \h33ef, \h4bb8, \h2972, \hedcf, \h22c6, \h2868, \h1c48, \h8e1f, \h17fc, \hbff7, \hd61, \h1980, \h6d5,
  \h47ab, \hd36e, \he1dc, \hd8da, \hd034, \hc247, \h7643, \hc9f3, \hb3e4, \hf77d, \h1593, \hfcc9, \h247b, \he654, \h820c, \hede0, \h7444, \h9d09, \hd233, \h96bd,
  \he3db, \h8c20, \h45ac, \h8794, \h800b, \hb91a, \h267c, \hb2ae, \h1794, \ha833, \hb1e3, \ha387, \h2075, \h4fa0, \h8602, \h4414, \hb7ea, \h5e89, \h119d, \h553d,
  \hd43a, \h6bb3, \h724d, \h6007, \h43a5, \h7a9a, \he5d2, \h712e, \h139a, \h1c7, \hb5ed, \ha73, \h8405, \h10ee, \h2272, \h1b5a, \he7d5, \h25d4, \h41a2, \h2e60,
  \h704a, \h34fd, \hd63d, \h3f49, \hcc1d, \h9f8b, \h6a6a, \h943f, \h5b82, \h8ea2, \hfdf5, \h8516, \h3852, \hbb98, \h9e25, \hb02c, \hafcd, \haab1, \h9ba, \ha105,
  \hfff2, \hd1ec, \h5985, \hda58, \h686d, \hc0c5, \hce1a, \hcb71, \hbbd, \hf5ff, \hadca, \hfe4b, \h9c22, \he4d6, \h3a55, \hef62, \habc3, \h345, \hdb4, \h8f1,
  \h3c5c, \h126c, \h9a2b, \h19d8, \h5f8c, \h2756, \hf9fb, \h2ce2, \hc813, \h367f, \h6e64, \h3dcb, \h982c, \h4d22, \h3e5b, \h4696, \hfb3, \h5c0b, \ha9c4, \h57bf,
  \h6c63, \h6931, \hca14, \h6285, \hfbfc, \h7818, \h5d8b, \h73ac, \h3a0, \ha617, \ha5d7, \hada3, \h943f, \hb73e, \h3248, \hbc8a, \hf7ef, \h8204, \h5198, \h89b0,
  \h6070, \h932d, \hc607, \h9899, \h304f, \he870, \h9638, \he3c4, \ha7d0, \hf959, \h1a7, \hf2ed, \hc400, \hcc63, \h6277, \hc7d7, \h539f, \hdd4a, \hf5e8, \hd6fe,
  \h647e, \h3ad9, \hc209, \h316d, \hf3e1, \h2bf0, \h5596, \h2044, \h9031, \h1eca, \h3646, \h157e, \h7ae, \hfe3, \ha1d9, \h457, \h5791, \h74be, \hf1e6, \h7f0a,
  \hc00e, \h6597, \h6679, \h6e23, \ha3de, \h50ad, \h5a9, \h5b19, \h3441, \h4184, \h9236, \h4a30>>

crc32_table_7 == <<
  \h0, \h0, \hccaa, \h9e, \h4225, \h77d, \h8e8f, \h7e3, \h844a, \hefa, \h48e0, \he64, \hc66f, \h987, \hac5, \h919, \hd3e5, \h1bb5, \h1f4f, \h1b2b,
  \h91c0, \h1cc8, \h5d6a, \h1c56, \h57af, \h154f, \h9b05, \h15d1, \h158a, \h1232, \hd920, \h12ac, \h7cbb, \h312b, \hb011, \h31b5, \h3e9e, \h3656, \hf234, \h36c8,
  \hf8f1, \h3fd1, \h345b, \h3f4f, \hbad4, \h38ac, \h767e, \h3832, \haf5e, \h2a9e, \h63f4, \h2a00, \hed7b, \h2de3, \h21d1, \h2d7d, \h2b14, \h2464, \he7be, \h24fa,
  \h6931, \h2319, \ha59b, \h2387, \hf976, \h6256, \h35dc, \h62c8, \hbb53, \h652b, \h77f9, \h65b5, \h7d3c, \h6cac, \hb196, \h6c32, \h3f19, \h6bd1, \hf3b3, \h6b4f,
  \h2a93, \h79e3, \he639, \h797d, \h68b6, \h7e9e, \ha41c, \h7e00, \haed9, \h7719, \h6273, \h7787, \hecfc, \h7064, \h2056, \h70fa, \h85cd, \h537d, \h4967, \h53e3,
  \hc7e8, \h5400, \hb42, \h549e, \h187, \h5d87, \hcd2d, \h5d19, \h43a2, \h5afa, \h8f08, \h5a64, \h5628, \h48c8, \h9a82, \h4856, \h140d, \h4fb5, \hd8a7, \h4f2b,
  \hd262, \h4632, \h1ec8, \h46ac, \h9047, \h414f, \h5ced, \h41d1, \h299d, \hc2ed, \he537, \hc273, \h6bb8, \hc590, \ha712, \hc50e, \hadd7, \hcc17, \h617d, \hcc89,
  \heff2, \hcb6a, \h2358, \hcbf4, \hfa78, \hd958, \h36d2, \hd9c6, \hb85d, \hde25, \h74f7, \hdebb, \h7e32, \hd7a2, \hb298, \hd73c, \h3c17, \hd0df, \hf0bd, \hd041,
  \h5526, \hf3c6, \h998c, \hf358, \h1703, \hf4bb, \hdba9, \hf425, \hd16c, \hfd3c, \h1dc6, \hfda2, \h9349, \hfa41, \h5fe3, \hfadf, \h86c3, \he873, \h4a69, \he8ed,
  \hc4e6, \hef0e, \h84c, \hef90, \h289, \he689, \hce23, \he617, \h40ac, \he1f4, \h8c06, \he16a, \hd0eb, \ha0bb, \h1c41, \ha025, \h92ce, \ha7c6, \h5e64, \ha758,
  \h54a1, \hae41, \h980b, \haedf, \h1684, \ha93c, \hda2e, \ha9a2, \h30e, \hbb0e, \hcfa4, \hbb90, \h412b, \hbc73, \h8d81, \hbced, \h8744, \hb5f4, \h4bee, \hb56a,
  \hc561, \hb289, \h9cb, \hb217, \hac50, \h9190, \h60fa, \h910e, \hee75, \h96ed, \h22df, \h9673, \h281a, \h9f6a, \he4b0, \h9ff4, \h6a3f, \h9817, \ha695, \h9889,
  \h7fb5, \h8a25, \hb31f, \h8abb, \h3d90, \h8d58, \hf13a, \h8dc6, \hfbff, \h84df, \h3755, \h8441, \hb9da, \h83a2, \h7570, \h833c, \h533b, \h85da, \h9f91, \h8544,
  \h111e, \h82a7, \hddb4, \h8239, \hd771, \h8b20, \h1bdb, \h8bbe, \h9554, \h8c5d, \h59fe, \h8cc3, \h80de, \h9e6f, \h4c74, \h9ef1, \hc2fb, \h9912, \he51, \h998c,
  \h494, \h9095, \hc83e, \h900b, \h46b1, \h97e8, \h8a1b, \h9776, \h2f80, \hb4f1, \he32a, \hb46f, \h6da5, \hb38c, \ha10f, \hb312, \habca, \hba0b, \h6760, \hba95,
  \he9ef, \hbd76, \h2545, \hbde8, \hfc65, \haf44, \h30cf, \hafda, \hbe40, \ha839, \h72ea, \ha8a7, \h782f, \ha1be, \hb485, \ha120, \h3a0a, \ha6c3, \hf6a0, \ha65d,
  \haa4d, \he78c, \h66e7, \he712, \he868, \he0f1, \h24c2, \he06f, \h2e07, \he976, \he2ad, \he9e8, \h6c22, \hee0b, \ha088, \hee95, \h79a8, \hfc39, \hb502, \hfca7,
  \h3b8d, \hfb44, \hf727, \hfbda, \hfde2, \hf2c3, \h3148, \hf25d, \hbfc7, \hf5be, \h736d, \hf520, \hd6f6, \hd6a7, \h1a5c, \hd639, \h94d3, \hd1da, \h5879, \hd144,
  \h52bc, \hd85d, \h9e16, \hd8c3, \h1099, \hdf20, \hdc33, \hdfbe, \h513, \hcd12, \hc9b9, \hcd8c, \h4736, \hca6f, \h8b9c, \hcaf1, \h8159, \hc3e8, \h4df3, \hc376,
  \hc37c, \hc495, \hfd6, \hc40b, \h7aa6, \h4737, \hb60c, \h47a9, \h3883, \h404a, \hf429, \h40d4, \hfeec, \h49cd, \h3246, \h4953, \hbcc9, \h4eb0, \h7063, \h4e2e,
  \ha943, \h5c82, \h65e9, \h5c1c, \heb66, \h5bff, \h27cc, \h5b61, \h2d09, \h5278, \he1a3, \h52e6, \h6f2c, \h5505, \ha386, \h559b, \h61d, \h761c, \hcab7, \h7682,
  \h4438, \h7161, \h8892, \h71ff, \h8257, \h78e6, \h4efd, \h7878, \hc072, \h7f9b, \hcd8, \h7f05, \hd5f8, \h6da9, \h1952, \h6d37, \h97dd, \h6ad4, \h5b77, \h6a4a,
  \h51b2, \h6353, \h9d18, \h63cd, \h1397, \h642e, \hdf3d, \h64b0, \h83d0, \h2561, \h4f7a, \h25ff, \hc1f5, \h221c, \hd5f, \h2282, \h79a, \h2b9b, \hcb30, \h2b05,
  \h45bf, \h2ce6, \h8915, \h2c78, \h5035, \h3ed4, \h9c9f, \h3e4a, \h1210, \h39a9, \hdeba, \h3937, \hd47f, \h302e, \h18d5, \h30b0, \h965a, \h3753, \h5af0, \h37cd,
  \hff6b, \h144a, \h33c1, \h14d4, \hbd4e, \h1337, \h71e4, \h13a9, \h7b21, \h1ab0, \hb78b, \h1a2e, \h3904, \h1dcd, \hf5ae, \h1d53, \h2c8e, \hfff, \he024, \hf61,
  \h6eab, \h882, \ha201, \h81c, \ha8c4, \h105, \h646e, \h19b, \heae1, \h678, \h264b, \h6e6>>
=============================================================================
