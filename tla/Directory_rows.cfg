CONSTANTS
  PPs = {p1, p2}
  Users = {ann, bob}
  Newcomers = {new, eve}
  Slots = {1, 2}
  Looks = {{"auth"}, {"pass"}, {"notes"}, {"iphide"}, {"wphon"}, {"hphon"}, {"hpage_cat"}, {"lang1", "lang2", "lang3"},
           {"wzip", "wzip2"}, {"hzip", "hzip2"}, {"int_num", "int_key1", "int_key2", "int_key3", "int_key4"},
           {"past_num", "past_key1", "past_key2", "past_key3"},
           {"aff_num", "aff_key1", "aff_key2", "aff_key3"}, {"email1", "email2", "email3", "e1publ"}}
  Accounts = {{"iphide"}}
  MaxUin = 4
  MaxRequests = 2
  MaxEvents = 2
SPECIFICATION Spec
SYMMETRY Symmetry
INVARIANTS SavedIsShown OwnersWrite  UinIsHis
CHECK_DEADLOCK FALSE
