SPECIFICATION FairSpec
CONSTANTS
  group = group
  devices = devices
  full = full
  preview = preview
  a1 = a1
  a2 = a2
  b1 = b1
  g1 = g1
  g2 = g2
  g3 = g3
  Resources = {group, devices}
  ServiceOf <- Clients0
  AbsentFor <- Absences
  Accounts = {a1, a2, b1}
  Installations = {full, preview}
  Place <- Places
  Offers <- Services0
  Home <- Homes
  Specs <- AllSpecs
  Secrets <- AllSecrets
  Guids = {g1, g2, g3}
  Scenarios <- AllScenarios
  KeyOf <- Keys0
  LineWidth = 4
INVARIANTS TypeOK EarlyUsersKeepConfig ClientsAreWhole NothingAstray KeysKeepTheirText WhatSuitsConnects
PROPERTIES ServedInTheEnd LeaveInOrder
CHECK_DEADLOCK FALSE
