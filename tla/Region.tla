------------------------------- MODULE Region -------------------------------
(***************************************************************************)
(* Region.c: every call of the MAC goes to the region the node runs in.    *)
(***************************************************************************)
EXTENDS Integers

AS923 == INSTANCE RegionAS923
AU915 == INSTANCE RegionAU915
CN470 == INSTANCE RegionCN470
CN779 == INSTANCE RegionCN779
EU433 == INSTANCE RegionEU433
EU868 == INSTANCE RegionEU868
IN865 == INSTANCE RegionIN865
KR920 == INSTANCE RegionKR920
RU864 == INSTANCE RegionRU864
US915 == INSTANCE RegionUS915

Names == {"AS923", "AU915", "CN470", "CN779", "EU433", "EU868",
          "IN865", "KR920", "RU864", "US915"}
-----------------------------------------------------------------------------
RegionGetPhyParam(region, datarate, uplinkDwellTime, downlinkDwellTime) ==
    CASE region = "AS923" -> AS923!GetPhyParam(datarate, uplinkDwellTime, downlinkDwellTime)
      [] region = "AU915" -> AU915!GetPhyParam(datarate, uplinkDwellTime, downlinkDwellTime)
      [] region = "CN470" -> CN470!GetPhyParam(datarate, uplinkDwellTime, downlinkDwellTime)
      [] region = "CN779" -> CN779!GetPhyParam(datarate, uplinkDwellTime, downlinkDwellTime)
      [] region = "EU433" -> EU433!GetPhyParam(datarate, uplinkDwellTime, downlinkDwellTime)
      [] region = "EU868" -> EU868!GetPhyParam(datarate, uplinkDwellTime, downlinkDwellTime)
      [] region = "IN865" -> IN865!GetPhyParam(datarate, uplinkDwellTime, downlinkDwellTime)
      [] region = "KR920" -> KR920!GetPhyParam(datarate, uplinkDwellTime, downlinkDwellTime)
      [] region = "RU864" -> RU864!GetPhyParam(datarate, uplinkDwellTime, downlinkDwellTime)
      [] region = "US915" -> US915!GetPhyParam(datarate, uplinkDwellTime, downlinkDwellTime)

RegionPhyDefaults(region) ==
    CASE region = "AS923" -> AS923!PhyDefaults
      [] region = "AU915" -> AU915!PhyDefaults
      [] region = "CN470" -> CN470!PhyDefaults
      [] region = "CN779" -> CN779!PhyDefaults
      [] region = "EU433" -> EU433!PhyDefaults
      [] region = "EU868" -> EU868!PhyDefaults
      [] region = "IN865" -> IN865!PhyDefaults
      [] region = "KR920" -> KR920!PhyDefaults
      [] region = "RU864" -> RU864!PhyDefaults
      [] region = "US915" -> US915!PhyDefaults

RegionInitDefaults(region, type, nvm) ==
    CASE region = "AS923" -> AS923!InitDefaults(type, nvm)
      [] region = "AU915" -> AU915!InitDefaults(type, nvm)
      [] region = "CN470" -> CN470!InitDefaults(type, nvm)
      [] region = "CN779" -> CN779!InitDefaults(type, nvm)
      [] region = "EU433" -> EU433!InitDefaults(type, nvm)
      [] region = "EU868" -> EU868!InitDefaults(type, nvm)
      [] region = "IN865" -> IN865!InitDefaults(type, nvm)
      [] region = "KR920" -> KR920!InitDefaults(type, nvm)
      [] region = "RU864" -> RU864!InitDefaults(type, nvm)
      [] region = "US915" -> US915!InitDefaults(type, nvm)

RegionVerify(region, attribute, value, uplinkDwellTime, downlinkDwellTime) ==
    CASE region = "AS923" -> AS923!Verify(attribute, value, uplinkDwellTime, downlinkDwellTime)
      [] region = "AU915" -> AU915!Verify(attribute, value, uplinkDwellTime, downlinkDwellTime)
      [] region = "CN470" -> CN470!Verify(attribute, value, uplinkDwellTime, downlinkDwellTime)
      [] region = "CN779" -> CN779!Verify(attribute, value, uplinkDwellTime, downlinkDwellTime)
      [] region = "EU433" -> EU433!Verify(attribute, value, uplinkDwellTime, downlinkDwellTime)
      [] region = "EU868" -> EU868!Verify(attribute, value, uplinkDwellTime, downlinkDwellTime)
      [] region = "IN865" -> IN865!Verify(attribute, value, uplinkDwellTime, downlinkDwellTime)
      [] region = "KR920" -> KR920!Verify(attribute, value, uplinkDwellTime, downlinkDwellTime)
      [] region = "RU864" -> RU864!Verify(attribute, value, uplinkDwellTime, downlinkDwellTime)
      [] region = "US915" -> US915!Verify(attribute, value, uplinkDwellTime, downlinkDwellTime)

RegionApplyCFList(region, nvm, cfList) ==
    CASE region = "AS923" -> AS923!ApplyCFList(nvm, cfList)
      [] region = "AU915" -> AU915!ApplyCFList(nvm, cfList)
      [] region = "CN470" -> CN470!ApplyCFList(nvm, cfList)
      [] region = "CN779" -> CN779!ApplyCFList(nvm, cfList)
      [] region = "EU433" -> EU433!ApplyCFList(nvm, cfList)
      [] region = "EU868" -> EU868!ApplyCFList(nvm, cfList)
      [] region = "IN865" -> IN865!ApplyCFList(nvm, cfList)
      [] region = "KR920" -> KR920!ApplyCFList(nvm, cfList)
      [] region = "RU864" -> RU864!ApplyCFList(nvm, cfList)
      [] region = "US915" -> US915!ApplyCFList(nvm, cfList)

RegionComputeRxWindowParameters(region, datarate, minRxSymbols, rxErrorMs) ==
    CASE region = "AS923" -> AS923!ComputeRxWindowParameters(datarate, minRxSymbols, rxErrorMs)
      [] region = "AU915" -> AU915!ComputeRxWindowParameters(datarate, minRxSymbols, rxErrorMs)
      [] region = "CN470" -> CN470!ComputeRxWindowParameters(datarate, minRxSymbols, rxErrorMs)
      [] region = "CN779" -> CN779!ComputeRxWindowParameters(datarate, minRxSymbols, rxErrorMs)
      [] region = "EU433" -> EU433!ComputeRxWindowParameters(datarate, minRxSymbols, rxErrorMs)
      [] region = "EU868" -> EU868!ComputeRxWindowParameters(datarate, minRxSymbols, rxErrorMs)
      [] region = "IN865" -> IN865!ComputeRxWindowParameters(datarate, minRxSymbols, rxErrorMs)
      [] region = "KR920" -> KR920!ComputeRxWindowParameters(datarate, minRxSymbols, rxErrorMs)
      [] region = "RU864" -> RU864!ComputeRxWindowParameters(datarate, minRxSymbols, rxErrorMs)
      [] region = "US915" -> US915!ComputeRxWindowParameters(datarate, minRxSymbols, rxErrorMs)

RegionRxConfig(region, nvm, rxConfig) ==
    CASE region = "AS923" -> AS923!RxConfig(nvm, rxConfig)
      [] region = "AU915" -> AU915!RxConfig(nvm, rxConfig)
      [] region = "CN470" -> CN470!RxConfig(nvm, rxConfig)
      [] region = "CN779" -> CN779!RxConfig(nvm, rxConfig)
      [] region = "EU433" -> EU433!RxConfig(nvm, rxConfig)
      [] region = "EU868" -> EU868!RxConfig(nvm, rxConfig)
      [] region = "IN865" -> IN865!RxConfig(nvm, rxConfig)
      [] region = "KR920" -> KR920!RxConfig(nvm, rxConfig)
      [] region = "RU864" -> RU864!RxConfig(nvm, rxConfig)
      [] region = "US915" -> US915!RxConfig(nvm, rxConfig)

RegionTxConfig(region, nvm, txConfig) ==
    CASE region = "AS923" -> AS923!TxConfig(nvm, txConfig)
      [] region = "AU915" -> AU915!TxConfig(nvm, txConfig)
      [] region = "CN470" -> CN470!TxConfig(nvm, txConfig)
      [] region = "CN779" -> CN779!TxConfig(nvm, txConfig)
      [] region = "EU433" -> EU433!TxConfig(nvm, txConfig)
      [] region = "EU868" -> EU868!TxConfig(nvm, txConfig)
      [] region = "IN865" -> IN865!TxConfig(nvm, txConfig)
      [] region = "KR920" -> KR920!TxConfig(nvm, txConfig)
      [] region = "RU864" -> RU864!TxConfig(nvm, txConfig)
      [] region = "US915" -> US915!TxConfig(nvm, txConfig)

RegionRxParamSetupReq(region, frequency, datarate, drOffset) ==
    CASE region = "AS923" -> AS923!RxParamSetupReq(frequency, datarate, drOffset)
      [] region = "AU915" -> AU915!RxParamSetupReq(frequency, datarate, drOffset)
      [] region = "CN470" -> CN470!RxParamSetupReq(frequency, datarate, drOffset)
      [] region = "CN779" -> CN779!RxParamSetupReq(frequency, datarate, drOffset)
      [] region = "EU433" -> EU433!RxParamSetupReq(frequency, datarate, drOffset)
      [] region = "EU868" -> EU868!RxParamSetupReq(frequency, datarate, drOffset)
      [] region = "IN865" -> IN865!RxParamSetupReq(frequency, datarate, drOffset)
      [] region = "KR920" -> KR920!RxParamSetupReq(frequency, datarate, drOffset)
      [] region = "RU864" -> RU864!RxParamSetupReq(frequency, datarate, drOffset)
      [] region = "US915" -> US915!RxParamSetupReq(frequency, datarate, drOffset)

RegionNewChannelReq(region, nvm, id, new) ==
    CASE region = "AS923" -> AS923!NewChannelReq(nvm, id, new)
      [] region = "AU915" -> AU915!NewChannelReq(nvm, id, new)
      [] region = "CN470" -> CN470!NewChannelReq(nvm, id, new)
      [] region = "CN779" -> CN779!NewChannelReq(nvm, id, new)
      [] region = "EU433" -> EU433!NewChannelReq(nvm, id, new)
      [] region = "EU868" -> EU868!NewChannelReq(nvm, id, new)
      [] region = "IN865" -> IN865!NewChannelReq(nvm, id, new)
      [] region = "KR920" -> KR920!NewChannelReq(nvm, id, new)
      [] region = "RU864" -> RU864!NewChannelReq(nvm, id, new)
      [] region = "US915" -> US915!NewChannelReq(nvm, id, new)

RegionTxParamSetupReq(region) ==
    CASE region = "AS923" -> AS923!TxParamSetupReq
      [] region = "AU915" -> AU915!TxParamSetupReq
      [] region = "CN470" -> CN470!TxParamSetupReq
      [] region = "CN779" -> CN779!TxParamSetupReq
      [] region = "EU433" -> EU433!TxParamSetupReq
      [] region = "EU868" -> EU868!TxParamSetupReq
      [] region = "IN865" -> IN865!TxParamSetupReq
      [] region = "KR920" -> KR920!TxParamSetupReq
      [] region = "RU864" -> RU864!TxParamSetupReq
      [] region = "US915" -> US915!TxParamSetupReq

RegionDlChannelReq(region, nvm, id, rx1Frequency) ==
    CASE region = "AS923" -> AS923!DlChannelReq(nvm, id, rx1Frequency)
      [] region = "AU915" -> AU915!DlChannelReq(nvm, id, rx1Frequency)
      [] region = "CN470" -> CN470!DlChannelReq(nvm, id, rx1Frequency)
      [] region = "CN779" -> CN779!DlChannelReq(nvm, id, rx1Frequency)
      [] region = "EU433" -> EU433!DlChannelReq(nvm, id, rx1Frequency)
      [] region = "EU868" -> EU868!DlChannelReq(nvm, id, rx1Frequency)
      [] region = "IN865" -> IN865!DlChannelReq(nvm, id, rx1Frequency)
      [] region = "KR920" -> KR920!DlChannelReq(nvm, id, rx1Frequency)
      [] region = "RU864" -> RU864!DlChannelReq(nvm, id, rx1Frequency)
      [] region = "US915" -> US915!DlChannelReq(nvm, id, rx1Frequency)

RegionNextChannel(region, nvm, joined, datarate) ==
    CASE region = "AS923" -> AS923!NextChannel(nvm, joined, datarate)
      [] region = "AU915" -> AU915!NextChannel(nvm, joined, datarate)
      [] region = "CN470" -> CN470!NextChannel(nvm, joined, datarate)
      [] region = "CN779" -> CN779!NextChannel(nvm, joined, datarate)
      [] region = "EU433" -> EU433!NextChannel(nvm, joined, datarate)
      [] region = "EU868" -> EU868!NextChannel(nvm, joined, datarate)
      [] region = "IN865" -> IN865!NextChannel(nvm, joined, datarate)
      [] region = "KR920" -> KR920!NextChannel(nvm, joined, datarate)
      [] region = "RU864" -> RU864!NextChannel(nvm, joined, datarate)
      [] region = "US915" -> US915!NextChannel(nvm, joined, datarate)

RegionAlternateDr(region, currentDr) ==
    CASE region = "AS923" -> AS923!AlternateDr(currentDr)
      [] region = "AU915" -> AU915!AlternateDr(currentDr)
      [] region = "CN470" -> CN470!AlternateDr(currentDr)
      [] region = "CN779" -> CN779!AlternateDr(currentDr)
      [] region = "EU433" -> EU433!AlternateDr(currentDr)
      [] region = "EU868" -> EU868!AlternateDr(currentDr)
      [] region = "IN865" -> IN865!AlternateDr(currentDr)
      [] region = "KR920" -> KR920!AlternateDr(currentDr)
      [] region = "RU864" -> RU864!AlternateDr(currentDr)
      [] region = "US915" -> US915!AlternateDr(currentDr)

RegionApplyDrOffset(region, downlinkDwellTime, dr, drOffset) ==
    CASE region = "AS923" -> AS923!ApplyDrOffset(downlinkDwellTime, dr, drOffset)
      [] region = "AU915" -> AU915!ApplyDrOffset(downlinkDwellTime, dr, drOffset)
      [] region = "CN470" -> CN470!ApplyDrOffset(downlinkDwellTime, dr, drOffset)
      [] region = "CN779" -> CN779!ApplyDrOffset(downlinkDwellTime, dr, drOffset)
      [] region = "EU433" -> EU433!ApplyDrOffset(downlinkDwellTime, dr, drOffset)
      [] region = "EU868" -> EU868!ApplyDrOffset(downlinkDwellTime, dr, drOffset)
      [] region = "IN865" -> IN865!ApplyDrOffset(downlinkDwellTime, dr, drOffset)
      [] region = "KR920" -> KR920!ApplyDrOffset(downlinkDwellTime, dr, drOffset)
      [] region = "RU864" -> RU864!ApplyDrOffset(downlinkDwellTime, dr, drOffset)
      [] region = "US915" -> US915!ApplyDrOffset(downlinkDwellTime, dr, drOffset)

RegionBlank(region) ==
    CASE region = "AS923" -> AS923!Plan!Blank
      [] region = "AU915" -> AU915!Plan!Blank
      [] region = "CN470" -> CN470!Plan!Blank
      [] region = "CN779" -> CN779!Plan!Blank
      [] region = "EU433" -> EU433!Plan!Blank
      [] region = "EU868" -> EU868!Plan!Blank
      [] region = "IN865" -> IN865!Plan!Blank
      [] region = "KR920" -> KR920!Plan!Blank
      [] region = "RU864" -> RU864!Plan!Blank
      [] region = "US915" -> US915!Plan!Blank

RegionGetTimeOnAir(region, dr, pktLen) ==
    CASE region = "AS923" -> AS923!GetTimeOnAir(dr, pktLen)
      [] region = "AU915" -> AU915!GetTimeOnAir(dr, pktLen)
      [] region = "CN470" -> CN470!GetTimeOnAir(dr, pktLen)
      [] region = "CN779" -> CN779!GetTimeOnAir(dr, pktLen)
      [] region = "EU433" -> EU433!GetTimeOnAir(dr, pktLen)
      [] region = "EU868" -> EU868!GetTimeOnAir(dr, pktLen)
      [] region = "IN865" -> IN865!GetTimeOnAir(dr, pktLen)
      [] region = "KR920" -> KR920!GetTimeOnAir(dr, pktLen)
      [] region = "RU864" -> RU864!GetTimeOnAir(dr, pktLen)
      [] region = "US915" -> US915!GetTimeOnAir(dr, pktLen)
=============================================================================
